---------------------------- MODULE MCMailOutbox ----------------------------
(* MailOutbox for TLC: the dispatchers are interchangeable.                *)
EXTENDS MailOutbox, TLC

DispatcherSymmetry == Permutations(Dispatchers)
=============================================================================
