---------------------------- MODULE DurableBuffer ----------------------------
(***************************************************************************)
(* What a buffer in front of a store promises its callers, without queue,  *)
(* batches, lanes or worker: a record it took is written at most once and  *)
(* is either confirmed, which means written, or still in its custody; a    *)
(* flush that succeeds confirms everything taken before it; once a stop    *)
(* has returned nothing is written any more.                               *)
(***************************************************************************)
EXTENDS Naturals

CONSTANTS Records, Callers

VARIABLES
  status,   \* record -> "new", "refused", "held" or "confirmed"
  stored,   \* record -> how often the store holds it
  reply,    \* caller of flush -> "none", "open", "ok" or "failed"
  scope,    \* caller -> the records its flush has to confirm
  closed    \* a stop has returned

vars == <<status, stored, reply, scope, closed>>

Init ==
  /\ status = [r \in Records |-> "new"]
  /\ stored = [r \in Records |-> 0]
  /\ reply  = [c \in Callers |-> "none"]
  /\ scope  = [c \in Callers |-> {}]
  /\ closed = FALSE

Held == {r \in Records : status[r] = "held"}

Refuse(r) ==
  /\ status[r] = "new"
  /\ status' = [status EXCEPT ![r] = "refused"]
  /\ UNCHANGED <<stored, reply, scope, closed>>

Take(r) ==
  /\ status[r] = "new" /\ ~closed
  /\ status' = [status EXCEPT ![r] = "held"]
  /\ UNCHANGED <<stored, reply, scope, closed>>

(* The store takes the records of S, none of which it holds yet.           *)
Write(S) == stored' = [r \in Records |-> IF r \in S THEN 1 ELSE stored[r]]

Unwritten == {r \in Held : stored[r] = 0}

Confirm(S) ==
  /\ S \subseteq Unwritten /\ ~closed
  /\ Write(S)
  /\ status' = [r \in Records |-> IF r \in S THEN "confirmed" ELSE status[r]]
  /\ UNCHANGED <<reply, scope, closed>>

(* Written, but the writer was not told: the record stays held.            *)
LoseAnswer(S) ==
  /\ S \subseteq Unwritten /\ ~closed
  /\ Write(S)
  /\ UNCHANGED <<status, reply, scope, closed>>

OpenFlush(c) ==
  /\ reply[c] = "none"
  /\ reply' = [reply EXCEPT ![c] = "open"]
  /\ scope' = [scope EXCEPT ![c] = Held]
  /\ UNCHANGED <<status, stored, closed>>

Succeed(c) ==
  /\ reply[c] = "open"
  /\ \A r \in scope[c] : status[r] = "confirmed"
  /\ reply' = [reply EXCEPT ![c] = "ok"]
  /\ UNCHANGED <<status, stored, scope, closed>>

Fail(c) ==
  /\ reply[c] \in {"none", "open"}
  /\ reply' = [reply EXCEPT ![c] = "failed"]
  /\ UNCHANGED <<status, stored, scope, closed>>

Close ==
  /\ closed' = TRUE
  /\ UNCHANGED <<status, stored, reply, scope>>

Next ==
  \/ \E r \in Records : Refuse(r) \/ Take(r)
  \/ \E S \in SUBSET Records : Confirm(S) \/ LoseAnswer(S)
  \/ \E c \in Callers : OpenFlush(c) \/ Succeed(c) \/ Fail(c)
  \/ Close

Spec == Init /\ [][Next]_vars
=============================================================================
