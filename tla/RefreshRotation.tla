--------------------------- MODULE RefreshRotation ---------------------------
(***************************************************************************)
(* Rotation of refresh tokens (aster_forge_auth/src/coordinator.rs and     *)
(* refresh.rs): each process serialises the requests for one token with a  *)
(* lock from a map that forgets a lock with its last holder, under a       *)
(* budget of admitted requests; the product's store, shared by the         *)
(* processes, decides with a compare-and-swap.  Credentials are numbered   *)
(* as they are issued; signatures, claims and accounts are left out.       *)
(***************************************************************************)
EXTENDS Naturals, FiniteSets

CONSTANTS
  Procs,       \* processes, each with its coordinator
  NumRequests, \* bound: refresh requests, numbered as they arrive
  Maximum,     \* budget of admitted requests per process
  MaxTokens,   \* bound: credentials issued
  MaxFaults    \* bound: failed store calls and dropped requests in them

VARIABLES
  session,  \* external: [current, previous, revoked] in the product's store,
            \* and history: committed, the credentials that ever were current
  minted,   \* credentials issued so far; 1 is the one of the login
  map,      \* process -> token -> the lock its entry refers to, 0 if none
  req,      \* request -> [pc, proc, token, lock, guard, next, res]
  closed,   \* processes whose coordinator is closed
  faults

vars == <<session, minted, map, req, closed, faults>>

Requests == 1 .. NumRequests
Tokens == 1 .. MaxTokens
NoLock == 0
NoRequest == [pc |-> "none", proc |-> CHOOSE p \in Procs : TRUE, token |-> 0,
              lock |-> NoLock, guard |-> FALSE, next |-> 0, res |-> "none"]

Init ==
  /\ session = [current |-> 1, previous |-> 0, revoked |-> FALSE,
                committed |-> {1}]
  /\ minted = 1
  /\ map = [p \in Procs |-> [t \in Tokens |-> NoLock]]
  /\ req = [r \in Requests |-> NoRequest]
  /\ closed = {}
  /\ faults = 0

(* A request keeps its permit from its admission to the end of its drop.   *)
Admitted(p) ==
  {r \in Requests : req[r].proc = p /\ req[r].pc \notin {"none", "done"}}

(* Strong references to a lock.                                            *)
Holders(l) == {r \in Requests : req[r].lock = l}
Live(l) == l # NoLock /\ Holders(l) # {}

(* A lock that neither a request nor an entry refers to.                   *)
Unreferenced(l) == Holders(l) = {} /\ \A p \in Procs, t \in Tokens : map[p][t] # l
NewLock == CHOOSE l \in 1 .. 2 * NumRequests : Unreferenced(l)

-----------------------------------------------------------------------------
(* acquire.                                                                *)

Fresh(r) == req[r].pc = "none" /\ \A q \in Requests : q < r => req[q].pc # "none"

(* Closed, or no permit left.                                              *)
Refuse(r, p) ==
  /\ Fresh(r)
  /\ p \in closed \/ Cardinality(Admitted(p)) >= Maximum
  /\ req' = [req EXCEPT ![r].pc = "done", ![r].res = "rejected"]
  /\ UNCHANGED <<session, minted, map, closed, faults>>

(* Under the map's mutex: the entry's lock if it is alive, or a new one.   *)
Register(r, p, t) ==
  /\ Fresh(r)
  /\ p \notin closed /\ Cardinality(Admitted(p)) < Maximum
  /\ LET l == IF Live(map[p][t]) THEN map[p][t] ELSE NewLock IN
     /\ map' = [map EXCEPT ![p][t] = l]
     /\ req' = [req EXCEPT ![r] = [NoRequest EXCEPT
          !.pc = "queued", !.proc = p, !.token = t, !.lock = l]]
  /\ UNCHANGED <<session, minted, closed, faults>>

Drops(r, res) ==
  req' = [req EXCEPT ![r].pc = "drop", ![r].next = 0,
                     ![r].res = IF res \in {"rotated", "reuse"} THEN res ELSE "rejected"]

Lock(r) ==
  /\ req[r].pc = "queued" /\ req[r].proc \notin closed
  /\ \A q \in Holders(req[r].lock) : ~req[q].guard
  /\ req' = [req EXCEPT ![r].pc = "locked", ![r].guard = TRUE]
  /\ UNCHANGED <<session, minted, map, closed, faults>>

(* The caller cancels, or drops its future, or the coordinator closes.     *)
CancelQueued(r) ==
  /\ req[r].pc = "queued"
  /\ Drops(r, "cancelled")
  /\ UNCHANGED <<session, minted, map, closed, faults>>

Close(p) ==
  /\ p \notin closed
  /\ closed' = closed \cup {p}
  /\ UNCHANGED <<session, minted, map, req, faults>>

-----------------------------------------------------------------------------
(* refresh_with_cancellation, holding the lock.                            *)

(* The credential is verified again and a candidate signed; then the last  *)
(* moment at which a cancellation counts.                                  *)
Prepare(r) ==
  /\ req[r].pc = "locked"
  /\ \/ Drops(r, "cancelled") /\ UNCHANGED minted
     \/ /\ req[r].proc \notin closed /\ minted < MaxTokens
        /\ minted' = minted + 1
        /\ req' = [req EXCEPT ![r].pc = "read", ![r].next = minted + 1]
  /\ UNCHANGED <<session, map, closed, faults>>

(* classify_refresh; time, client and policy may say anything.             *)
Classify(s, t) ==
  IF s.revoked THEN {"unavailable", "expired"}
  ELSE IF s.current = t THEN {"rotate", "expired"}
  ELSE {"reuse", "expired"}
       \cup (IF s.previous = t THEN {"stale"} ELSE {})

Revoked == [session EXCEPT !.revoked = TRUE]

(* The store's transaction reads and classifies; a rejection commits with  *)
(* its effects.                                                            *)
ReadSession(r) ==
  /\ req[r].pc = "read"
  /\ \E d \in Classify(session, req[r].token) :
       IF d = "rotate"
       THEN req' = [req EXCEPT ![r].pc = "write"] /\ UNCHANGED session
       ELSE /\ Drops(r, d)
            /\ session' = IF d = "reuse" THEN Revoked ELSE session
  /\ UNCHANGED <<minted, map, closed, faults>>

Unchanged(r) == session.current = req[r].token /\ ~session.revoked

Rotated(r) == [current |-> req[r].next, previous |-> req[r].token, revoked |-> FALSE,
               committed |-> session.committed \cup {req[r].next}]

(* Mutant: the update is not conditional.                                  *)
RotateBlindly(r) ==
  /\ req[r].pc = "write"
  /\ session' = Rotated(r) /\ Drops(r, "rotated")
  /\ UNCHANGED <<minted, map, closed, faults>>

(* The conditional update commits, or its compare-and-swap loses.          *)
Rotate(r) ==
  /\ req[r].pc = "write"
  /\ IF Unchanged(r)
     THEN session' = Rotated(r) /\ Drops(r, "rotated")
     ELSE req' = [req EXCEPT ![r].pc = "conflict"] /\ UNCHANGED session
  /\ UNCHANGED <<minted, map, closed, faults>>

(* A fresh transaction that may only reject.                               *)
ResolveConflict(r) ==
  /\ req[r].pc = "conflict"
  /\ \E d \in Classify(session, req[r].token) \ {"rotate"} :
       /\ Drops(r, d)
       /\ session' = IF d = "reuse" THEN Revoked ELSE session
  /\ UNCHANGED <<minted, map, closed, faults>>

(* What the transaction of a request commits: a rotation, or the           *)
(* revocation of a session whose credential is used again.                 *)
Commits(r) ==
  IF req[r].pc = "write" THEN IF Unchanged(r) THEN {Rotated(r)} ELSE {}
  ELSE IF "reuse" \in Classify(session, req[r].token) THEN {Revoked} ELSE {}

(* The store fails, or the future is dropped inside it: nothing committed, *)
(* or everything and nobody is told.                                       *)
StoreFails(r) ==
  /\ req[r].pc \in {"read", "write", "conflict"} /\ faults < MaxFaults
  /\ Drops(r, "failed")
  /\ session' \in {session} \cup Commits(r)
  /\ faults' = faults + 1
  /\ UNCHANGED <<minted, map, closed>>

-----------------------------------------------------------------------------
(* Drop of the reservation: guard and lock first, then the entry if it     *)
(* refers to no live lock.                                                 *)

DropGuard(r) ==
  /\ req[r].pc = "drop"
  /\ req' = [req EXCEPT ![r].pc = "unmap", ![r].guard = FALSE, ![r].lock = NoLock]
  /\ UNCHANGED <<session, minted, map, closed, faults>>

(* What is left of a request: its result, and the token it was for.        *)
Ended(q) ==
  [NoRequest EXCEPT !.pc = "done", !.res = q.res,
                    !.token = IF q.res = "rotated" THEN q.token ELSE 0]

DropEntry(r) ==
  /\ req[r].pc = "unmap"
  /\ map' = [map EXCEPT ![req[r].proc][req[r].token] =
               IF Live(@) THEN @ ELSE NoLock]
  /\ req' = [req EXCEPT ![r] = Ended(@)]
  /\ UNCHANGED <<session, minted, closed, faults>>

-----------------------------------------------------------------------------
(* Mutant: closing does not wake the requests that wait for a lock.        *)
RequestStepUnclosed(r) ==
  \/ Lock(r) \/ Prepare(r) \/ ReadSession(r) \/ Rotate(r) \/ ResolveConflict(r)
  \/ DropGuard(r) \/ DropEntry(r)

RequestStep(r) ==
  \/ Lock(r) \/ Prepare(r) \/ ReadSession(r) \/ Rotate(r) \/ ResolveConflict(r)
  \/ DropGuard(r) \/ DropEntry(r)
  \/ (req[r].proc \in closed /\ CancelQueued(r))

Next ==
  \/ \E r \in Requests, p \in Procs :
       Refuse(r, p) \/ \E t \in session.committed : Register(r, p, t)
  \/ \E r \in Requests : RequestStep(r) \/ CancelQueued(r) \/ StoreFails(r)
  \/ \E p \in Procs : Close(p)

Spec == Init /\ [][Next]_vars

(* Requests are polled and the store answers.                              *)
Fairness == \A r \in Requests : WF_vars(RequestStep(r))

FairSpec == Spec /\ Fairness

-----------------------------------------------------------------------------
(* Properties.                                                             *)

(* Whatever processes, retries, lost answers and cancellations do, a       *)
(* credential is exchanged at most once, and a reuse that was reported has *)
(* revoked the session for good (refresh_with_cancellation, with the       *)
(* contract of RefreshSessionStore).                                       *)
OneRotationPerToken ==
  /\ \A q, r \in Requests :
       req[q].res = "rotated" /\ req[r].res = "rotated" /\ req[q].token = req[r].token
         => q = r
  /\ (\E r \in Requests : req[r].res = "reuse") => session.revoked

Busy(r) == req[r].lock # NoLock

(* In one process the requests for a token share one lock, whose entry     *)
(* they can be found by, so that one at a time is in the store; and the    *)
(* map keeps no entry that nobody is about to remove (acquire, Drop).      *)
LocksAreShared ==
  /\ \A q, r \in Requests :
       Busy(q) /\ Busy(r) /\ req[q].proc = req[r].proc /\ req[q].token = req[r].token
         => req[q].lock = req[r].lock /\ (req[q].guard /\ req[r].guard => q = r)
  /\ \A r \in Requests : Busy(r) => map[req[r].proc][req[r].token] = req[r].lock
  /\ \A p \in Procs, t \in Tokens : map[p][t] # NoLock =>
       \E r \in Requests : req[r].proc = p /\ req[r].token = t
                           /\ req[r].pc \notin {"none", "done"}

(* Every admitted request ends and gives its permit and its entry back.    *)
RequestsGone ==
  \A p \in Procs : Admitted(p) = {} /\ \A t \in Tokens : map[p][t] = NoLock
=============================================================================
