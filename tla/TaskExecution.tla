---------------------------- MODULE TaskExecution ----------------------------
(***************************************************************************)
(* The life of a persisted background task under its processing lease      *)
(* (aster_forge_tasks: dispatch.rs, execution.rs, heartbeat.rs, lease.rs). *)
(*                                                                         *)
(* A worker slot claims a due row, which gives it the next processing      *)
(* token, and runs process_claimed_task: a lease guard and a heartbeat     *)
(* task start, the product's body runs, the outcome is persisted, and the  *)
(* heartbeat is stopped and joined.  The lease can expire at any time; the *)
(* row is then claimed again while the first slot may still be anywhere in *)
(* its run.  What keeps that harmless is the token fence of the store.     *)
(*                                                                         *)
(* The store is the product's: its operations are modelled from how        *)
(* execution.rs calls them.  An operation takes effect and answers in the  *)
(* step that ends its await, and may fail with or without effect.  Times   *)
(* are ages and times left, so behaviours are not bounded in time.         *)
(***************************************************************************)
EXTENDS Naturals

CONSTANTS
  Tasks,         \* task ids
  Workers,       \* slots: concurrent runs of process_claimed_task
  NoTask,        \* an idle slot's task
  MaxAttempts,   \* max_attempts of every task
  StaleSecs,     \* processing_stale_secs
  HeartbeatSecs, \* the heartbeat interval
  ClaimDelay,    \* longest time from a claim's `now` to its commit
  RetryDelay,    \* retry_delay_secs
  MaxToken,      \* i64::MAX: the token counter refuses to pass it
  MaxFaults      \* bound: failed store operations and crashes

ASSUME ConstantsAssumption ==
  /\ NoTask \notin Tasks
  /\ MaxAttempts \in Nat \ {0}
  /\ StaleSecs \in Nat /\ HeartbeatSecs \in Nat \ {0}
  /\ ClaimDelay \in Nat /\ RetryDelay \in Nat
  /\ MaxToken \in Nat /\ MaxFaults \in Nat

VARIABLES
  (* the rows of the task table *)
  status, procToken, attemptCount, cancelReq,
  leaseLeft,    \* lease_expires_at, as the time left
  dueIn,        \* next run, as the time left
  (* the slots *)
  pc,           \* the await the slot is in
  task, lease,  \* TaskLease: task_id and processing_token
  snapAttempts, snapCancel,  \* the row as it was claimed
  guardAge,     \* time since the guard's last_renewed_at
  term,         \* the guard's termination
  result,       \* what the body returned
  outcome,      \* TaskDispatchOutcome, or "error" for a store error
  hb, hbAge,    \* the heartbeat task, and the time since its last tick
  shutdown,     \* the slot's shutdown token is cancelled
  faults

rowVars  == <<status, procToken, attemptCount, cancelReq, leaseLeft, dueIn>>
runVars  == <<pc, task, lease, snapAttempts, snapCancel, result, outcome>>
beatVars == <<guardAge, term, hb, hbAge>>
vars     == <<rowVars, runVars, beatVars, shutdown, faults>>

Terminal == {"succeeded", "failed", "canceled"}
Statuses == {"pending", "processing", "retry"} \cup Terminal
Stops    == {"lost", "timeout", "shutdown", "cancel"}
Results  == {"none", "ok", "transient", "permanent"} \cup Stops
Outcomes == {"none", "error", "succeeded", "retried", "failed", "canceled"}
Running  == {"body", "ackFirst", "confirm", "release", "retry", "fail",
             "ackFinal", "join"}
Labels   == {"idle", "claimed"} \cup Running

AtLeastOne(n) == IF n = 0 THEN 1 ELSE n
Minus(a, b)   == IF a > b THEN a - b ELSE 0

(* task_lease_expires_at and task_lease_renewal_timeout.                   *)
Lease          == AtLeastOne(StaleSecs)
NoSafetyMargin == Lease   \* Mutant: the guard runs as long as the lease.
RenewalTimeout == AtLeastOne(Minus(Lease, AtLeastOne(HeartbeatSecs)))

Init ==
  /\ status = [t \in Tasks |-> "pending"]
  /\ procToken = [t \in Tasks |-> 0]
  /\ attemptCount = [t \in Tasks |-> 0]
  /\ cancelReq = [t \in Tasks |-> FALSE]
  /\ leaseLeft = [t \in Tasks |-> 0]
  /\ dueIn = [t \in Tasks |-> 0]
  /\ pc = [w \in Workers |-> "idle"]
  /\ task = [w \in Workers |-> NoTask]
  /\ lease = [w \in Workers |-> 0]
  /\ snapAttempts = [w \in Workers |-> 0]
  /\ snapCancel = [w \in Workers |-> FALSE]
  /\ guardAge = [w \in Workers |-> 0]
  /\ term = [w \in Workers |-> "none"]
  /\ result = [w \in Workers |-> "none"]
  /\ outcome = [w \in Workers |-> "none"]
  /\ hb = [w \in Workers |-> "off"]
  /\ hbAge = [w \in Workers |-> 0]
  /\ shutdown = [w \in Workers |-> FALSE]
  /\ faults = 0

Fault   == faults < MaxFaults /\ faults' = faults + 1
NoFault == UNCHANGED faults

-----------------------------------------------------------------------------
(* The store's conditions.  Executable is the token fence; Undisturbed     *)
(* also requires, in the same atomic update, that no cancellation request  *)
(* was committed.                                                          *)

Executable(w) ==
  /\ status[task[w]] = "processing"
  /\ procToken[task[w]] = lease[w]

Undisturbed(w) == Executable(w) /\ ~cancelReq[task[w]]
CancelDue(w)   == Executable(w) /\ cancelReq[task[w]]

Claimable(t) ==
  \/ status[t] \in {"pending", "retry"} /\ dueIn[t] = 0
  \/ status[t] = "processing" /\ leaseLeft[t] = 0

SetStatus(t, s) == status' = [status EXCEPT ![t] = s]

-----------------------------------------------------------------------------
(* Claiming.                                                               *)

(* The store's atomic claim at a `now` that is d old when it commits.      *)
ClaimRow(t, d) ==
  /\ Claimable(t)
  /\ procToken[t] < MaxToken
  /\ SetStatus(t, "processing")
  /\ procToken' = [procToken EXCEPT ![t] = @ + 1]
  /\ leaseLeft' = [leaseLeft EXCEPT ![t] = Minus(Lease, d)]
  /\ UNCHANGED <<attemptCount, cancelReq, dueIn>>

(* claim_due_for_lane returns the pre-claim snapshot with its lease.       *)
Claim(w, t) ==
  /\ pc[w] = "idle" /\ ~shutdown[w]
  /\ \E d \in 0..ClaimDelay :
       /\ ClaimRow(t, d)
       /\ hbAge' = [hbAge EXCEPT ![w] = d]
  /\ pc' = [pc EXCEPT ![w] = "claimed"]
  /\ task' = [task EXCEPT ![w] = t]
  /\ lease' = [lease EXCEPT ![w] = procToken[t] + 1]
  /\ snapAttempts' = [snapAttempts EXCEPT ![w] = attemptCount[t]]
  /\ snapCancel' = [snapCancel EXCEPT ![w] = cancelReq[t]]
  /\ UNCHANGED <<result, outcome, guardAge, term, hb, shutdown>>
  /\ NoFault

(* The claim commits but its caller gets an error: a lost answer, or a     *)
(* batch that claim_due_for_lane rejects.  The row waits for its expiry.   *)
ClaimLost(t) ==
  /\ Fault
  /\ ClaimRow(t, 0)
  /\ UNCHANGED <<runVars, beatVars, shutdown>>

-----------------------------------------------------------------------------
(* process_claimed_task up to the body.                                    *)

(* TaskLeaseGuard::ensure_active: the termination it finds or records.     *)
EnsureActive(w) ==
  IF term[w] # "none" THEN term[w]
  ELSE IF shutdown[w] THEN "shutdown"
  ELSE IF guardAge[w] >= RenewalTimeout THEN "timeout"
  ELSE "none"

(* The guard is created and the heartbeat spawned; a snapshot that already *)
(* asks for cancellation is acknowledged, a stopped worker skips the body. *)
Begin(w) ==
  /\ pc[w] = "claimed"
  /\ guardAge' = [guardAge EXCEPT ![w] = 0]
  /\ hb' = [hb EXCEPT ![w] = "wait"]
  /\ hbAge' = [hbAge EXCEPT ![w] = 0]
  /\ LET stopped == shutdown[w] /\ ~snapCancel[w]
     IN  /\ pc' = [pc EXCEPT ![w] = IF snapCancel[w] THEN "ackFinal"
                                    ELSE IF stopped THEN "ackFirst" ELSE "body"]
         /\ term' = [term EXCEPT ![w] = IF stopped THEN "shutdown" ELSE @]
         /\ result' = [result EXCEPT ![w] = IF stopped THEN "shutdown" ELSE @]
  /\ UNCHANGED <<rowVars, task, lease, snapAttempts, snapCancel, outcome,
                 shutdown, faults>>

-----------------------------------------------------------------------------
(* The product's body (external).                                          *)

(* It commits success for its own token, once the token still holds.       *)
BodyCommits(w) ==
  /\ pc[w] = "body"
  /\ Executable(w)
  /\ SetStatus(task[w], "succeeded")
  /\ UNCHANGED <<procToken, attemptCount, cancelReq, leaseLeft, dueIn>>
  /\ UNCHANGED <<runVars, beatVars, shutdown, faults>>

(* It returns: Ok, an error the product classifies, or the error of the    *)
(* guard when a checkpoint found that execution must stop.                 *)
BodyReturns(w) ==
  /\ pc[w] = "body"
  /\ \/ /\ \E r \in {"ok", "transient", "permanent"} :
             result' = [result EXCEPT ![w] = r]
        /\ UNCHANGED term
     \/ /\ EnsureActive(w) # "none"
        /\ term' = [term EXCEPT ![w] = EnsureActive(w)]
        /\ result' = [result EXCEPT ![w] = EnsureActive(w)]
  /\ pc' = [pc EXCEPT ![w] = "ackFirst"]
  /\ UNCHANGED <<rowVars, task, lease, snapAttempts, snapCancel, outcome,
                 guardAge, hb, hbAge, shutdown, faults>>

-----------------------------------------------------------------------------
(* complete_claimed_task: one action per store call.                       *)

NextAttempt(w) == snapAttempts[w] + 1

(* Mutant: the last attempt is retried.                                    *)
RetriesTooOften(w) ==
  IF result[w] = "ok" THEN "confirm"
  ELSE IF result[w] = "shutdown" THEN "release"
  ELSE IF result[w] \in Stops THEN "ackFinal"
  ELSE IF result[w] = "transient" /\ NextAttempt(w) <= MaxAttempts THEN "retry"
  ELSE "fail"

(* What follows the first cancellation check, by the body's result.        *)
AfterAck(w) ==
  IF result[w] = "ok" THEN "confirm"
  ELSE IF result[w] = "shutdown" THEN "release"
  ELSE IF result[w] \in Stops THEN "ackFinal"
  ELSE IF result[w] = "transient" /\ NextAttempt(w) < MaxAttempts THEN "retry"
  ELSE "fail"

(* The call's answer decides what comes next; the body's result has been   *)
(* used by then.                                                           *)
Settle(w, o) ==
  /\ pc' = [pc EXCEPT ![w] = "join"]
  /\ outcome' = [outcome EXCEPT ![w] = o]
  /\ result' = [result EXCEPT ![w] = "none"]

GoTo(w, label) ==
  /\ pc' = [pc EXCEPT ![w] = label]
  /\ result' = [result EXCEPT ![w] = "none"]
  /\ UNCHANGED outcome

Unaffected(w) ==
  UNCHANGED <<procToken, cancelReq, task, lease, snapAttempts, snapCancel,
              beatVars, shutdown>>

(* cancel_task_if_requested, and where the run goes when it returns false. *)
Acknowledge(w, otherwise) ==
  /\ \/ /\ CancelDue(w) /\ NoFault
        /\ SetStatus(task[w], "canceled")
        /\ Settle(w, "canceled")
     \/ /\ ~CancelDue(w) /\ NoFault
        /\ UNCHANGED status
        /\ IF otherwise = "join" THEN Settle(w, "none") ELSE GoTo(w, otherwise)
     \/ /\ Fault
        /\ \/ UNCHANGED status
           \/ CancelDue(w) /\ SetStatus(task[w], "canceled")
        /\ Settle(w, "error")
  /\ UNCHANGED <<attemptCount, leaseLeft, dueIn>>
  /\ Unaffected(w)

AckFirst(w) == pc[w] = "ackFirst" /\ Acknowledge(w, AfterAck(w))

AckFinal(w) == pc[w] = "ackFinal" /\ Acknowledge(w, "join")

(* confirm_task_succeeded: terminal success of this very token.            *)
Succeeded(w) == status[task[w]] = "succeeded" /\ procToken[task[w]] = lease[w]

(* Mutant: a body that returned Ok is reported without the confirmation.   *)
ReportUnconfirmed(w) ==
  /\ pc[w] = "confirm" /\ NoFault
  /\ Settle(w, "succeeded")
  /\ UNCHANGED <<status, attemptCount, leaseLeft, dueIn>>
  /\ Unaffected(w)

Confirm(w) ==
  /\ pc[w] = "confirm"
  /\ \/ Succeeded(w) /\ Settle(w, "succeeded") /\ NoFault
     \/ ~Succeeded(w) /\ GoTo(w, "ackFinal") /\ NoFault
     \/ Settle(w, "error") /\ Fault
  /\ UNCHANGED <<status, attemptCount, leaseLeft, dueIn>>
  /\ Unaffected(w)

ReleasedRow(w) ==
  /\ SetStatus(task[w], "pending")
  /\ leaseLeft' = [leaseLeft EXCEPT ![task[w]] = 0]
  /\ dueIn' = [dueIn EXCEPT ![task[w]] = 0]
  /\ UNCHANGED attemptCount

(* Mutant: the release names the task and not the lease.                   *)
ReleaseUnfenced(w) ==
  /\ pc[w] = "release" /\ NoFault
  /\ ReleasedRow(w) /\ GoTo(w, "ackFinal")
  /\ Unaffected(w)

(* release_task_for_shutdown.                                              *)
Release(w) ==
  /\ pc[w] = "release"
  /\ \/ Undisturbed(w) /\ ReleasedRow(w) /\ GoTo(w, "ackFinal") /\ NoFault
     \/ /\ ~Undisturbed(w) /\ GoTo(w, "ackFinal") /\ NoFault
        /\ UNCHANGED <<status, leaseLeft, dueIn, attemptCount>>
     \/ /\ Settle(w, "error") /\ Fault
        /\ \/ Undisturbed(w) /\ ReleasedRow(w)
           \/ UNCHANGED <<status, leaseLeft, dueIn, attemptCount>>
  /\ Unaffected(w)

OutcomeRow(w, s, delay) ==
  /\ SetStatus(task[w], s)
  /\ attemptCount' = [attemptCount EXCEPT ![task[w]] = NextAttempt(w)]
  /\ leaseLeft' = [leaseLeft EXCEPT ![task[w]] = 0]
  /\ dueIn' = [dueIn EXCEPT ![task[w]] = delay]

(* mark_task_retry and mark_task_failed: the fenced update, the miss that  *)
(* leads to the last cancellation check, the store error.                  *)
Persist(w, s, delay, o) ==
  /\ \/ Undisturbed(w) /\ OutcomeRow(w, s, delay) /\ Settle(w, o) /\ NoFault
     \/ /\ ~Undisturbed(w) /\ GoTo(w, "ackFinal") /\ NoFault
        /\ UNCHANGED <<status, leaseLeft, dueIn, attemptCount>>
     \/ /\ Settle(w, "error") /\ Fault
        /\ \/ Undisturbed(w) /\ OutcomeRow(w, s, delay)
           \/ UNCHANGED <<status, leaseLeft, dueIn, attemptCount>>
  /\ Unaffected(w)

(* Mutant: the retry relies on the first cancellation check, which is over *)
(* by then.                                                                *)
RetryOverCancel(w) ==
  /\ pc[w] = "retry" /\ NoFault
  /\ \/ /\ Executable(w)
        /\ OutcomeRow(w, "retry", RetryDelay) /\ Settle(w, "retried")
     \/ /\ ~Executable(w) /\ GoTo(w, "ackFinal")
        /\ UNCHANGED <<status, leaseLeft, dueIn, attemptCount>>
  /\ Unaffected(w)

Retry(w) == pc[w] = "retry" /\ Persist(w, "retry", RetryDelay, "retried")
Fail(w)  == pc[w] = "fail" /\ Persist(w, "failed", 0, "failed")

-----------------------------------------------------------------------------
(* The heartbeat task.                                                     *)

(* touch_task_heartbeat's update, for the `now` of the last tick.          *)
TouchRow(w) ==
  leaseLeft' = [leaseLeft EXCEPT ![task[w]] = Minus(Lease, hbAge[w])]

BeatOnly ==
  UNCHANGED <<status, procToken, attemptCount, cancelReq, dueIn, runVars,
              shutdown>>

HeartbeatTick(w) ==
  /\ hb[w] = "wait"
  /\ hbAge[w] >= HeartbeatSecs
  /\ hb' = [hb EXCEPT ![w] = "touch"]
  /\ hbAge' = [hbAge EXCEPT ![w] = 0]
  /\ UNCHANGED <<leaseLeft, guardAge, term, faults>> /\ BeatOnly

(* Renewed: record_renewed restarts the guard unless it has terminated.    *)
HeartbeatRenewed(w) ==
  /\ hb[w] = "touch" /\ Undisturbed(w)
  /\ TouchRow(w)
  /\ guardAge' = [guardAge EXCEPT ![w] = IF term[w] = "none" THEN 0 ELSE @]
  /\ hb' = [hb EXCEPT ![w] = "wait"]
  /\ UNCHANGED <<term, hbAge, faults>> /\ BeatOnly

(* Lost or CancellationRequested: the guard terminates, the loop ends.     *)
HeartbeatStops(w) ==
  /\ hb[w] = "touch" /\ ~Undisturbed(w)
  /\ term' = [term EXCEPT ![w] = IF Executable(w) THEN "cancel" ELSE "lost"]
  /\ hb' = [hb EXCEPT ![w] = "exited"]
  /\ UNCHANGED <<leaseLeft, guardAge, hbAge, faults>> /\ BeatOnly

(* A store error is transient until the guard itself has run out.          *)
HeartbeatError(w) ==
  /\ hb[w] = "touch" /\ Fault
  /\ UNCHANGED leaseLeft \/ (Undisturbed(w) /\ TouchRow(w))
  /\ term' = [term EXCEPT ![w] = EnsureActive(w)]
  /\ hb' = [hb EXCEPT ![w] = IF EnsureActive(w) = "none" THEN "wait" ELSE "exited"]
  /\ UNCHANGED <<guardAge, hbAge>> /\ BeatOnly

(* The slot is free again.                                                 *)
Free(w) ==
  /\ pc' = [pc EXCEPT ![w] = "idle"]
  /\ task' = [task EXCEPT ![w] = NoTask]
  /\ lease' = [lease EXCEPT ![w] = 0]
  /\ snapAttempts' = [snapAttempts EXCEPT ![w] = 0]
  /\ snapCancel' = [snapCancel EXCEPT ![w] = FALSE]
  /\ guardAge' = [guardAge EXCEPT ![w] = 0]
  /\ term' = [term EXCEPT ![w] = "none"]
  /\ result' = [result EXCEPT ![w] = "none"]
  /\ outcome' = [outcome EXCEPT ![w] = "none"]
  /\ hb' = [hb EXCEPT ![w] = "off"]
  /\ hbAge' = [hbAge EXCEPT ![w] = 0]
  /\ UNCHANGED <<status, procToken, attemptCount, cancelReq, dueIn>>

(* Mutant: the heartbeat is awaited and not stopped.                       *)
JoinWaits(w) ==
  /\ pc[w] = "join" /\ hb[w] = "exited"
  /\ Free(w)
  /\ UNCHANGED <<leaseLeft, shutdown, faults>>

(* stop_task_heartbeat: a touch under way is dropped, sent or not.         *)
Join(w) ==
  /\ pc[w] = "join"
  /\ \/ UNCHANGED leaseLeft
     \/ hb[w] = "touch" /\ Undisturbed(w) /\ TouchRow(w)
  /\ Free(w)
  /\ UNCHANGED <<shutdown, faults>>

-----------------------------------------------------------------------------
(* The environment.                                                        *)

RequestCancel(t) ==
  /\ status[t] \notin Terminal /\ ~cancelReq[t]
  /\ cancelReq' = [cancelReq EXCEPT ![t] = TRUE]
  /\ UNCHANGED <<status, procToken, attemptCount, leaseLeft, dueIn>>
  /\ UNCHANGED <<runVars, beatVars, shutdown, faults>>

RequestShutdown(w) ==
  /\ ~shutdown[w]
  /\ shutdown' = [shutdown EXCEPT ![w] = TRUE]
  /\ UNCHANGED <<rowVars, runVars, beatVars, faults>>

(* The process is gone and a new one has taken its place.                  *)
Restart(w) ==
  /\ pc[w] = "idle" /\ shutdown[w]
  /\ shutdown' = [shutdown EXCEPT ![w] = FALSE]
  /\ UNCHANGED <<rowVars, runVars, beatVars, faults>>

Crash(w) ==
  /\ pc[w] # "idle"
  /\ Fault
  /\ Free(w)
  /\ shutdown' = [shutdown EXCEPT ![w] = FALSE]
  /\ UNCHANGED leaseLeft

(* One unit of time; an age past its last use is not counted further: the  *)
(* guard's once it has timed out or terminated, the heartbeat's once its   *)
(* next tick is due or the `now` of its touch is a lease old.              *)
Older(age, limit) == IF age < limit THEN age + 1 ELSE age

Tick ==
  /\ leaseLeft' = [t \in Tasks |-> Minus(leaseLeft[t], 1)]
  /\ dueIn' = [t \in Tasks |-> Minus(dueIn[t], 1)]
  /\ guardAge' = [w \in Workers |->
                    IF pc[w] \in Running /\ term[w] = "none"
                      THEN Older(guardAge[w], RenewalTimeout) ELSE guardAge[w]]
  /\ hbAge' = [w \in Workers |->
                 IF pc[w] = "claimed" \/ hb[w] = "touch" THEN Older(hbAge[w], Lease)
                 ELSE IF hb[w] = "wait" THEN Older(hbAge[w], HeartbeatSecs)
                 ELSE hbAge[w]]
  /\ UNCHANGED <<status, procToken, attemptCount, cancelReq, runVars, term, hb,
                 shutdown, faults>>

Execute(w) ==
  \/ Begin(w) \/ BodyReturns(w) \/ AckFirst(w) \/ Confirm(w) \/ Release(w)
  \/ Retry(w) \/ Fail(w) \/ AckFinal(w) \/ Join(w)

Heartbeat(w) ==
  \/ HeartbeatTick(w) \/ HeartbeatRenewed(w) \/ HeartbeatStops(w)
  \/ HeartbeatError(w)

Work ==
  \/ \E w \in Workers : \/ \E t \in Tasks : Claim(w, t)
                        \/ Execute(w) \/ BodyCommits(w) \/ Heartbeat(w)
                        \/ RequestShutdown(w) \/ Restart(w) \/ Crash(w)
  \/ \E t \in Tasks : ClaimLost(t) \/ RequestCancel(t)

Next == Work \/ Tick

Spec == Init /\ [][Next]_vars

(* Every runnable task of the runtime is polled, time goes on, and the     *)
(* product's body returns.                                                 *)
FairSpec ==
  /\ Spec
  /\ WF_vars(Tick)
  /\ \A w \in Workers :
       /\ WF_vars(Execute(w)) /\ WF_vars(Heartbeat(w)) /\ WF_vars(Restart(w))
       /\ WF_vars(\E t \in Tasks : Claim(w, t))

-----------------------------------------------------------------------------
RowTypes ==
  /\ status \in [Tasks -> Statuses]
  /\ procToken \in [Tasks -> 0..MaxToken]
  /\ attemptCount \in [Tasks -> Nat]
  /\ cancelReq \in [Tasks -> BOOLEAN]
  /\ leaseLeft \in [Tasks -> Nat]
  /\ dueIn \in [Tasks -> Nat]

RunTypes ==
  /\ pc \in [Workers -> Labels]
  /\ task \in [Workers -> Tasks \cup {NoTask}]
  /\ \A w \in Workers : pc[w] # "idle" => task[w] \in Tasks
  /\ lease \in [Workers -> Nat]
  /\ snapAttempts \in [Workers -> Nat]
  /\ snapCancel \in [Workers -> BOOLEAN]
  /\ result \in [Workers -> Results]
  /\ outcome \in [Workers -> Outcomes]

BeatTypes ==
  /\ guardAge \in [Workers -> Nat]
  /\ term \in [Workers -> {"none"} \cup Stops]
  /\ hb \in [Workers -> {"off", "wait", "touch", "exited"}]
  /\ \A w \in Workers : hb[w] # "off" => pc[w] # "idle"
  /\ hbAge \in [Workers -> Nat]

(* Every variable has its type, and only a slot in use has a task and a    *)
(* heartbeat.                                                              *)
TypeOK ==
  /\ RowTypes
  /\ RunTypes
  /\ BeatTypes
  /\ shutdown \in [Workers -> BOOLEAN]
  /\ faults \in 0..MaxFaults

(* No two runs hold the same lease, however often a task was claimed, its  *)
(* lease expired or a claim's answer was lost.                             *)
TokensAreUnique ==
  \A v, w \in Workers :
    pc[v] # "idle" /\ pc[w] # "idle" /\ task[v] = task[w] /\ lease[v] = lease[w]
      => v = w

(* What process_claimed_task reports is what the store holds: a success,   *)
(* failure or cancellation it reports is the final state of the row, by    *)
(* its own token; a retry it reports is the row's state until the row is   *)
(* claimed again.                                                          *)
ReportsAreDurable ==
  \A w \in Workers :
    pc[w] = "join" =>
      /\ outcome[w] \in Terminal =>
           status[task[w]] = outcome[w] /\ procToken[task[w]] = lease[w]
      /\ outcome[w] = "retried" =>
           \/ procToken[task[w]] > lease[w]
           \/ /\ status[task[w]] = "retry"
              /\ attemptCount[task[w]] = NextAttempt(w)

(* No attempt is counted twice and none beyond the budget: attempts never  *)
(* exceed max_attempts nor the number of claims, and a task waiting for a  *)
(* retry has an attempt left.                                              *)
AttemptBudget ==
  \A t \in Tasks :
    /\ attemptCount[t] <= MaxAttempts
    /\ attemptCount[t] <= procToken[t]
    /\ status[t] = "retry" => attemptCount[t] < MaxAttempts

(* ensure_active "returns success only while the lease is still safe for   *)
(* writes": while a body's guard is active, its token is the row's.        *)
ActiveGuardHoldsLease ==
  \A w \in Workers :
    pc[w] = "body" /\ EnsureActive(w) = "none" => procToken[task[w]] = lease[w]

(* What is decided about a task stands.  A settled row is never touched    *)
(* again: no late worker, heartbeat or claim brings it back or changes its *)
(* attempts.  And a committed cancellation request is never erased by a    *)
(* failure, a retry or a shutdown release that raced with it: the row can  *)
(* only stay in hand, be claimed again, be canceled, or have succeeded.    *)
DecisionsStand ==
  [][\A t \in Tasks :
       /\ status[t] \in Terminal =>
            /\ status'[t] = status[t]
            /\ procToken'[t] = procToken[t]
            /\ attemptCount'[t] = attemptCount[t]
       /\ cancelReq[t] =>
            /\ cancelReq'[t]
            /\ status'[t] # status[t] =>
                 status'[t] \in {"processing", "canceled", "succeeded"}]_vars

(* Only the holder of the row's current token changes a claimed row; the   *)
(* others can at most claim it once its lease has expired.                 *)
OnlyHolderWrites ==
  [][\A t \in Tasks :
       \/ status[t] # "processing"
       \/ status'[t] = status[t] /\ procToken'[t] = procToken[t]
            /\ leaseLeft'[t] <= leaseLeft[t]
       \/ leaseLeft[t] = 0 /\ procToken'[t] = procToken[t] + 1
       \/ \E w \in Workers :
            /\ pc[w] \in Running
            /\ task[w] = t /\ lease[w] = procToken[t]
            /\ procToken'[t] = procToken[t]
            /\ pc'[w] # pc[w] \/ hb'[w] # hb[w] \/ pc[w] = "body"]_vars

(* A run always comes to its end and frees its slot, and the heartbeat     *)
(* with it.                                                                *)
RunsEnd == \A w \in Workers : []<>(pc[w] = "idle")

(* A worker slot that is no longer shut down.                              *)
WorkerStays == \E w \in Workers : <>[]~shutdown[w]

(* A task is settled, held by a worker or out of tokens.  While a worker   *)
(* stays every task is so again and again, whatever happened to those who  *)
(* held it before.                                                         *)
NotStuck(t) ==
  \/ status[t] \in Terminal
  \/ procToken[t] = MaxToken
  \/ \E w \in Workers : pc[w] # "idle" /\ task[w] = t

-----------------------------------------------------------------------------
(* The inductive invariant behind the fence.                               *)

(* A run's token was handed out by a claim of its task.                    *)
TokensWereClaimed ==
  \A w \in Workers :
    pc[w] # "idle" => lease[w] >= 1 /\ lease[w] <= procToken[task[w]]

(* While the fence lets a run write, its snapshot is up to date.           *)
SnapshotIsCurrent ==
  \A w \in Workers :
    pc[w] # "idle" /\ Executable(w) => snapAttempts[w] = attemptCount[task[w]]

RetryHasBudget ==
  \A w \in Workers : pc[w] = "retry" => NextAttempt(w) < MaxAttempts

(* An unsettled task has an attempt left, a claimed one a claim to spend.  *)
UnsettledHasBudget ==
  \A t \in Tasks :
    /\ status[t] \notin Terminal => attemptCount[t] < MaxAttempts
    /\ status[t] = "processing" => attemptCount[t] < procToken[t]

FenceInv ==
  /\ TypeOK
  /\ TokensWereClaimed
  /\ TokensAreUnique
  /\ SnapshotIsCurrent
  /\ RetryHasBudget
  /\ UnsettledHasBudget
  /\ AttemptBudget
  /\ ReportsAreDurable
=============================================================================
