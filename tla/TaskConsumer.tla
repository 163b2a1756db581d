---------------------------- MODULE TaskConsumer ----------------------------
(***************************************************************************)
(* One task consumer of a lane (aster_forge_tasks: consumer.rs, wakeup.rs, *)
(* the dispatch backoff of runtime.rs): run_consumer_loop polls the store  *)
(* for as many tasks as it has free slots, runs them, hands back what it   *)
(* may no longer start, and on shutdown drains, cancels and abandons.      *)
(*                                                                         *)
(* The loop is one task: each of its steps is one round of its biased      *)
(* select, so a branch is taken only when no earlier one is ready.  Claim, *)
(* execution and release run on their own and finish at any time.  The     *)
(* store and the handlers are the product's.  The lease of a task that     *)
(* nobody works on expires; that of a running one is TaskExecution's.      *)
(***************************************************************************)
EXTENDS Naturals, FiniteSets

CONSTANTS
  Tasks,
  MaxLimit,          \* largest concurrency the product configures
  PollInterval, IdleMaxInterval,  \* poll_interval, idle_max_interval
  ErrorDelay,        \* BACKGROUND_TASK_DISPATCH_ERROR_BACKOFF_CAP
  DrainTimeout, CancellationTimeout,
  MaxFaults          \* bound: failed claims, executions and releases

ASSUME ConsumerAssumption ==
  /\ IsFiniteSet(Tasks)
  /\ MaxLimit \in Nat /\ MaxFaults \in Nat
  /\ PollInterval \in Nat /\ IdleMaxInterval \in Nat /\ ErrorDelay \in Nat
  /\ DrainTimeout \in Nat /\ CancellationTimeout \in Nat

VARIABLES
  row,      \* the durable task: "none", "queued", "fresh" (queued and
            \* notified), "claimed", "done"
  job,      \* the spawned execution of a task with its result, or release
  relDone,  \* results of releases that the loop has not joined
  claim,    \* the claim in flight and its result
  batch,    \* the tasks it has claimed
  reserved, \* the slots it was made for
  turn,     \* "claim" between select's choice of a claim and its handler
  phase,    \* ConsumerPhase, "init" before and "stopped" after the loop
  deadline, \* the phase's deadline, as the time left
  nextPoll, \* next_poll, as the time left
  idle,     \* the backoff's idle_interval
  stop,     \* the stop_claiming token
  cancel,   \* the cancellation token of the executions
  limit,    \* the product's current concurrency
  notified, \* an unread change of the wakeup channel
  initialized, claimFailed,  \* TaskRuntimeStatus
  report,   \* the counters of TaskConsumerReport that are not zero
  faults

loopVars   == <<turn, phase, deadline, nextPoll, idle, cancel>>
claimVars  == <<claim, batch, reserved>>
statusVars == <<initialized, claimFailed, report>>
vars == <<row, job, relDone, claimVars, loopVars, stop, limit, notified, statusVars, faults>>

MaxOf(a, b) == IF a > b THEN a ELSE b
MinOf(a, b) == IF a < b THEN a ELSE b
Minus(a, b) == IF a > b THEN a - b ELSE 0

Running  == {"running", "draining", "cancelling"}
ExecJobs == {"exec", "execOk", "execErr"}
Errors   == {"execution_errors", "claim_errors", "release_errors",
             "abandoned", "abandoned_claims", "abandoned_releases"}

Executing == {t \in Tasks : job[t] \in ExecJobs}
Releasing == {t \in Tasks : job[t] = "rel"}
Waiting   == {t \in Tasks : row[t] \in {"queued", "fresh"}}
Stopping  == phase \in {"draining", "cancelling"}

(* effective_dispatch_base_interval and effective_dispatch_max_interval.   *)
Base == IF PollInterval = 0 THEN 1 ELSE PollInterval
Cap  == MaxOf(IdleMaxInterval, Base)

Init ==
  /\ row = [t \in Tasks |-> "none"]
  /\ job = [t \in Tasks |-> "none"] /\ relDone = {}
  /\ claim = "none" /\ batch = {} /\ reserved = 0
  /\ turn = "select" /\ phase = "init"
  /\ deadline = 0 /\ nextPoll = 0 /\ idle = Base
  /\ cancel = FALSE /\ stop \in BOOLEAN
  /\ limit \in 0..MaxLimit
  /\ notified = FALSE
  /\ initialized = FALSE /\ claimFailed = FALSE
  /\ report = {}
  /\ faults = 0

Fault == faults < MaxFaults /\ faults' = faults + 1

-----------------------------------------------------------------------------
(* BackgroundTaskDispatchBackoff.                                          *)

NextIdle(n) == MinOf(2 * MaxOf(n, Base), Cap)

(* record_iteration and the next_poll that follows from it.                *)
RecordIteration(kind) ==
  /\ idle' = IF kind = "idle" THEN NextIdle(idle) ELSE Base
  /\ nextPoll' = IF kind = "failed" THEN MaxOf(Base, ErrorDelay)
                 ELSE MinOf(MaxOf(idle', Base), Cap)

(* The same, followed by next_poll = now.                                  *)
RecordAndPoll == idle' = Base /\ nextPoll' = 0

-----------------------------------------------------------------------------
(* The loop.                                                               *)

(* run_task_consumer up to its loop.                                       *)
Start ==
  /\ phase = "init"
  /\ phase' = IF stop THEN "stopped" ELSE "running"
  /\ UNCHANGED <<row, job, relDone, claimVars, turn, deadline, nextPoll, idle, cancel,
                 stop, limit, notified, statusVars, faults>>

Idle == Executing = {} /\ claim = "none" /\ Releasing = {} /\ relDone = {}

Exit ==
  /\ Stopping /\ Idle
  /\ phase' = "stopped"
  /\ UNCHANGED <<row, job, relDone, claimVars, turn, deadline, nextPoll, idle, cancel,
                 stop, limit, notified, statusVars, faults>>

(* The loop waits in select; what is ready, in the order of the branches.  *)
Selects == turn = "select" /\ phase \in Running /\ ~(Stopping /\ Idle)

StopReady     == stop /\ phase = "running"
DeadlineReady == Stopping /\ deadline = 0
ExecReady     == \E t \in Tasks : job[t] \in {"execOk", "execErr"}
ClaimReady    == claim \in {"ok", "error"}
ReleaseReady  == relDone # {}
PollReady     == nextPoll = 0

Drain ==
  /\ Selects /\ StopReady
  /\ phase' = "draining"
  /\ deadline' = DrainTimeout
  /\ UNCHANGED <<row, job, relDone, claimVars, turn, nextPoll, idle, cancel, stop, limit,
                 notified, statusVars, faults>>

CancelExecutions ==
  /\ Selects /\ DeadlineReady
  /\ phase = "draining"
  /\ cancel' = TRUE
  /\ phase' = "cancelling"
  /\ deadline' = CancellationTimeout
  /\ UNCHANGED <<row, job, relDone, claimVars, turn, nextPoll, idle, stop, limit,
                 notified, statusVars, faults>>

(* The rows a claim for n slots may take: none only if none waits.         *)
ClaimableSets(n) ==
  {S \in SUBSET Waiting : Cardinality(S) <= n /\ (S = {} => Waiting = {})}

(* abandon: everything under way is aborted and joined; a claim in flight  *)
(* may or may not have taken effect.                                       *)
Abandon ==
  /\ Selects /\ DeadlineReady
  /\ phase = "cancelling"
  /\ phase' = "stopped"
  /\ report' = report \cup (IF Executing # {} THEN {"abandoned"} ELSE {})
                      \cup (IF claim # "none" THEN {"abandoned_claims"} ELSE {})
                      \cup (IF Releasing # {} \/ relDone # {}
                            THEN {"abandoned_releases"} ELSE {})
  /\ job' = [t \in Tasks |-> "none"] /\ relDone' = {}
  /\ claim' = "none" /\ batch' = {}
  /\ \E S \in IF claim = "flying" THEN ClaimableSets(reserved) \cup {{}} ELSE {{}} :
       row' = [t \in Tasks |-> IF t \in S THEN "claimed" ELSE row[t]]
  /\ UNCHANGED <<reserved, turn, deadline, nextPoll, idle, cancel, stop, limit,
                 notified, initialized, claimFailed, faults>>

(* completed_execution.                                                    *)
JoinExecution(t) ==
  /\ Selects /\ ~StopReady /\ ~DeadlineReady
  /\ job[t] \in {"execOk", "execErr"}
  /\ job' = [job EXCEPT ![t] = "none"]
  /\ report' = report \cup (IF job[t] = "execErr" THEN {"execution_errors"} ELSE {})
  /\ RecordAndPoll
  /\ UNCHANGED <<row, relDone, claimVars, turn, phase, deadline, cancel, stop, limit,
                 notified, initialized, claimFailed, faults>>

(* select takes the claim's result; completed_claim then reads the stop    *)
(* token and the limit, which may have changed since.                      *)
TakeClaim ==
  /\ Selects /\ ~StopReady /\ ~DeadlineReady /\ ~ExecReady
  /\ ClaimReady
  /\ turn' = "claim"
  /\ UNCHANGED <<row, job, relDone, claimVars, phase, deadline, nextPoll, idle, cancel,
                 stop, limit, notified, statusVars, faults>>

(* failed_claim.                                                           *)
FailedClaim ==
  /\ turn = "claim" /\ claim = "error"
  /\ turn' = "select" /\ claim' = "none"
  /\ report' = report \cup {"claim_errors"}
  /\ claimFailed' = TRUE
  /\ RecordIteration("failed")
  /\ UNCHANGED <<row, job, relDone, batch, reserved, phase, deadline, cancel, stop, limit,
                 notified, initialized, faults>>

(* Mutants: the limit is not read again; neither is the stop token;        *)
(* surplus tasks are dropped.                                              *)
ReservedSlots == reserved
PhaseAllows   == ~Stopping
DropSurplus(t, started) ==
  IF t \in started THEN "exec" ELSE IF t \in batch THEN "none" ELSE job[t]

Available == MinOf(reserved, Minus(limit, Cardinality(Executing)))
MayStart  == ~Stopping /\ ~stop

Disposition(t, started) ==
  IF t \in started THEN "exec" ELSE IF t \in batch THEN "rel" ELSE job[t]

(* completed_claim.                                                        *)
CompletedClaim ==
  /\ turn = "claim" /\ claim = "ok"
  /\ turn' = "select" /\ claim' = "none" /\ batch' = {}
  /\ initialized' = TRUE /\ claimFailed' = FALSE
  /\ \E started \in SUBSET batch :
       /\ Cardinality(started) =
            IF MayStart THEN MinOf(Available, Cardinality(batch)) ELSE 0
       /\ job' = [t \in Tasks |-> Disposition(t, started)]
       /\ IF batch # {} /\ MayStart
               /\ limit > Cardinality(Executing \cup started)
            THEN RecordAndPoll
            ELSE RecordIteration(IF batch # {} THEN "active" ELSE "idle")
  /\ UNCHANGED <<row, relDone, reserved, phase, deadline, cancel, stop, limit, notified,
                 report, faults>>

(* completed_release.                                                      *)
JoinRelease ==
  /\ Selects /\ ~StopReady /\ ~DeadlineReady /\ ~ExecReady /\ ~ClaimReady
  /\ \E r \in relDone :
       /\ relDone' = relDone \ {r}
       /\ report' = report \cup (IF r = "error" THEN {"release_errors"} ELSE {})
  /\ UNCHANGED <<row, job, claimVars, loopVars, stop, limit, notified, initialized,
                 claimFailed, faults>>

MayPoll ==
  /\ Selects /\ ~StopReady /\ ~DeadlineReady /\ ~ExecReady /\ ~ReleaseReady
  /\ ~Stopping /\ claim = "none"

(* A consumer paused by a limit of zero is healthy; a fault forgets it.    *)
StaysUnobserved == UNCHANGED <<initialized, claimFailed>>
ObservePaused ==
  IF limit = 0 THEN initialized' = TRUE /\ claimFailed' = FALSE
  ELSE UNCHANGED <<initialized, claimFailed>>

Poll ==
  /\ MayPoll /\ PollReady
  /\ \/ /\ limit > Cardinality(Executing)
        /\ claim' = "flying"
        /\ reserved' = limit - Cardinality(Executing)
        /\ UNCHANGED <<nextPoll, idle, initialized, claimFailed>>
     \/ /\ limit <= Cardinality(Executing)
        /\ ObservePaused
        /\ RecordIteration("idle")
        /\ UNCHANGED <<claim, reserved>>
  /\ UNCHANGED <<row, job, relDone, batch, turn, phase, deadline, cancel, stop, limit,
                 notified, report, faults>>

(* wakeup.changed().                                                       *)
Wakeup ==
  /\ MayPoll /\ ~PollReady /\ notified
  /\ notified' = FALSE
  /\ RecordAndPoll
  /\ UNCHANGED <<row, job, relDone, claimVars, turn, phase, deadline, cancel, stop, limit,
                 statusVars, faults>>

Loop ==
  \/ Start \/ Exit \/ Drain \/ CancelExecutions \/ Abandon
  \/ (\E t \in Tasks : JoinExecution(t)) \/ JoinRelease
  \/ TakeClaim \/ FailedClaim \/ CompletedClaim \/ Poll \/ Wakeup

-----------------------------------------------------------------------------
(* The store's claim, the handlers and the releases (the product's).       *)

Taken(S) == row' = [t \in Tasks |-> IF t \in S THEN "claimed" ELSE row[t]]

ClaimReturns ==
  /\ claim = "flying"
  /\ \E S \in ClaimableSets(reserved) :
       \/ claim' = "ok" /\ batch' = S /\ Taken(S) /\ UNCHANGED faults
       \/ /\ Fault
          /\ claim' = "error"
          /\ Taken(S) \/ UNCHANGED row
          /\ UNCHANGED batch
  /\ UNCHANGED <<job, relDone, reserved, loopVars, stop, limit, notified, statusVars>>

(* A handler settles or requeues its task; one that fails or panics may    *)
(* leave it claimed.                                                       *)
ExecutionReturns(t) ==
  /\ job[t] = "exec"
  /\ \/ /\ job' = [job EXCEPT ![t] = "execOk"] /\ UNCHANGED faults
        /\ \E r \in {"done", "queued"} : row' = [row EXCEPT ![t] = r]
     \/ /\ Fault
        /\ job' = [job EXCEPT ![t] = "execErr"]
        /\ UNCHANGED row
  /\ UNCHANGED <<relDone, claimVars, loopVars, stop, limit, notified, statusVars>>

ReleaseReturns(t) ==
  /\ job[t] = "rel"
  /\ job' = [job EXCEPT ![t] = "none"]
  /\ \/ /\ relDone' = relDone \cup {"ok"} /\ UNCHANGED faults
        /\ row' = [row EXCEPT ![t] = "queued"]
     \/ /\ Fault
        /\ relDone' = relDone \cup {"error"}
        /\ UNCHANGED row \/ row' = [row EXCEPT ![t] = "queued"]
  /\ UNCHANGED <<claimVars, loopVars, stop, limit, notified, statusVars>>

(* Claimed, and nobody of this consumer works on it.                       *)
Leaked(t) == row[t] = "claimed" /\ job[t] = "none" /\ t \notin batch

LeaseExpires(t) ==
  /\ Leaked(t)
  /\ row' = [row EXCEPT ![t] = "queued"]
  /\ UNCHANGED <<job, relDone, claimVars, loopVars, stop, limit, notified, statusVars, faults>>

-----------------------------------------------------------------------------
(* The product and its clock.                                              *)

Enqueue(t) ==
  /\ row[t] = "none"
  /\ row' = [row EXCEPT ![t] = "queued"]
  /\ UNCHANGED <<job, relDone, claimVars, loopVars, stop, limit, notified, statusVars, faults>>

(* TaskWakeup::notify, after a task was queued; a fault reaches only a     *)
(* consumer that is waiting.                                               *)
NotifyWaiter == notified' = (notified \/ claim = "none")
SendReplace  == notified' = TRUE

Notify(t) ==
  /\ row[t] = "queued"
  /\ row' = [row EXCEPT ![t] = "fresh"]
  /\ SendReplace
  /\ UNCHANGED <<job, relDone, claimVars, loopVars, stop, limit, statusVars, faults>>

SetLimit(n) ==
  /\ n # limit
  /\ limit' = n
  /\ SendReplace
  /\ UNCHANGED <<row, job, relDone, claimVars, loopVars, stop, statusVars, faults>>

RequestStop ==
  /\ ~stop
  /\ stop' = TRUE
  /\ UNCHANGED <<row, job, relDone, claimVars, loopVars, limit, notified, statusVars, faults>>

Tick ==
  /\ nextPoll > 0 \/ deadline > 0
  /\ nextPoll' = Minus(nextPoll, 1)
  /\ deadline' = Minus(deadline, 1)
  /\ UNCHANGED <<row, job, relDone, claimVars, turn, phase, idle, cancel, stop, limit,
                 notified, statusVars, faults>>

Next ==
  \/ Loop
  \/ ClaimReturns
  \/ \E t \in Tasks : \/ ExecutionReturns(t) \/ ReleaseReturns(t) \/ LeaseExpires(t)
                      \/ Enqueue(t) \/ Notify(t)
  \/ \E n \in 0..MaxLimit : SetLimit(n)
  \/ RequestStop
  \/ Tick

Spec == Init /\ [][Next]_vars

(* The runtime polls the loop and time goes on; nothing else is promised.  *)
LoopFairSpec == Spec /\ WF_vars(Loop) /\ WF_vars(Tick)

(* Claims, handlers and releases come back as well.                        *)
CallsReturn ==
  /\ WF_vars(ClaimReturns)
  /\ \A t \in Tasks : WF_vars(ExecutionReturns(t)) /\ WF_vars(ReleaseReturns(t))

-----------------------------------------------------------------------------
(* Every variable has its type, and the poll delay stays within the        *)
(* intervals the product configured.                                       *)
TypeOK ==
  /\ row \in [Tasks -> {"none", "queued", "fresh", "claimed", "done"}]
  /\ job \in [Tasks -> {"none", "rel"} \cup ExecJobs]
  /\ relDone \subseteq {"ok", "error"}
  /\ claim \in {"none", "flying", "ok", "error"}
  /\ batch \subseteq Tasks
  /\ reserved \in 0..MaxLimit
  /\ turn \in {"select", "claim"}
  /\ phase \in {"init", "stopped"} \cup Running
  /\ deadline \in 0..MaxOf(DrainTimeout, CancellationTimeout)
  /\ nextPoll \in 0..MaxOf(Cap, ErrorDelay)
  /\ idle \in Base..Cap
  /\ {stop, cancel, notified, initialized, claimFailed} \subseteq BOOLEAN
  /\ limit \in 0..MaxLimit
  /\ report \subseteq Errors
  /\ faults \in 0..MaxFaults

(* A claim never starts more than the limit that holds when its result is  *)
(* handled, even if the limit fell while the claim was in flight.          *)
LimitRespected ==
  [][~(Executing' \subseteq Executing) => Cardinality(Executing') <= limit]_vars

(* Once stop_claiming is cancelled no task is started, not even one whose  *)
(* claim was already in flight or already chosen by select.                *)
NoStartAfterStop == [][stop => Executing' \subseteq Executing]_vars

(* When the consumer has returned, no execution, claim or release of it is *)
(* left: the product may close its database.                               *)
StoppedHoldsNothing ==
  phase = "stopped" =>
    Executing = {} /\ Releasing = {} /\ relDone = {} /\ claim = "none"

(* A task that stays claimed although nobody works on it is never silent:  *)
(* the report counts a failure or an abandonment, once the loop has seen a *)
(* failed claim or release.                                                *)
LeaksAreReported ==
  claim # "error" /\ "error" \notin relDone /\ (\E t \in Tasks : Leaked(t))
    => report # {}

(* Neither a returned consumer nor an abandoned task leaves anything       *)
(* behind that nobody knows of.                                            *)
NothingIsLeftBehind == StoppedHoldsNothing /\ LeaksAreReported

(* While slots are free and claims succeed, a task whose queueing was      *)
(* notified is not left to the idle timer: a poll is due or the            *)
(* notification is still unread, even if it came while a claim was in      *)
(* flight.                                                                 *)
NotifiedWorkIsSeen ==
  (/\ phase = "running" /\ ~stop
   /\ claim = "none" /\ ~claimFailed
   /\ limit > Cardinality(Executing)
   /\ \E t \in Tasks : row[t] = "fresh")
    => nextPoll = 0 \/ notified

(* After stop_claiming the consumer returns, whatever its handlers, claims *)
(* and releases do.                                                        *)
StopEnds == stop ~> phase = "stopped"

Ready == phase = "running" /\ initialized /\ ~claimFailed

(* A consumer that is not stopped, and whose calls return, becomes ready,  *)
(* and ready again after a failed claim, full, paused or with nothing to   *)
(* do.                                                                     *)
ReadinessRecovers == CallsReturn /\ <>[]~stop => <>[]Ready

(* Queued work does not depend on notifications: while the consumer runs   *)
(* with a limit above zero, and its calls return, waiting tasks are        *)
(* claimed again and again.                                                *)
WorkIsClaimed ==
  CallsReturn /\ <>[](~stop /\ limit > 0) => []<>(Waiting = {} \/ batch # {})

(* The consumer always gets where it is going: to its end once stopped, to *)
(* readiness and to the waiting work while it runs.                        *)
ConsumerProgresses == StopEnds /\ ReadinessRecovers /\ WorkIsClaimed
=============================================================================
