------------------------- MODULE TaskConsumerProofs -------------------------
(***************************************************************************)
(* What a consumer leaves behind, for any number of tasks, any limits and  *)
(* any faults: nothing running once it has returned, no claimed task it    *)
(* does not answer for, and no task started after stop_claiming or beyond  *)
(* the limit in force; and notified work is polled for.                    *)
(***************************************************************************)
EXTENDS TaskConsumer, FiniteSetTheorems, TLAPS

(* The part of the types the argument needs.                               *)
JobTypes ==
  /\ row \in [Tasks -> {"none", "queued", "fresh", "claimed", "done"}]
  /\ job \in [Tasks -> {"none", "rel"} \cup ExecJobs]
  /\ batch \subseteq Tasks

(* A batch belongs to a claim that came back, a claim in the loop's hand   *)
(* is such a claim and the loop is running.                                *)
ClaimInHand ==
  /\ batch # {} => claim = "ok"
  /\ turn = "claim" => claim \in {"ok", "error"} /\ phase \in Running
  /\ turn \in {"select", "claim"}

(* A finished execution no longer holds its task, unless a claim took it   *)
(* again, with or without answering.                                       *)
FinishedLetsGo ==
  \A t \in Tasks : job[t] = "execOk" /\ row[t] = "claimed" =>
    t \in batch \/ claim = "error" \/ report # {}

(* A consumer holds nothing before it starts either.                       *)
HoldsNothingOutside == phase \in {"init", "stopped"} => Idle

LeakInv ==
  /\ JobTypes
  /\ ClaimInHand
  /\ FinishedLetsGo
  /\ HoldsNothingOutside
  /\ LeaksAreReported

(* Nothing runs at first.                                                  *)
LEMMA LeakInit == Init => LeakInv
BY DEF Init, LeakInv, JobTypes, ClaimInHand, FinishedLetsGo, HoldsNothingOutside,
       LeaksAreReported, Leaked, Running, Idle, Executing, Releasing, ExecJobs

(* All that LeakInv looks at.                                              *)
leakVars == <<row, job, relDone, claim, batch, turn, phase, report>>

(* Every step preserves the invariant.                                     *)
LEMMA LeakStep == LeakInv /\ [Next]_vars => LeakInv'
<1> SUFFICES ASSUME LeakInv, [Next]_vars PROVE LeakInv'
  OBVIOUS
<1> USE DEF LeakInv
<1>same. ASSUME UNCHANGED leakVars PROVE LeakInv'
  BY <1>same DEF leakVars, JobTypes, ClaimInHand, FinishedLetsGo,
                 HoldsNothingOutside, LeaksAreReported, Leaked, Idle, Executing, Releasing
<1>1. CASE Start \/ Exit \/ Drain \/ CancelExecutions
  <2>0. /\ UNCHANGED <<row, job, relDone, claim, batch, turn, report>>
        /\ phase' \in Running \cup {"stopped"}
        /\ turn = "claim" => phase' \in Running
        /\ phase' = "stopped" => Idle
    BY <1>1 DEF Start, Exit, Drain, CancelExecutions, Idle, claimVars, statusVars,
                Selects, Running, ClaimInHand, HoldsNothingOutside
  <2>1. HoldsNothingOutside'
    BY <2>0 DEF HoldsNothingOutside, Idle, Executing, Releasing, Running
  <2> QED
    BY <2>0, <2>1 DEF JobTypes, ClaimInHand, FinishedLetsGo, LeaksAreReported, Leaked
<1>2. CASE Abandon
  <2>1. PICK S \in SUBSET Tasks :
          /\ claim # "flying" => S = {}
          /\ row' = [t \in Tasks |-> IF t \in S THEN "claimed" ELSE row[t]]
    BY <1>2 DEF Abandon, ClaimableSets, Waiting
  <2>2. /\ job' = [t \in Tasks |-> "none"] /\ relDone' = {} /\ claim' = "none"
        /\ batch' = {} /\ phase' = "stopped" /\ turn' = "select"
        /\ Executing # {} => "abandoned" \in report'
        /\ claim # "none" => "abandoned_claims" \in report'
        /\ Releasing # {} \/ relDone # {} => "abandoned_releases" \in report'
        /\ report \subseteq report'
    BY <1>2 DEF Abandon, Selects
  <2>3. JobTypes' /\ ClaimInHand' /\ FinishedLetsGo' /\ HoldsNothingOutside'
    BY <2>1, <2>2 DEF JobTypes, ClaimInHand, FinishedLetsGo, HoldsNothingOutside,
                      Idle, Executing, Releasing, ExecJobs
  <2>4. ASSUME NEW t \in Tasks, Leaked(t)' PROVE report' # {}
    <3>1. t \in S \/ row[t] = "claimed"
      BY <2>1, <2>4 DEF Leaked
    <3>2. CASE claim # "none" \/ relDone # {} \/ Executing # {} \/ Releasing # {}
      BY <2>2, <3>2
    <3>3. CASE claim = "none" /\ relDone = {} /\ Executing = {} /\ Releasing = {}
      <4>1. job[t] = "none" /\ t \notin batch /\ row[t] = "claimed"
        BY <3>1, <3>3, <2>1 DEF JobTypes, Idle, Executing, Releasing, ClaimInHand
      <4>2. report # {}
        BY <3>3, <4>1 DEF LeaksAreReported, Leaked
      <4> QED
        BY <2>2, <4>2
    <3> QED
      BY <3>2, <3>3
  <2> QED
    BY <2>3, <2>4 DEF LeaksAreReported
<1>3. ASSUME NEW x \in Tasks, JoinExecution(x) PROVE LeakInv'
  <2>1. /\ UNCHANGED <<row, relDone, claim, batch, turn, phase>>
        /\ job' = [job EXCEPT ![x] = "none"]
        /\ job[x] \in {"execOk", "execErr"}
        /\ job[x] = "execErr" => report' # {}
        /\ report \subseteq report'
        /\ phase \in Running
    BY <1>3 DEF JoinExecution, claimVars, Selects
  <2>2. JobTypes' /\ ClaimInHand' /\ FinishedLetsGo' /\ HoldsNothingOutside'
    BY <2>1 DEF JobTypes, ClaimInHand, FinishedLetsGo, HoldsNothingOutside, Running
  <2>3. LeaksAreReported'
    BY <2>1 DEF LeaksAreReported, Leaked, FinishedLetsGo, JobTypes
  <2> QED
    BY <2>2, <2>3
<1>4. CASE JoinRelease
  <2>1. /\ UNCHANGED <<row, job, claim, batch, turn, phase>>
        /\ phase \in Running
        /\ relDone' \subseteq relDone /\ report \subseteq report'
        /\ "error" \in relDone /\ "error" \notin relDone' => report' # {}
    BY <1>4 DEF JoinRelease, claimVars, loopVars, Selects
  <2> QED
    BY <2>1 DEF JobTypes, ClaimInHand, FinishedLetsGo, HoldsNothingOutside,
                LeaksAreReported, Leaked, Running
<1>5. CASE TakeClaim
  BY <1>5 DEF TakeClaim, Selects, ClaimReady, claimVars, statusVars, JobTypes,
              ClaimInHand, FinishedLetsGo, HoldsNothingOutside, LeaksAreReported,
              Leaked, Running
<1>6. CASE FailedClaim
  BY <1>6 DEF FailedClaim, JobTypes, ClaimInHand, FinishedLetsGo,
              HoldsNothingOutside, LeaksAreReported, Leaked, Running
<1>7. CASE CompletedClaim
  <2>1. PICK started \in SUBSET batch : job' = [t \in Tasks |-> Disposition(t, started)]
    BY <1>7 DEF CompletedClaim
  <2>2. /\ UNCHANGED <<row, relDone, phase, report>>
        /\ turn = "claim" /\ turn' = "select" /\ claim' = "none" /\ batch' = {}
        /\ claim = "ok"
    BY <1>7 DEF CompletedClaim
  <2>3. \A t \in Tasks : /\ t \in batch => job'[t] \in {"exec", "rel"}
                         /\ t \notin batch => job'[t] = job[t]
    BY <2>1 DEF Disposition
  <2>4. JobTypes' /\ ClaimInHand' /\ FinishedLetsGo' /\ HoldsNothingOutside'
    BY <2>1, <2>2, <2>3 DEF JobTypes, ClaimInHand, FinishedLetsGo,
                            HoldsNothingOutside, Running, ExecJobs
  <2>5. LeaksAreReported'
    BY <2>2, <2>3 DEF LeaksAreReported, Leaked
  <2> QED
    BY <2>4, <2>5
<1>8. CASE Poll
  <2>1. /\ UNCHANGED <<row, job, relDone, batch, turn, phase, report>>
        /\ claim' \in {claim, "flying"} /\ claim = "none" /\ phase \in Running
        /\ turn = "select"
    BY <1>8 DEF Poll, MayPoll, Selects
  <2> QED
    BY <2>1 DEF JobTypes, ClaimInHand, FinishedLetsGo, HoldsNothingOutside,
                LeaksAreReported, Leaked, Running
<1>9. CASE ClaimReturns
  <2>1. PICK S \in SUBSET Tasks :
          \/ /\ claim' = "ok" /\ batch' = S
             /\ row' = [t \in Tasks |-> IF t \in S THEN "claimed" ELSE row[t]]
          \/ /\ claim' = "error" /\ batch' = batch
             /\ \/ row' = row
                \/ /\ row' = [t \in Tasks |-> IF t \in S THEN "claimed" ELSE row[t]]
                   /\ \A t \in S : row[t] # "claimed"
    BY <1>9 DEF ClaimReturns, ClaimableSets, Waiting, Taken
  <2>2. /\ UNCHANGED <<job, relDone, turn, phase, report>> /\ claim = "flying"
        /\ phase \notin {"init", "stopped"} /\ batch = {} /\ turn = "select"
    BY <1>9 DEF ClaimReturns, loopVars, statusVars, HoldsNothingOutside, ClaimInHand, Idle
  <2>3. JobTypes' /\ ClaimInHand' /\ HoldsNothingOutside'
    BY <2>1, <2>2 DEF JobTypes, ClaimInHand, HoldsNothingOutside
  <2>4. LeaksAreReported'
    BY <2>1, <2>2 DEF LeaksAreReported, Leaked
  <2>5. FinishedLetsGo'
    BY <2>1, <2>2 DEF FinishedLetsGo
  <2> QED
    BY <2>3, <2>4, <2>5
<1>10. ASSUME NEW x \in Tasks, ExecutionReturns(x) PROVE LeakInv'
  <2>1. /\ UNCHANGED <<relDone, claim, batch, turn, phase, report>>
        /\ job[x] = "exec" /\ phase \notin {"init", "stopped"}
        /\ \/ /\ job' = [job EXCEPT ![x] = "execOk"]
              /\ \E r \in {"done", "queued"} : row' = [row EXCEPT ![x] = r]
           \/ job' = [job EXCEPT ![x] = "execErr"] /\ row' = row
    BY <1>10 DEF ExecutionReturns, claimVars, loopVars, statusVars,
                 HoldsNothingOutside, Idle, Executing, ExecJobs
  <2> QED
    BY <2>1 DEF JobTypes, ClaimInHand, FinishedLetsGo, HoldsNothingOutside,
                LeaksAreReported, Leaked, ExecJobs
<1>11. ASSUME NEW x \in Tasks, ReleaseReturns(x) PROVE LeakInv'
  <2>1. /\ UNCHANGED <<claim, batch, turn, phase, report>>
        /\ job[x] = "rel" /\ phase \notin {"init", "stopped"}
        /\ job' = [job EXCEPT ![x] = "none"]
        /\ \/ relDone' = relDone \cup {"ok"} /\ row' = [row EXCEPT ![x] = "queued"]
           \/ /\ relDone' = relDone \cup {"error"}
              /\ row' = row \/ row' = [row EXCEPT ![x] = "queued"]
    BY <1>11 DEF ReleaseReturns, claimVars, loopVars, statusVars,
                 HoldsNothingOutside, Idle, Releasing
  <2> QED
    BY <2>1 DEF JobTypes, ClaimInHand, FinishedLetsGo, HoldsNothingOutside,
                LeaksAreReported, Leaked
<1>12. ASSUME NEW x \in Tasks, LeaseExpires(x) \/ Enqueue(x) \/ Notify(x) PROVE LeakInv'
  <2>1. /\ UNCHANGED <<job, relDone, claim, batch, turn, phase, report>>
        /\ \E r \in {"queued", "fresh"} : row' = [row EXCEPT ![x] = r]
    BY <1>12 DEF LeaseExpires, Enqueue, Notify, claimVars, loopVars, statusVars
  <2> QED
    BY <2>1 DEF JobTypes, ClaimInHand, FinishedLetsGo, HoldsNothingOutside,
                LeaksAreReported, Leaked, Idle, Executing, Releasing
<1>13. CASE Wakeup \/ RequestStop \/ Tick
  BY <1>13, <1>same DEF Wakeup, RequestStop, Tick, leakVars, claimVars, loopVars, statusVars
<1>14. ASSUME NEW n, SetLimit(n) PROVE LeakInv'
  BY <1>14, <1>same DEF SetLimit, leakVars, claimVars, loopVars, statusVars
<1>15. CASE UNCHANGED vars
  BY <1>15, <1>same DEF vars, leakVars, claimVars, loopVars, statusVars
<1> QED
  BY <1>1, <1>2, <1>3, <1>4, <1>5, <1>6, <1>7, <1>8, <1>9, <1>10, <1>11, <1>12,
     <1>13, <1>14, <1>15 DEF Next, Loop

(* LeakInv holds in every state of a consumer.                             *)
LEMMA LeakInvariant == Spec => []LeakInv
BY LeakInit, LeakStep, PTL DEF Spec

(* A consumer that has returned holds nothing.                             *)
THEOREM NothingLeftRunning == Spec => []StoppedHoldsNothing
<1>1. LeakInv => StoppedHoldsNothing
  BY DEF LeakInv, HoldsNothingOutside, StoppedHoldsNothing, Idle
<1> QED
  BY <1>1, LeakInvariant, PTL

(* A claimed task that nobody works on is counted in the report.           *)
THEOREM NoSilentLeak == Spec => []LeaksAreReported
<1>1. LeakInv => LeaksAreReported
  BY DEF LeakInv
<1> QED
  BY <1>1, LeakInvariant, PTL

(* A consumer leaves nothing behind, neither work nor a silent leak.       *)
THEOREM NothingIsForgotten == Spec => []NothingIsLeftBehind
BY NothingLeftRunning, NoSilentLeak, PTL DEF NothingIsLeftBehind

(* No task starts after stop_claiming.                                     *)
THEOREM StopStopsStarts == Spec => NoStartAfterStop
<1>1. LeakInv /\ [Next]_vars => [stop => Executing' \subseteq Executing]_vars
  <2> SUFFICES ASSUME LeakInv, Next, stop, NEW x \in Tasks, job'[x] \in ExecJobs
               PROVE  job[x] \in ExecJobs
    BY DEF Executing
  <2>same. ASSUME UNCHANGED job PROVE job[x] \in ExecJobs
    BY <2>same
  <2>type. job \in [Tasks -> {"none", "rel"} \cup ExecJobs] /\ batch \subseteq Tasks
    BY DEF LeakInv, JobTypes
  <2>1. CASE CompletedClaim
    <3>1. PICK started \in SUBSET batch :
            /\ Cardinality(started) = 0
            /\ job' = [t \in Tasks |-> Disposition(t, started)]
      BY <2>1 DEF CompletedClaim, MayStart
    <3>2. started = {}
      <4>1. IsFiniteSet(started)
        BY <2>type, ConsumerAssumption, FS_Subset
      <4> QED
        BY <3>1, <4>1, FS_EmptySet
    <3> QED
      BY <3>1, <3>2 DEF Disposition, ExecJobs
  <2>2. CASE Abandon
    BY <2>2 DEF Abandon, ExecJobs
  <2>3. CASE \E t \in Tasks : JoinExecution(t) \/ ExecutionReturns(t) \/ ReleaseReturns(t)
    BY <2>3, <2>type DEF JoinExecution, ExecutionReturns, ReleaseReturns, ExecJobs
  <2>4. CASE \/ Start \/ Exit \/ Drain \/ CancelExecutions \/ JoinRelease \/ TakeClaim
             \/ FailedClaim \/ Poll \/ Wakeup \/ ClaimReturns \/ RequestStop \/ Tick
    BY <2>4, <2>same DEF Start, Exit, Drain, CancelExecutions, JoinRelease, TakeClaim,
                         FailedClaim, Poll, Wakeup, ClaimReturns, RequestStop, Tick
  <2>5. CASE \E t \in Tasks : LeaseExpires(t) \/ Enqueue(t) \/ Notify(t)
    BY <2>5, <2>same DEF LeaseExpires, Enqueue, Notify
  <2>6. CASE \E n \in 0..MaxLimit : SetLimit(n)
    BY <2>6, <2>same DEF SetLimit
  <2> QED
    BY <2>1, <2>2, <2>3, <2>4, <2>5, <2>6 DEF Next, Loop
<1> QED
  BY <1>1, LeakInvariant, PTL DEF Spec, NoStartAfterStop

-----------------------------------------------------------------------------
(* Types and the poll delay.                                               *)

(* The intervals of the backoff are ordered.                               *)
LEMMA Intervals ==
  /\ Base \in Nat /\ Cap \in Nat /\ Base > 0 /\ Base <= Cap
  /\ \A a, b \in Nat : /\ MaxOf(a, b) \in {a, b} /\ a <= MaxOf(a, b) /\ b <= MaxOf(a, b)
                       /\ MinOf(a, b) \in {a, b} /\ MinOf(a, b) <= a /\ MinOf(a, b) <= b
                       /\ Minus(a, b) \in Nat /\ Minus(a, b) <= a
BY ConsumerAssumption DEF Base, Cap, MaxOf, MinOf, Minus

(* Whatever record_iteration records, the idle interval stays between base *)
(* and cap, and the next poll is due within the largest delay.             *)
LEMMA RecordKeepsInterval ==
  ASSUME idle \in Base..Cap,
         RecordAndPoll \/ \E kind \in {"idle", "active", "failed"} : RecordIteration(kind)
  PROVE  idle' \in Base..Cap /\ nextPoll' \in 0..MaxOf(Cap, ErrorDelay)
<1>0. ErrorDelay \in Nat /\ Base \in Nat /\ Cap \in Nat /\ Base \in Base..Cap
  BY Intervals, ConsumerAssumption
<1>1. NextIdle(idle) \in Base..Cap
  BY <1>0, Intervals DEF NextIdle, MinOf, MaxOf
<1>2. 0 \in 0..MaxOf(Cap, ErrorDelay) /\ MaxOf(Base, ErrorDelay) \in 0..MaxOf(Cap, ErrorDelay)
      /\ \A i \in Base..Cap : MinOf(MaxOf(i, Base), Cap) \in 0..MaxOf(Cap, ErrorDelay)
  BY <1>0 DEF MinOf, MaxOf
<1>3. CASE RecordAndPoll
  BY <1>0, <1>2, <1>3 DEF RecordAndPoll
<1>4. ASSUME NEW kind, RecordIteration(kind)
      PROVE  idle' \in Base..Cap /\ nextPoll' \in 0..MaxOf(Cap, ErrorDelay)
  <2>1. idle' \in Base..Cap
    BY <1>0, <1>1, <1>4, Zenon DEF RecordIteration
  <2> QED
    BY <1>2, <1>4, <2>1, Zenon DEF RecordIteration
<1> QED
  BY <1>3, <1>4

(* The types and intervals hold at first.                                  *)
LEMMA TypeInit == Init => TypeOK
<1> SUFFICES ASSUME Init PROVE TypeOK
  OBVIOUS
<1>1. MaxOf(DrainTimeout, CancellationTimeout) \in Nat /\ MaxOf(Cap, ErrorDelay) \in Nat
  BY Intervals, ConsumerAssumption DEF MaxOf
<1>2. 0 \in 0..MaxLimit /\ 0 \in 0..MaxFaults /\ Base \in Base..Cap
      /\ 0 \in 0..MaxOf(DrainTimeout, CancellationTimeout) /\ 0 \in 0..MaxOf(Cap, ErrorDelay)
  BY <1>1, Intervals, ConsumerAssumption
<1> QED
  BY <1>2 DEF Init, TypeOK

(* Every step keeps them.                                                  *)
LEMMA TypeStep == TypeOK /\ [Next]_vars => TypeOK'
<1> SUFFICES ASSUME TypeOK, [Next]_vars PROVE TypeOK'
  OBVIOUS
<1> DEFINE D == MaxOf(DrainTimeout, CancellationTimeout)
           P == MaxOf(Cap, ErrorDelay)
<1>0. D \in Nat /\ P \in Nat /\ DrainTimeout \in 0..D /\ CancellationTimeout \in 0..D
  BY Intervals, ConsumerAssumption DEF MaxOf
<1>timers. /\ deadline \in 0..D /\ Minus(deadline, 1) \in 0..D
           /\ nextPoll \in 0..P /\ Minus(nextPoll, 1) \in 0..P
  BY <1>0 DEF TypeOK, Minus
<1>faults. Fault => faults' \in 0..MaxFaults
  BY ConsumerAssumption DEF Fault, TypeOK
<1>slots. ASSUME limit > Cardinality(Executing) PROVE limit - Cardinality(Executing) \in 0..MaxLimit
  <2>1. Cardinality(Executing) \in Nat
    BY ConsumerAssumption, FS_Subset, FS_CardinalityType DEF Executing
  <2> QED
    BY <1>slots, <2>1, ConsumerAssumption DEF TypeOK
<1> HIDE DEF D, P
<1> USE DEF TypeOK, D, P
<1>1. CASE Start \/ Exit \/ Drain \/ CancelExecutions
  BY <1>0, <1>1, <1>timers DEF Start, Exit, Drain, CancelExecutions, Running, claimVars, statusVars
<1>2. CASE Abandon
  BY <1>2 DEF Abandon, Errors, ExecJobs
<1>3. ASSUME NEW t \in Tasks, JoinExecution(t) PROVE TypeOK'
  BY <1>3, RecordKeepsInterval DEF JoinExecution, claimVars, Errors
<1>4. CASE JoinRelease
  BY <1>4 DEF JoinRelease, claimVars, loopVars, Errors
<1>5. CASE TakeClaim
  BY <1>5 DEF TakeClaim, claimVars, statusVars
<1>6. CASE FailedClaim
  BY <1>6, RecordKeepsInterval DEF FailedClaim, Errors
<1>7. CASE CompletedClaim
  <2>1. PICK started \in SUBSET batch :
          /\ job' = [t \in Tasks |-> Disposition(t, started)]
          /\ RecordAndPoll \/ \E kind \in {"active", "idle"} : RecordIteration(kind)
    BY <1>7 DEF CompletedClaim
  <2>2. job' \in [Tasks -> {"none", "rel"} \cup ExecJobs]
    BY <2>1 DEF Disposition, ExecJobs
  <2> QED
    BY <1>7, <2>1, <2>2, RecordKeepsInterval DEF CompletedClaim
<1>8. CASE Poll
  BY <1>8, <1>slots, RecordKeepsInterval DEF Poll, ObservePaused
<1>9. CASE Wakeup
  BY <1>9, RecordKeepsInterval DEF Wakeup, claimVars, statusVars
<1>10. CASE ClaimReturns
  BY <1>10, <1>faults DEF ClaimReturns, ClaimableSets, Waiting, Taken, loopVars, statusVars
<1>11. ASSUME NEW t \in Tasks, ExecutionReturns(t) \/ ReleaseReturns(t) PROVE TypeOK'
  BY <1>11, <1>faults DEF ExecutionReturns, ReleaseReturns, claimVars, loopVars, statusVars, ExecJobs
<1>12. ASSUME NEW t \in Tasks, LeaseExpires(t) \/ Enqueue(t) \/ Notify(t) PROVE TypeOK'
  BY <1>12 DEF LeaseExpires, Enqueue, Notify, SendReplace, claimVars, loopVars, statusVars
<1>13. ASSUME NEW n \in 0..MaxLimit, SetLimit(n) PROVE TypeOK'
  BY <1>13 DEF SetLimit, SendReplace, claimVars, loopVars, statusVars
<1>14. CASE RequestStop
  BY <1>14 DEF RequestStop, claimVars, loopVars, statusVars
<1>15. CASE Tick
  BY <1>15, <1>timers DEF Tick, claimVars, statusVars
<1>16. CASE UNCHANGED vars
  BY <1>16 DEF vars, claimVars, loopVars, statusVars
<1> QED
  BY <1>1, <1>2, <1>3, <1>4, <1>5, <1>6, <1>7, <1>8, <1>9, <1>10, <1>11, <1>12, <1>13,
     <1>14, <1>15, <1>16 DEF Next, Loop

(* Every variable has its type, and the poll delay never leaves the        *)
(* intervals the product configured.                                       *)
THEOREM TypeCorrect == Spec => []TypeOK
BY TypeInit, TypeStep, PTL DEF Spec

-----------------------------------------------------------------------------
(* Which work a poll is due for.                                           *)

(* A task under way here is claimed in the store, so no later claim brings *)
(* it again; once the loop handles a claim's result, the result's tasks    *)
(* have no execution left that the loop would still have to join.          *)
OwnWorkIsClaimed ==
  \A t \in Tasks :
    /\ job[t] \in {"exec", "rel"} => row[t] = "claimed" /\ t \notin batch
    /\ t \in batch => row[t] = "claimed"
    /\ turn = "claim" /\ t \in batch => job[t] = "none"

(* A claim that came back leaves a notified task behind only with its      *)
(* slots used, or if the notification came later.                          *)
ClaimLeavesSome ==
  claim = "ok" /\ (\E t \in Tasks : row[t] = "fresh") => batch # {} \/ notified

(* Before the loop starts, a poll is due.                                  *)
FirstPollIsDue == phase = "init" => nextPoll = 0

SeenInv ==
  /\ TypeOK
  /\ OwnWorkIsClaimed
  /\ ClaimLeavesSome
  /\ FirstPollIsDue
  /\ NotifiedWorkIsSeen

(* Nothing is queued at first.                                             *)
LEMMA SeenInit == Init => SeenInv
BY TypeInit DEF Init, SeenInv, OwnWorkIsClaimed, ClaimLeavesSome, FirstPollIsDue,
                NotifiedWorkIsSeen

(* The executions and a claimed batch can be counted.                      *)
LEMMA ExecutingIsFinite ==
  ASSUME TypeOK
  PROVE  /\ IsFiniteSet(Executing) /\ Cardinality(Executing) \in Nat
         /\ IsFiniteSet(batch) /\ Cardinality(batch) \in Nat
BY ConsumerAssumption, FS_Subset, FS_CardinalityType DEF Executing, TypeOK

(* Every step of a consumer preserves SeenInv.                             *)
LEMMA SeenStep == LeakInv /\ SeenInv /\ [Next]_vars => SeenInv'
<1> SUFFICES ASSUME LeakInv, SeenInv, [Next]_vars PROVE SeenInv'
  OBVIOUS
<1>type. TypeOK /\ TypeOK'
  BY TypeStep DEF SeenInv
<1>parts. /\ OwnWorkIsClaimed /\ ClaimLeavesSome /\ FirstPollIsDue /\ NotifiedWorkIsSeen
          /\ ClaimInHand /\ HoldsNothingOutside
  BY DEF SeenInv, LeakInv
<1> SUFFICES OwnWorkIsClaimed' /\ ClaimLeavesSome' /\ FirstPollIsDue' /\ NotifiedWorkIsSeen'
  BY <1>type DEF SeenInv
<1>1. CASE Start \/ Exit \/ Drain \/ CancelExecutions
  <2>1. /\ UNCHANGED <<row, job, claim, batch, turn, nextPoll, stop, limit, notified, claimFailed>>
        /\ phase' # "init"
        /\ phase' = "running" => nextPoll = 0
    BY <1>1, <1>parts DEF Start, Exit, Drain, CancelExecutions, FirstPollIsDue, claimVars, statusVars
  <2> QED
    BY <2>1, <1>parts DEF OwnWorkIsClaimed, ClaimLeavesSome, FirstPollIsDue, NotifiedWorkIsSeen
<1>2. CASE Abandon
  <2>1. /\ job' = [t \in Tasks |-> "none"] /\ claim' = "none" /\ batch' = {} /\ phase' = "stopped"
    BY <1>2 DEF Abandon
  <2> QED
    BY <2>1 DEF OwnWorkIsClaimed, ClaimLeavesSome, FirstPollIsDue, NotifiedWorkIsSeen
<1>3. ASSUME NEW x \in Tasks, JoinExecution(x) PROVE SeenInv'
  <2>1. /\ UNCHANGED <<row, claim, batch, turn, phase, notified>>
        /\ job' = [job EXCEPT ![x] = "none"] /\ nextPoll' = 0
    BY <1>3 DEF JoinExecution, RecordAndPoll, claimVars
  <2> QED
    BY <2>1, <1>parts, <1>type DEF SeenInv, OwnWorkIsClaimed, ClaimLeavesSome, FirstPollIsDue,
                            NotifiedWorkIsSeen, TypeOK
<1>4. CASE JoinRelease
  BY <1>4, <1>parts DEF JoinRelease, claimVars, loopVars, OwnWorkIsClaimed, ClaimLeavesSome,
                        FirstPollIsDue, NotifiedWorkIsSeen, Executing
<1>5. CASE TakeClaim
  <2>1. /\ UNCHANGED <<row, job, claim, batch, phase, nextPoll, stop, limit, notified, claimFailed>>
        /\ claim \in {"ok", "error"} /\ \A t \in Tasks : job[t] \notin {"execOk", "execErr"}
    BY <1>5 DEF TakeClaim, ClaimReady, ExecReady, claimVars, statusVars
  <2>2. OwnWorkIsClaimed'
    BY <2>1, <1>parts, <1>type DEF OwnWorkIsClaimed, TypeOK, ExecJobs
  <2> QED
    BY <2>1, <2>2, <1>parts DEF ClaimLeavesSome, FirstPollIsDue, NotifiedWorkIsSeen
<1>6. CASE FailedClaim
  <2>1. /\ UNCHANGED <<row, job, batch, phase>> /\ claim' = "none" /\ claimFailed' = TRUE
        /\ turn' = "select" /\ turn = "claim"
    BY <1>6 DEF FailedClaim
  <2> QED
    BY <2>1, <1>parts DEF OwnWorkIsClaimed, ClaimLeavesSome, FirstPollIsDue, NotifiedWorkIsSeen,
                          ClaimInHand, Running
<1>7. CASE CompletedClaim
  <2>1. PICK started \in SUBSET batch :
          /\ job' = [t \in Tasks |-> Disposition(t, started)]
          /\ batch # {} /\ MayStart /\ limit > Cardinality(Executing \cup started) => nextPoll' = 0
    BY <1>7 DEF CompletedClaim, RecordAndPoll
  <2>2. /\ UNCHANGED <<row, phase, stop, limit, notified>>
        /\ turn = "claim" /\ claim = "ok" /\ turn' = "select" /\ claim' = "none" /\ batch' = {}
    BY <1>7 DEF CompletedClaim
  <2>3. OwnWorkIsClaimed'
    BY <2>1, <2>2, <1>parts DEF OwnWorkIsClaimed, Disposition
  <2>4. Executing' = Executing \cup started
    BY <2>1, <2>2, <1>parts, <1>type DEF Executing, ExecJobs, Disposition, OwnWorkIsClaimed, TypeOK
  <2>5. NotifiedWorkIsSeen'
    BY <2>1, <2>2, <2>4, <1>parts DEF NotifiedWorkIsSeen, ClaimLeavesSome, MayStart, Stopping
  <2> QED
    BY <2>2, <2>3, <2>5, <1>parts DEF ClaimLeavesSome, FirstPollIsDue, ClaimInHand, Running
<1>8. CASE Poll
  <2>0. phase \in Running /\ claim = "none"
    BY <1>8 DEF Poll, MayPoll, Selects
  <2>1. UNCHANGED <<row, job, batch, turn, phase, limit>>
    BY <1>8 DEF Poll
  <2>claim. \/ claim' = "flying"
            \/ limit <= Cardinality(Executing) /\ UNCHANGED <<claim, reserved>>
    BY <1>8, Zenon DEF Poll
  <2>2. Executing' = Executing /\ Cardinality(Executing) \in Nat /\ limit \in Nat
    BY <2>1, <1>type, ExecutingIsFinite DEF Executing, TypeOK
  <2> QED
    BY <2>0, <2>1, <2>claim, <2>2, <1>parts
       DEF OwnWorkIsClaimed, ClaimLeavesSome, FirstPollIsDue, NotifiedWorkIsSeen, Running
<1>9. CASE Wakeup
  <2>1. /\ UNCHANGED <<row, job, claim, batch, turn, phase>> /\ nextPoll' = 0 /\ claim = "none"
    BY <1>9 DEF Wakeup, MayPoll, RecordAndPoll, claimVars
  <2> QED
    BY <2>1, <1>parts DEF OwnWorkIsClaimed, ClaimLeavesSome, FirstPollIsDue, NotifiedWorkIsSeen
<1>10. CASE ClaimReturns
  <2>0. /\ UNCHANGED <<job, turn, phase, nextPoll, notified>> /\ claim = "flying"
        /\ batch = {} /\ turn = "select"
    BY <1>10, <1>parts DEF ClaimReturns, ClaimInHand, loopVars
  <2>1. PICK S \in SUBSET Waiting :
          /\ S = {} => Waiting = {}
          /\ \/ claim' = "ok" /\ batch' = S /\ Taken(S)
             \/ claim' = "error" /\ batch' = {} /\ (Taken(S) \/ UNCHANGED row)
    BY <1>10, <2>0 DEF ClaimReturns, ClaimableSets
  <2>2. \A t \in S : t \in Tasks /\ row[t] # "claimed"
    BY DEF Waiting
  <2>3. OwnWorkIsClaimed'
    BY <2>0, <2>1, <2>2, <1>parts DEF OwnWorkIsClaimed, Taken
  <2>4. ClaimLeavesSome'
    BY <2>0, <2>1, <2>2, <1>parts DEF ClaimLeavesSome, Taken, Waiting
  <2> QED
    BY <2>0, <2>1, <2>3, <2>4, <1>parts DEF FirstPollIsDue, NotifiedWorkIsSeen
<1>11. ASSUME NEW x \in Tasks, ExecutionReturns(x) PROVE SeenInv'
  <2>1. /\ UNCHANGED <<claim, batch, turn, phase, nextPoll, stop, limit, notified, claimFailed>>
        /\ job[x] = "exec"
        /\ \E j \in {"execOk", "execErr"} : job' = [job EXCEPT ![x] = j]
        /\ \E r \in {"done", "queued", row[x]} : row' = [row EXCEPT ![x] = r]
    BY <1>11, <1>type DEF ExecutionReturns, claimVars, loopVars, statusVars, TypeOK
  <2>2. Executing' = Executing
    BY <2>1, <1>type DEF Executing, ExecJobs, TypeOK
  <2>3. \A t \in Tasks : row'[t] = "fresh" => row[t] = "fresh"
    BY <2>1, <1>type DEF TypeOK
  <2>4. OwnWorkIsClaimed'
    BY <2>1, <1>parts, <1>type DEF OwnWorkIsClaimed, TypeOK
  <2> QED
    BY <2>1, <2>2, <2>3, <2>4, <1>parts, <1>type
       DEF SeenInv, ClaimLeavesSome, FirstPollIsDue, NotifiedWorkIsSeen
<1>12. ASSUME NEW x \in Tasks, ReleaseReturns(x) PROVE SeenInv'
  <2>1. /\ UNCHANGED <<claim, batch, turn, phase, nextPoll, stop, limit, notified, claimFailed>>
        /\ job[x] = "rel" /\ job' = [job EXCEPT ![x] = "none"]
        /\ \E r \in {"queued", row[x]} : row' = [row EXCEPT ![x] = r]
    BY <1>12, <1>type DEF ReleaseReturns, claimVars, loopVars, statusVars, TypeOK
  <2>2. Executing' = Executing
    BY <2>1, <1>type DEF Executing, ExecJobs, TypeOK
  <2>3. \A t \in Tasks : row'[t] = "fresh" => row[t] = "fresh"
    BY <2>1, <1>type DEF TypeOK
  <2>4. OwnWorkIsClaimed'
    BY <2>1, <1>parts, <1>type DEF OwnWorkIsClaimed, TypeOK
  <2> QED
    BY <2>1, <2>2, <2>3, <2>4, <1>parts, <1>type
       DEF SeenInv, ClaimLeavesSome, FirstPollIsDue, NotifiedWorkIsSeen
<1>13. ASSUME NEW x \in Tasks, LeaseExpires(x) \/ Enqueue(x) \/ Notify(x) PROVE SeenInv'
  <2>1. /\ UNCHANGED <<job, claim, batch, turn, phase, nextPoll, stop, limit, claimFailed>>
        /\ \/ row' = [row EXCEPT ![x] = "queued"] /\ notified' = notified
           \/ row' = [row EXCEPT ![x] = "fresh"] /\ notified' = TRUE
        /\ \/ row[x] = "claimed" /\ job[x] = "none" /\ x \notin batch
           \/ row[x] # "claimed"
    BY <1>13 DEF LeaseExpires, Leaked, Enqueue, Notify, SendReplace, claimVars, loopVars, statusVars
  <2>2. Executing' = Executing
    BY <2>1 DEF Executing
  <2>3. \/ notified' = TRUE
        \/ notified' = notified /\ \A t \in Tasks : row'[t] = "fresh" => row[t] = "fresh"
    BY <2>1, <1>type DEF TypeOK
  <2>4. OwnWorkIsClaimed'
    BY <2>1, <1>parts, <1>type DEF OwnWorkIsClaimed, TypeOK
  <2> QED
    BY <2>1, <2>2, <2>3, <2>4, <1>parts, <1>type
       DEF SeenInv, ClaimLeavesSome, FirstPollIsDue, NotifiedWorkIsSeen
<1>14. ASSUME NEW n \in 0..MaxLimit, SetLimit(n) PROVE SeenInv'
  BY <1>14, <1>parts, <1>type
     DEF SetLimit, SendReplace, claimVars, loopVars, statusVars, SeenInv,
         OwnWorkIsClaimed, ClaimLeavesSome, FirstPollIsDue, NotifiedWorkIsSeen
<1>15. CASE RequestStop
  BY <1>15, <1>parts DEF RequestStop, claimVars, loopVars, statusVars, OwnWorkIsClaimed,
                         ClaimLeavesSome, FirstPollIsDue, NotifiedWorkIsSeen
<1>16. CASE Tick
  <2>1. /\ UNCHANGED <<row, job, claim, batch, turn, phase, stop, limit, notified, claimFailed>>
        /\ nextPoll = 0 => nextPoll' = 0
    BY <1>16 DEF Tick, Minus, claimVars, statusVars
  <2> QED
    BY <2>1, <1>parts DEF OwnWorkIsClaimed, ClaimLeavesSome, FirstPollIsDue, NotifiedWorkIsSeen, Executing
<1>17. CASE UNCHANGED vars
  BY <1>17, <1>parts DEF vars, claimVars, loopVars, statusVars, OwnWorkIsClaimed,
                         ClaimLeavesSome, FirstPollIsDue, NotifiedWorkIsSeen, Executing
<1> QED
  BY <1>1, <1>2, <1>3, <1>4, <1>5, <1>6, <1>7, <1>8, <1>9, <1>10, <1>11, <1>12, <1>13,
     <1>14, <1>15, <1>16, <1>17 DEF Next, Loop, SeenInv

(* While slots are free and claims succeed, notified work is never left to *)
(* the idle timer, also when the notification crosses a claim in flight.   *)
THEOREM NotifiedWorkIsPolled == Spec => []NotifiedWorkIsSeen
<1>1. Init => SeenInv
  BY SeenInit
<1>2. SeenInv => NotifiedWorkIsSeen
  BY DEF SeenInv
<1> QED
  BY <1>1, <1>2, SeenStep, LeakInvariant, PTL DEF Spec

(* A claim never starts more than the limit in force when its result is    *)
(* handled: the slots are counted again after the claim returned.          *)
THEOREM LimitIsRespected == Spec => LimitRespected
<1>1. TypeOK /\ LeakInv /\ [Next]_vars
        => [~(Executing' \subseteq Executing) => Cardinality(Executing') <= limit]_vars
  <2> SUFFICES ASSUME TypeOK, LeakInv, Next, ~(Executing' \subseteq Executing)
               PROVE  Cardinality(Executing') <= limit
    OBVIOUS
  <2>1. CASE CompletedClaim
    <3>1. PICK started \in SUBSET batch :
            /\ Cardinality(started) =
                 IF MayStart THEN MinOf(Available, Cardinality(batch)) ELSE 0
            /\ job' = [t \in Tasks |-> Disposition(t, started)]
      BY <2>1 DEF CompletedClaim
    <3>2. /\ IsFiniteSet(Executing) /\ Cardinality(Executing) \in Nat
          /\ IsFiniteSet(started) /\ Cardinality(started) \in Nat
          /\ IsFiniteSet(batch) /\ Cardinality(batch) \in Nat
      BY ExecutingIsFinite, FS_Subset, FS_CardinalityType
    <3>3. Executing' \subseteq Executing \cup started
      BY <3>1 DEF Executing, Disposition, ExecJobs
    <3>4. started # {}
      BY <3>3
    <3>5. Cardinality(started) > 0
      BY <3>2, <3>4, FS_EmptySet
    <3>6. Cardinality(Executing) + Cardinality(started) <= limit
      BY <3>1, <3>2, <3>5 DEF Available, MinOf, Minus, TypeOK
    <3>7. /\ IsFiniteSet(Executing \cup started)
          /\ Cardinality(Executing \cup started) <= Cardinality(Executing) + Cardinality(started)
      <4>1. Cardinality(Executing \cap started) \in Nat
        BY <3>2, FS_Intersection, FS_CardinalityType
      <4>2. /\ IsFiniteSet(Executing \cup started)
            /\ Cardinality(Executing \cup started) =
                 Cardinality(Executing) + Cardinality(started) - Cardinality(Executing \cap started)
        BY <3>2, FS_Union, Zenon
      <4> QED
        BY <3>2, <4>1, <4>2
    <3>8. Cardinality(Executing') <= Cardinality(Executing \cup started)
      BY <3>3, <3>7, FS_Subset
    <3>9. Cardinality(Executing') \in Nat /\ Cardinality(Executing \cup started) \in Nat /\ limit \in Nat
      BY <3>3, <3>7, FS_Subset, FS_CardinalityType DEF TypeOK
    <3> QED
      BY <3>2, <3>6, <3>7, <3>8, <3>9
  <2>2. CASE Abandon
    BY <2>2 DEF Abandon, Executing, ExecJobs
  <2>3. CASE \E t \in Tasks : JoinExecution(t) \/ ExecutionReturns(t) \/ ReleaseReturns(t)
    BY <2>3 DEF JoinExecution, ExecutionReturns, ReleaseReturns, ExecJobs, Executing, TypeOK
  <2>4. CASE UNCHANGED job
    BY <2>4 DEF Executing
  <2> QED
    BY <2>1, <2>2, <2>3, <2>4
       DEF Next, Loop, Start, Exit, Drain, CancelExecutions, JoinRelease, TakeClaim,
           FailedClaim, Poll, Wakeup, ClaimReturns, RequestStop, Tick, LeaseExpires,
           Enqueue, Notify, SetLimit
<1> QED
  BY <1>1, TypeCorrect, LeakInvariant, PTL DEF Spec, LimitRespected
=============================================================================
