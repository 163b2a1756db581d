------------------------ MODULE TaskExecutionProofs ------------------------
(***************************************************************************)
(* The token fence of TaskExecution, for any number of tasks and workers;  *)
(* and, while claims and heartbeats are prompt (TimelyAssumption, cited by *)
(* the lemmas on the guard only), that an active lease guard means that    *)
(* the run still holds its lease.  The last section lifts the theorems on  *)
(* one body at a time and on recovery from ScheduledTaskProofs to MCTasks. *)
(***************************************************************************)
EXTENDS MCTasks, TLAPS

-----------------------------------------------------------------------------
(* Facts about the helpers, so that the steps below need not expand them.  *)

(* The lease length and the arithmetic of the timers stay in Nat.          *)
LEMMA TimersAreNat ==
  /\ Lease \in Nat /\ RenewalTimeout \in Nat
  /\ \A a, b \in Nat : Minus(a, b) \in Nat
  /\ \A a, b \in Nat : Older(a, b) \in Nat
BY ConstantsAssumption DEF Lease, RenewalTimeout, AtLeastOne, Minus, Older

(* ensure_active answers "none" or one of the four stop reasons.           *)
LEMMA EnsureActiveType ==
  ASSUME BeatTypes, NEW w \in Workers
  PROVE  EnsureActive(w) \in {"none"} \cup Stops
BY DEF BeatTypes, EnsureActive, Stops

(* A fault stays within its bound.                                         *)
LEMMA FaultType ==
  ASSUME faults \in 0..MaxFaults, Fault \/ NoFault \/ UNCHANGED faults
  PROVE  faults' \in 0..MaxFaults
BY ConstantsAssumption DEF Fault, NoFault

(* The store's updates keep the rows well typed.                           *)
LEMMA ClaimRowType ==
  ASSUME RowTypes, NEW t \in Tasks, NEW d \in Nat, ClaimRow(t, d)
  PROVE  RowTypes'
<1>1. procToken[t] + 1 \in 0..MaxToken
  BY ConstantsAssumption DEF RowTypes, ClaimRow
<1>2. Minus(Lease, d) \in Nat
  BY TimersAreNat
<1> QED
  BY <1>1, <1>2 DEF RowTypes, ClaimRow, SetStatus, Statuses

(* The same for one status update.                                         *)
LEMMA SetStatusType ==
  ASSUME RowTypes, NEW t \in Tasks, NEW s \in Statuses, SetStatus(t, s),
         UNCHANGED <<procToken, attemptCount, cancelReq, leaseLeft, dueIn>>
  PROVE  RowTypes'
BY DEF RowTypes, SetStatus

(* The same for a shutdown release.                                        *)
LEMMA ReleasedRowType ==
  ASSUME RowTypes, NEW w \in Workers, task[w] \in Tasks, ReleasedRow(w),
         UNCHANGED <<procToken, cancelReq>>
  PROVE  RowTypes'
BY DEF RowTypes, ReleasedRow, SetStatus, Statuses

(* The same for a retry or a failure.                                      *)
LEMMA OutcomeRowType ==
  ASSUME RowTypes, RunTypes, NEW w \in Workers, task[w] \in Tasks,
         NEW s \in Statuses, NEW delay \in Nat, OutcomeRow(w, s, delay),
         UNCHANGED <<procToken, cancelReq>>
  PROVE  RowTypes'
<1>1. NextAttempt(w) \in Nat
  BY DEF RunTypes, NextAttempt
<1> QED
  BY <1>1 DEF RowTypes, OutcomeRow, SetStatus

(* The same for a heartbeat.                                               *)
LEMMA TouchRowType ==
  ASSUME RowTypes, BeatTypes, NEW w \in Workers, task[w] \in Tasks, TouchRow(w),
         UNCHANGED <<status, procToken, attemptCount, cancelReq, dueIn>>
  PROVE  RowTypes'
<1>1. Minus(Lease, hbAge[w]) \in Nat
  BY TimersAreNat DEF BeatTypes
<1> QED
  BY <1>1 DEF RowTypes, TouchRow

(* A store call's answer moves the run and leaves its lease alone.         *)
LEMMA MoveType ==
  ASSUME RunTypes, BeatTypes, shutdown \in [Workers -> BOOLEAN],
         NEW w \in Workers, pc[w] # "idle", Unaffected(w),
         \/ \E o \in Outcomes : Settle(w, o)
         \/ \E l \in Running : GoTo(w, l)
  PROVE  RunTypes' /\ BeatTypes' /\ shutdown' \in [Workers -> BOOLEAN]
<1>1. task' = task /\ lease' = lease /\ snapAttempts' = snapAttempts
      /\ snapCancel' = snapCancel /\ shutdown' = shutdown
      /\ guardAge' = guardAge /\ term' = term /\ hb' = hb /\ hbAge' = hbAge
  BY DEF Unaffected, beatVars
<1>2. CASE \E o \in Outcomes : Settle(w, o)
  BY <1>1, <1>2 DEF Settle, RunTypes, BeatTypes, Labels, Running, Results
<1>3. CASE \E l \in Running : GoTo(w, l)
  BY <1>1, <1>3 DEF GoTo, RunTypes, BeatTypes, Labels, Running, Results
<1> QED
  BY <1>2, <1>3

-----------------------------------------------------------------------------
(* Every step keeps every variable in its type.                            *)
LEMMA TypeStep == TypeOK /\ [Next]_vars => TypeOK'
<1> SUFFICES ASSUME TypeOK, [Next]_vars PROVE TypeOK'
  OBVIOUS
<1> USE ConstantsAssumption
<1> USE DEF TypeOK
<1>same. ASSUME UNCHANGED rowVars PROVE RowTypes'
  BY <1>same DEF RowTypes, rowVars
<1>1. ASSUME NEW w \in Workers, NEW t \in Tasks, Claim(w, t) PROVE TypeOK'
  <2>1. RowTypes'
    BY <1>1, ClaimRowType DEF Claim
  <2>2. RunTypes'
    <3>1. snapCancel' \in [Workers -> BOOLEAN]
      BY <1>1 DEF RowTypes, RunTypes, Claim
    <3> QED
      BY <1>1, <3>1 DEF RowTypes, RunTypes, Claim, Labels
  <2>3. BeatTypes'
    BY <1>1 DEF RunTypes, BeatTypes, Claim
  <2> QED
    BY <1>1, <2>1, <2>2, <2>3 DEF Claim, NoFault
<1>2. ASSUME NEW t \in Tasks, ClaimLost(t) PROVE TypeOK'
  <2>1. RowTypes'
    BY <1>2, ClaimRowType DEF ClaimLost
  <2> QED
    BY <1>2, <2>1, FaultType
       DEF ClaimLost, runVars, beatVars, RunTypes, BeatTypes
<1>3. ASSUME NEW w \in Workers, Begin(w) PROVE TypeOK'
  <2>1. RunTypes' /\ BeatTypes'
    BY <1>3 DEF Begin, RunTypes, BeatTypes, Labels, Running, Results, Stops
  <2> QED
    BY <1>3, <1>same, <2>1 DEF Begin
<1>4. ASSUME NEW w \in Workers, BodyCommits(w) PROVE TypeOK'
  <2>1. task[w] \in Tasks
    BY <1>4 DEF BodyCommits, RunTypes
  <2>2. RowTypes'
    BY <1>4, <2>1, SetStatusType DEF BodyCommits, Statuses, Terminal
  <2> QED
    BY <1>4, <2>2 DEF BodyCommits, runVars, beatVars, RunTypes, BeatTypes
<1>5. ASSUME NEW w \in Workers, BodyReturns(w) PROVE TypeOK'
  <2>1. RunTypes' /\ BeatTypes'
    BY <1>5, EnsureActiveType
       DEF BodyReturns, RunTypes, BeatTypes, Labels, Running, Results, Stops
  <2> QED
    BY <1>5, <1>same, <2>1 DEF BodyReturns
<1>6. ASSUME NEW w \in Workers, NEW l \in Running, pc[w] # "idle", Acknowledge(w, l)
      PROVE  TypeOK'
  <2>1. task[w] \in Tasks
    BY <1>6 DEF RunTypes
  <2>2. RowTypes'
    BY <1>6, <2>1, <1>same, SetStatusType
       DEF Acknowledge, Unaffected, rowVars, Statuses, Terminal
  <2>3. (\E o \in Outcomes : Settle(w, o)) \/ (\E k \in Running : GoTo(w, k))
    BY <1>6 DEF Acknowledge, Outcomes
  <2>4. Unaffected(w) /\ (Fault \/ NoFault)
    BY <1>6 DEF Acknowledge
  <2> QED
    BY <1>6, <2>2, <2>3, <2>4, MoveType, FaultType
<1>7. ASSUME NEW w \in Workers, AckFirst(w) PROVE TypeOK'
  <2>1. AfterAck(w) \in Running /\ pc[w] # "idle"
    BY <1>7 DEF AckFirst, AfterAck, Running
  <2> QED
    BY <1>6, <1>7, <2>1 DEF AckFirst
<1>8. ASSUME NEW w \in Workers, AckFinal(w) PROVE TypeOK'
  <2>1. "join" \in Running /\ pc[w] # "idle"
    BY <1>8 DEF AckFinal, Running
  <2> QED
    BY <1>6, <1>8, <2>1 DEF AckFinal
<1>9. ASSUME NEW w \in Workers, Confirm(w) PROVE TypeOK'
  <2>1. RowTypes'
    BY <1>9, <1>same DEF Confirm, Unaffected, rowVars
  <2>2. (\E o \in Outcomes : Settle(w, o)) \/ (\E k \in Running : GoTo(w, k))
    BY <1>9 DEF Confirm, Outcomes, Running
  <2>3. pc[w] # "idle" /\ Unaffected(w) /\ (Fault \/ NoFault)
    BY <1>9 DEF Confirm
  <2> QED
    BY <2>1, <2>2, <2>3, MoveType, FaultType
<1>10. ASSUME NEW w \in Workers, Release(w) PROVE TypeOK'
  <2>1. task[w] \in Tasks
    BY <1>10 DEF Release, RunTypes
  <2>2. RowTypes'
    BY <1>10, <2>1, <1>same, ReleasedRowType DEF Release, Unaffected, rowVars
  <2>3. (\E o \in Outcomes : Settle(w, o)) \/ (\E k \in Running : GoTo(w, k))
    BY <1>10 DEF Release, Outcomes, Running
  <2>4. pc[w] # "idle" /\ Unaffected(w) /\ (Fault \/ NoFault)
    BY <1>10 DEF Release
  <2> QED
    BY <2>2, <2>3, <2>4, MoveType, FaultType
<1>11. ASSUME NEW w \in Workers, NEW s \in Statuses, NEW delay \in Nat,
              NEW o \in Outcomes, pc[w] # "idle", Persist(w, s, delay, o)
       PROVE  TypeOK'
  <2>1. task[w] \in Tasks
    BY <1>11 DEF RunTypes
  <2>2. RowTypes'
    BY <1>11, <2>1, <1>same, OutcomeRowType DEF Persist, Unaffected, rowVars
  <2>3. (\E q \in Outcomes : Settle(w, q)) \/ (\E k \in Running : GoTo(w, k))
    BY <1>11 DEF Persist, Outcomes, Running
  <2>4. Unaffected(w) /\ (Fault \/ NoFault)
    BY <1>11 DEF Persist
  <2> QED
    BY <1>11, <2>2, <2>3, <2>4, MoveType, FaultType
<1>12. ASSUME NEW w \in Workers, Retry(w) PROVE TypeOK'
  BY <1>11, <1>12 DEF Retry, Statuses, Outcomes
<1>13. ASSUME NEW w \in Workers, Fail(w) PROVE TypeOK'
  BY <1>11, <1>13 DEF Fail, Statuses, Terminal, Outcomes
<1>14. ASSUME NEW w \in Workers, Free(w) PROVE RunTypes' /\ BeatTypes'
  BY <1>14 DEF Free, RunTypes, BeatTypes, Labels, Results, Outcomes
<1>15. ASSUME NEW w \in Workers, Join(w) PROVE TypeOK'
  <2>1. task[w] \in Tasks
    BY <1>15 DEF Join, RunTypes
  <2>2. RowTypes'
    BY <1>15, <2>1, <1>same, TouchRowType DEF Join, Free, rowVars
  <2> QED
    BY <1>14, <1>15, <2>2 DEF Join
<1>16. ASSUME NEW w \in Workers, Crash(w) PROVE TypeOK'
  <2>1. RowTypes'
    BY <1>16, <1>same DEF Crash, Free, rowVars
  <2> QED
    BY <1>14, <1>16, <2>1, FaultType DEF Crash
<1>17. ASSUME NEW w \in Workers, Heartbeat(w) PROVE TypeOK'
  <2>1. task[w] \in Tasks /\ pc[w] # "idle"
    BY <1>17 DEF Heartbeat, HeartbeatTick, HeartbeatRenewed, HeartbeatStops,
                 HeartbeatError, RunTypes, BeatTypes
  <2>2. BeatOnly /\ (Fault \/ UNCHANGED faults)
    BY <1>17 DEF Heartbeat, HeartbeatTick, HeartbeatRenewed, HeartbeatStops,
                 HeartbeatError
  <2>3. UNCHANGED leaseLeft \/ TouchRow(w)
    BY <1>17 DEF Heartbeat, HeartbeatTick, HeartbeatRenewed, HeartbeatStops,
                 HeartbeatError
  <2>4. RowTypes'
    BY <2>1, <2>2, <2>3, <1>same, TouchRowType DEF BeatOnly, rowVars
  <2>5. RunTypes'
    BY <2>2 DEF BeatOnly, runVars, RunTypes
  <2>6. BeatTypes'
    BY <1>17, <2>1, <2>2, EnsureActiveType
       DEF BeatTypes, BeatOnly, runVars, Stops, Heartbeat, HeartbeatTick,
           HeartbeatRenewed, HeartbeatStops, HeartbeatError
  <2> QED
    BY <2>2, <2>4, <2>5, <2>6, FaultType DEF BeatOnly
<1>18. ASSUME NEW w \in Workers, RequestShutdown(w) \/ Restart(w) PROVE TypeOK'
  BY <1>18, <1>same DEF RequestShutdown, Restart, RunTypes, BeatTypes, runVars, beatVars
<1>19. ASSUME NEW t \in Tasks, RequestCancel(t) PROVE TypeOK'
  BY <1>19 DEF RequestCancel, RowTypes, RunTypes, BeatTypes, runVars, beatVars
<1>20. CASE Tick
  <2>1. RowTypes'
    BY <1>20, TimersAreNat DEF Tick, RowTypes
  <2>2. BeatTypes'
    BY <1>20, TimersAreNat DEF Tick, BeatTypes, runVars
  <2> QED
    BY <1>20, <2>1, <2>2 DEF Tick, runVars, RunTypes
<1>21. CASE UNCHANGED vars
  BY <1>21, <1>same DEF vars, runVars, beatVars, RunTypes, BeatTypes
<1> QED
  BY <1>1, <1>2, <1>3, <1>4, <1>5, <1>7, <1>8, <1>9, <1>10, <1>12, <1>13,
     <1>15, <1>16, <1>17, <1>18, <1>19, <1>20, <1>21 DEF Next, Work, Execute

-----------------------------------------------------------------------------
(* What the fence is about: the fields of the rows and the runs that the   *)
(* invariant relates.                                                      *)
fenceVars == <<status, procToken, attemptCount, pc, task, lease, snapAttempts,
               outcome>>

(* The initial state satisfies the invariant.                              *)
LEMMA FenceInit == Init => FenceInv
<1> SUFFICES ASSUME Init PROVE FenceInv
  OBVIOUS
<1> USE ConstantsAssumption DEF Init
<1>1. TypeOK
  BY DEF TypeOK, RowTypes, RunTypes, BeatTypes, Statuses, Labels, Results, Outcomes
<1>2. TokensWereClaimed /\ TokensAreUnique /\ SnapshotIsCurrent /\ RetryHasBudget
  BY DEF TokensWereClaimed, TokensAreUnique, SnapshotIsCurrent, RetryHasBudget
<1>3. UnsettledHasBudget /\ AttemptBudget /\ ReportsAreDurable
  BY DEF UnsettledHasBudget, AttemptBudget, ReportsAreDurable, Terminal
<1> QED
  BY <1>1, <1>2, <1>3 DEF FenceInv

(* Every step preserves the invariant.                                     *)
LEMMA FenceStep == FenceInv /\ [Next]_vars => FenceInv'
<1> SUFFICES ASSUME FenceInv, [Next]_vars PROVE FenceInv'
  OBVIOUS
<1> USE ConstantsAssumption
<1>type. TypeOK /\ TypeOK'
  BY TypeStep DEF FenceInv
<1> USE DEF TypeOK, RowTypes, RunTypes
<1>same. ASSUME UNCHANGED fenceVars PROVE FenceInv'
  BY <1>same, <1>type
     DEF fenceVars, FenceInv, TokensWereClaimed, TokensAreUnique,
         SnapshotIsCurrent, RetryHasBudget, UnsettledHasBudget, AttemptBudget,
         ReportsAreDurable, Executable, NextAttempt
<1> USE DEF FenceInv
<1>1. ASSUME NEW w \in Workers, NEW t \in Tasks, Claim(w, t) PROVE FenceInv'
  <2> USE DEF Claim, ClaimRow, SetStatus
  <2>1. TokensWereClaimed'
    BY <1>1, <1>type DEF TokensWereClaimed
  <2>2. TokensAreUnique'
    BY <1>1, <1>type DEF TokensAreUnique, TokensWereClaimed
  <2>3. SnapshotIsCurrent'
    BY <1>1, <1>type DEF SnapshotIsCurrent, TokensWereClaimed, Executable
  <2>4. RetryHasBudget'
    BY <1>1, <1>type DEF RetryHasBudget, NextAttempt
  <2>5. UnsettledHasBudget' /\ AttemptBudget'
    BY <1>1, <1>type DEF UnsettledHasBudget, AttemptBudget, Claimable, Terminal
  <2>6. ReportsAreDurable'
    BY <1>1, <1>type DEF ReportsAreDurable, TokensWereClaimed, Claimable,
                         NextAttempt, Terminal
  <2> QED
    BY <1>type, <2>1, <2>2, <2>3, <2>4, <2>5, <2>6
<1>2. ASSUME NEW t \in Tasks, ClaimLost(t) PROVE FenceInv'
  <2> USE DEF ClaimLost, ClaimRow, SetStatus, runVars
  <2>1. TokensWereClaimed' /\ TokensAreUnique' /\ RetryHasBudget'
    BY <1>2, <1>type DEF TokensWereClaimed, TokensAreUnique, RetryHasBudget, NextAttempt
  <2>2. SnapshotIsCurrent'
    BY <1>2, <1>type DEF SnapshotIsCurrent, TokensWereClaimed, Executable
  <2>3. UnsettledHasBudget' /\ AttemptBudget'
    BY <1>2, <1>type DEF UnsettledHasBudget, AttemptBudget, Claimable, Terminal
  <2>4. ReportsAreDurable'
    BY <1>2, <1>type DEF ReportsAreDurable, TokensWereClaimed, Claimable,
                         NextAttempt, Terminal
  <2> QED
    BY <1>type, <2>1, <2>2, <2>3, <2>4
<1>3. ASSUME NEW w \in Workers, Begin(w) \/ BodyReturns(w) PROVE FenceInv'
  <2>1. UNCHANGED <<status, procToken, attemptCount, task, lease, snapAttempts, outcome>>
    BY <1>3 DEF Begin, BodyReturns, rowVars
  <2>2. \E l \in {"body", "ackFirst", "ackFinal"} : pc' = [pc EXCEPT ![w] = l]
    BY <1>3 DEF Begin, BodyReturns
  <2>3. pc[w] # "idle"
    BY <1>3 DEF Begin, BodyReturns
  <2> QED
    BY <1>type, <2>1, <2>2, <2>3
       DEF TokensWereClaimed, TokensAreUnique, SnapshotIsCurrent, RetryHasBudget,
           UnsettledHasBudget, AttemptBudget, ReportsAreDurable, Executable,
           NextAttempt
<1>4. ASSUME NEW w \in Workers, Join(w) \/ Crash(w) PROVE FenceInv'
  <2>1. Free(w)
    BY <1>4 DEF Join, Crash
  <2>2. pc' = [pc EXCEPT ![w] = "idle"]
        /\ \A v \in Workers \ {w} :
             task'[v] = task[v] /\ lease'[v] = lease[v]
             /\ snapAttempts'[v] = snapAttempts[v] /\ outcome'[v] = outcome[v]
    BY <2>1 DEF Free
  <2>3. UNCHANGED <<status, procToken, attemptCount>>
    BY <2>1 DEF Free
  <2>4. TokensWereClaimed' /\ TokensAreUnique' /\ RetryHasBudget'
    BY <2>2, <2>3, <1>type
       DEF TokensWereClaimed, TokensAreUnique, RetryHasBudget, NextAttempt
  <2>5. SnapshotIsCurrent'
    BY <2>2, <2>3, <1>type DEF SnapshotIsCurrent, Executable
  <2>6. UnsettledHasBudget' /\ AttemptBudget'
    BY <2>3 DEF UnsettledHasBudget, AttemptBudget
  <2>7. ReportsAreDurable'
    BY <2>2, <2>3, <1>type DEF ReportsAreDurable, NextAttempt
  <2> QED
    BY <1>type, <2>4, <2>5, <2>6, <2>7
(* A run settles its row: status s by its own token, and the attempts.     *)
<1>5. ASSUME NEW w \in Workers, pc[w] # "idle", Executable(w),
             NEW s \in Statuses, SetStatus(task[w], s), s # "processing",
             UNCHANGED <<procToken, task, lease, snapAttempts>>,
             NEW l \in Running, pc' = [pc EXCEPT ![w] = l], l # "retry",
             NEW o \in Outcomes, outcome' = [outcome EXCEPT ![w] = o],
             l = "join" =>
               /\ o \in Terminal => o = s
               /\ o = "retried" => s = "retry" /\ attemptCount'[task[w]] = NextAttempt(w),
             \/ UNCHANGED attemptCount
             \/ /\ attemptCount' = [attemptCount EXCEPT ![task[w]] = NextAttempt(w)]
                /\ s \notin Terminal => NextAttempt(w) < MaxAttempts
      PROVE  FenceInv'
  <2>1. task[w] \in Tasks /\ snapAttempts[w] = attemptCount[task[w]]
    BY <1>5 DEF SnapshotIsCurrent
  <2>2. TokensWereClaimed' /\ TokensAreUnique' /\ RetryHasBudget'
    BY <1>5, <1>type
       DEF TokensWereClaimed, TokensAreUnique, RetryHasBudget, NextAttempt
  <2>3. SnapshotIsCurrent'
    BY <1>5, <1>type, <2>1 DEF SnapshotIsCurrent, Executable, SetStatus
  <2>4. UnsettledHasBudget' /\ AttemptBudget'
    BY <1>5, <1>type, <2>1
       DEF UnsettledHasBudget, AttemptBudget, Executable, SetStatus, NextAttempt, Terminal
  <2>5. ReportsAreDurable'
    BY <1>5, <1>type, <2>1
       DEF ReportsAreDurable, TokensAreUnique, Executable, SetStatus, NextAttempt,
           Terminal
  <2> QED
    BY <1>type, <2>2, <2>3, <2>4, <2>5
(* A run moves on and leaves its row alone.                                *)
<1>6. ASSUME NEW w \in Workers, pc[w] # "idle",
             UNCHANGED <<status, procToken, attemptCount, task, lease, snapAttempts>>,
             NEW l \in Running, pc' = [pc EXCEPT ![w] = l],
             l = "retry" => NextAttempt(w) < MaxAttempts,
             NEW o \in Outcomes, outcome' = [outcome EXCEPT ![w] = o],
             l = "join" =>
               \/ o \in {"none", "error"}
               \/ o \in Terminal /\ status[task[w]] = o /\ procToken[task[w]] = lease[w]
      PROVE  FenceInv'
  <2>1. TokensWereClaimed' /\ TokensAreUnique' /\ RetryHasBudget'
    BY <1>6, <1>type
       DEF TokensWereClaimed, TokensAreUnique, RetryHasBudget, NextAttempt
  <2>2. SnapshotIsCurrent'
    BY <1>6, <1>type DEF SnapshotIsCurrent, Executable
  <2>3. UnsettledHasBudget' /\ AttemptBudget'
    BY <1>6, <1>type DEF UnsettledHasBudget, AttemptBudget
  <2>4. ReportsAreDurable'
    BY <1>6, <1>type DEF ReportsAreDurable, NextAttempt, Terminal
  <2> QED
    BY <1>type, <2>1, <2>2, <2>3, <2>4
<1>7. ASSUME NEW w \in Workers, NEW l \in Running, pc[w] # "idle",
             l = "retry" => NextAttempt(w) < MaxAttempts, Acknowledge(w, l)
      PROVE  FenceInv'
  <2>1. UNCHANGED <<procToken, attemptCount, task, lease, snapAttempts>>
    BY <1>7 DEF Acknowledge, Unaffected
  <2>2. \E k \in Running, o \in Outcomes :
          /\ pc' = [pc EXCEPT ![w] = k] /\ outcome' = [outcome EXCEPT ![w] = o]
          /\ k = "retry" => NextAttempt(w) < MaxAttempts
          /\ \/ /\ Executable(w) /\ SetStatus(task[w], "canceled")
                /\ k = "join" /\ o \in {"canceled", "error"}
             \/ /\ UNCHANGED status
                /\ k = "join" => o \in {"none", "error"}
    BY <1>7, <1>type DEF Acknowledge, Settle, GoTo, Outcomes, Running, CancelDue
  <2> QED
    BY <1>5, <1>6, <1>7, <2>1, <2>2 DEF Statuses, Terminal
<1>8. ASSUME NEW w \in Workers, AckFirst(w) PROVE FenceInv'
  <2>1. AfterAck(w) \in Running /\ pc[w] # "idle"
    BY <1>8 DEF AckFirst, AfterAck, Running
  <2>2. AfterAck(w) = "retry" => NextAttempt(w) < MaxAttempts
    BY DEF AfterAck
  <2> QED
    BY <1>7, <1>8, <2>1, <2>2 DEF AckFirst
<1>9. ASSUME NEW w \in Workers, AckFinal(w) PROVE FenceInv'
  <2>1. "join" \in Running /\ "join" # "retry" /\ pc[w] # "idle"
    BY <1>9 DEF AckFinal, Running
  <2> QED
    BY <1>7, <1>9, <2>1 DEF AckFinal
<1>10. ASSUME NEW w \in Workers, Confirm(w) PROVE FenceInv'
  <2>1. UNCHANGED <<status, procToken, attemptCount, task, lease, snapAttempts>>
    BY <1>10 DEF Confirm, Unaffected
  <2>2. \E k \in Running, o \in Outcomes :
          /\ pc' = [pc EXCEPT ![w] = k] /\ outcome' = [outcome EXCEPT ![w] = o]
          /\ k # "retry"
          /\ k = "join" =>
               \/ o = "error"
               \/ /\ o = "succeeded"
                  /\ status[task[w]] = "succeeded" /\ procToken[task[w]] = lease[w]
    BY <1>10, <1>type DEF Confirm, Succeeded, Settle, GoTo, Outcomes, Running
  <2>3. pc[w] # "idle"
    BY <1>10 DEF Confirm
  <2> QED
    BY <1>6, <2>1, <2>2, <2>3 DEF Terminal
<1>11. ASSUME NEW w \in Workers, Release(w) PROVE FenceInv'
  <2>1. UNCHANGED <<procToken, attemptCount, task, lease, snapAttempts>>
    BY <1>11 DEF Release, ReleasedRow, Unaffected
  <2>2. \E k \in Running, o \in Outcomes :
          /\ pc' = [pc EXCEPT ![w] = k] /\ outcome' = [outcome EXCEPT ![w] = o]
          /\ k # "retry"
          /\ k = "join" => o = "error"
          /\ \/ Executable(w) /\ SetStatus(task[w], "pending")
             \/ UNCHANGED status
    BY <1>11, <1>type
       DEF Release, ReleasedRow, Settle, GoTo, Outcomes, Running, Undisturbed
  <2>3. pc[w] # "idle"
    BY <1>11 DEF Release
  <2> QED
    BY <1>5, <1>6, <2>1, <2>2, <2>3 DEF Statuses, Terminal
<1>12. ASSUME NEW w \in Workers, NEW delay,
              NEW s \in {"retry", "failed"}, NEW q \in {"retried", "failed"},
              pc[w] # "idle", Persist(w, s, delay, q),
              s = "retry" <=> q = "retried",
              s = "retry" => NextAttempt(w) < MaxAttempts
       PROVE  FenceInv'
  <2>1. UNCHANGED <<procToken, task, lease, snapAttempts>>
    BY <1>12 DEF Persist, Unaffected
  <2>2. \E k \in Running, o \in Outcomes :
          /\ pc' = [pc EXCEPT ![w] = k] /\ outcome' = [outcome EXCEPT ![w] = o]
          /\ k # "retry"
          /\ \/ /\ Executable(w) /\ SetStatus(task[w], s)
                /\ attemptCount' = [attemptCount EXCEPT ![task[w]] = NextAttempt(w)]
                /\ o \in {q, "error"}
             \/ /\ UNCHANGED <<status, attemptCount>>
                /\ k = "join" => o = "error"
    BY <1>12, <1>type
       DEF Persist, OutcomeRow, Settle, GoTo, Outcomes, Running, Undisturbed
  <2>3. attemptCount' = [attemptCount EXCEPT ![task[w]] = NextAttempt(w)]
          => attemptCount'[task[w]] = NextAttempt(w)
    BY <1>12
  <2> QED
    BY <1>5, <1>6, <1>12, <2>1, <2>2, <2>3 DEF Statuses, Terminal
<1>13. ASSUME NEW w \in Workers, Retry(w) \/ Fail(w) PROVE FenceInv'
  BY <1>12, <1>13 DEF Retry, Fail, RetryHasBudget
<1>14. ASSUME NEW w \in Workers, BodyCommits(w) PROVE FenceInv'
  <2>1. UNCHANGED <<procToken, attemptCount, task, lease, snapAttempts>>
        /\ Executable(w) /\ SetStatus(task[w], "succeeded") /\ pc[w] = "body"
    BY <1>14 DEF BodyCommits, runVars
  <2>2. pc' = [pc EXCEPT ![w] = "body"] /\ outcome' = [outcome EXCEPT ![w] = outcome[w]]
    BY <1>14 DEF BodyCommits, runVars
  <2> QED
    BY <1>5, <2>1, <2>2 DEF Statuses, Terminal, Running
<1>15. ASSUME NEW w \in Workers,
              Heartbeat(w) \/ RequestShutdown(w) \/ Restart(w)
       PROVE  FenceInv'
  BY <1>15, <1>same
     DEF Heartbeat, HeartbeatTick, HeartbeatRenewed, HeartbeatStops,
         HeartbeatError, BeatOnly, RequestShutdown, Restart, rowVars, runVars,
         fenceVars
<1>16. ASSUME NEW t \in Tasks, RequestCancel(t) PROVE FenceInv'
  BY <1>16, <1>same DEF RequestCancel, runVars, fenceVars
<1>17. CASE Tick
  BY <1>17, <1>same DEF Tick, runVars, fenceVars
<1>18. CASE UNCHANGED vars
  BY <1>18, <1>same DEF vars, rowVars, runVars, fenceVars
<1> QED
  BY <1>1, <1>2, <1>3, <1>4, <1>8, <1>9, <1>10, <1>11, <1>13, <1>14, <1>15,
     <1>16, <1>17, <1>18 DEF Next, Work, Execute

-----------------------------------------------------------------------------
(* The fence holds in every state: types, unique tokens, the attempt       *)
(* budget and the durability of what a run reports.                        *)
THEOREM Fence == Spec => []FenceInv
BY FenceInit, FenceStep, PTL DEF Spec

(* No two runs ever hold the same processing token of a task.              *)
THEOREM UniqueTokens == Spec => []TokensAreUnique
<1>1. FenceInv => TokensAreUnique
  BY DEF FenceInv
<1> QED
  BY <1>1, Fence, PTL

(* What process_claimed_task reports is what the row says.                 *)
THEOREM DurableReports == Spec => []ReportsAreDurable
<1>1. FenceInv => ReportsAreDurable
  BY DEF FenceInv
<1> QED
  BY <1>1, Fence, PTL

(* A task never spends more attempts than it has, nor more than it had     *)
(* claims.                                                                 *)
THEOREM BoundedAttempts == Spec => []AttemptBudget
<1>1. FenceInv => AttemptBudget
  BY DEF FenceInv
<1> QED
  BY <1>1, Fence, PTL

-----------------------------------------------------------------------------
(* All that a step can do to a row: leave it alone (but for its timers and *)
(* a new cancellation request), claim it, or settle or release it under    *)
(* the fence, which a committed cancellation narrows.                      *)
RowStep(t) ==
  \/ /\ status'[t] = status[t] /\ procToken'[t] = procToken[t]
     /\ attemptCount'[t] = attemptCount[t]
     /\ cancelReq[t] => cancelReq'[t]
  \/ /\ Claimable(t) /\ status'[t] = "processing"
     /\ cancelReq'[t] = cancelReq[t]
  \/ /\ status[t] = "processing"
     /\ cancelReq'[t] = cancelReq[t]
     /\ cancelReq[t] => status'[t] \in {"processing", "canceled", "succeeded"}

(* Every step of the system treats every row in one of those ways.         *)
LEMMA RowSteps == TypeOK /\ [Next]_vars => \A t \in Tasks : RowStep(t)
<1> SUFFICES ASSUME TypeOK, [Next]_vars, NEW r \in Tasks PROVE RowStep(r)
  OBVIOUS
<1> USE DEF TypeOK, RowTypes, RunTypes
<1>same. ASSUME UNCHANGED <<status, procToken, attemptCount, cancelReq>>
         PROVE  RowStep(r)
  BY <1>same DEF RowStep
<1>1. ASSUME NEW t \in Tasks, NEW d, ClaimRow(t, d) PROVE RowStep(r)
  BY <1>1 DEF ClaimRow, SetStatus, RowStep
<1>2. ASSUME NEW w \in Workers, NEW l, Acknowledge(w, l), pc[w] # "idle" PROVE RowStep(r)
  BY <1>2 DEF Acknowledge, Unaffected, CancelDue, Executable, SetStatus, RowStep
<1>3. ASSUME NEW w \in Workers, Confirm(w) \/ Begin(w) \/ BodyReturns(w)
      PROVE  RowStep(r)
  BY <1>3, <1>same DEF Confirm, Unaffected, Begin, BodyReturns, rowVars
<1>4. ASSUME NEW w \in Workers, Release(w) PROVE RowStep(r)
  BY <1>4 DEF Release, ReleasedRow, Unaffected, Undisturbed, Executable,
              SetStatus, RowStep
<1>5. ASSUME NEW w \in Workers, NEW s, NEW delay, NEW o, pc[w] # "idle",
             Persist(w, s, delay, o)
      PROVE  RowStep(r)
  BY <1>5 DEF Persist, OutcomeRow, Unaffected, Undisturbed, Executable,
              SetStatus, RowStep
<1>6. ASSUME NEW w \in Workers, BodyCommits(w) PROVE RowStep(r)
  BY <1>6 DEF BodyCommits, Executable, SetStatus, RowStep
<1>7. ASSUME NEW w \in Workers,
             \/ Join(w) \/ Crash(w) \/ Heartbeat(w)
             \/ RequestShutdown(w) \/ Restart(w)
      PROVE  RowStep(r)
  BY <1>7, <1>same
     DEF Join, Crash, Free, Heartbeat, HeartbeatTick, HeartbeatRenewed,
         HeartbeatStops, HeartbeatError, BeatOnly, RequestShutdown, Restart,
         rowVars
<1>8. ASSUME NEW t \in Tasks, RequestCancel(t) PROVE RowStep(r)
  BY <1>8 DEF RequestCancel, RowStep
<1>9. CASE Tick
  BY <1>9, <1>same DEF Tick
<1>10. CASE UNCHANGED vars
  BY <1>10, <1>same DEF vars, rowVars
<1> QED
  BY <1>1, <1>2, <1>3, <1>4, <1>5, <1>6, <1>7, <1>8, <1>9, <1>10
     DEF Next, Work, Execute, Claim, ClaimLost, AckFirst, AckFinal, Retry, Fail

(* A row that succeeded, failed or was canceled is never changed again,    *)
(* and a committed cancellation request is never erased, by any late run.  *)
THEOREM DecisionsAreKept == Spec => DecisionsStand
<1>1. TypeOK /\ [Next]_vars =>
        [\A t \in Tasks :
           /\ status[t] \in Terminal =>
                /\ status'[t] = status[t]
                /\ procToken'[t] = procToken[t]
                /\ attemptCount'[t] = attemptCount[t]
           /\ cancelReq[t] =>
                /\ cancelReq'[t]
                /\ status'[t] # status[t] =>
                     status'[t] \in {"processing", "canceled", "succeeded"}]_vars
  <2> SUFFICES ASSUME TypeOK, [Next]_vars, NEW t \in Tasks
               PROVE  \/ UNCHANGED vars
                      \/ /\ status[t] \in Terminal =>
                              /\ status'[t] = status[t]
                              /\ procToken'[t] = procToken[t]
                              /\ attemptCount'[t] = attemptCount[t]
                         /\ cancelReq[t] =>
                              /\ cancelReq'[t]
                              /\ status'[t] # status[t] =>
                                   status'[t] \in {"processing", "canceled", "succeeded"}
    OBVIOUS
  <2>1. status[t] \in Terminal =>
          \/ UNCHANGED vars
          \/ /\ status'[t] = status[t]
             /\ procToken'[t] = procToken[t]
             /\ attemptCount'[t] = attemptCount[t]
    BY RowSteps DEF RowStep, Claimable, Terminal
  <2>2. cancelReq[t] =>
          \/ UNCHANGED vars
          \/ /\ cancelReq'[t]
             /\ status'[t] # status[t] =>
                  status'[t] \in {"processing", "canceled", "succeeded"}
    BY RowSteps DEF RowStep
  <2> QED
    BY <2>1, <2>2
<1>2. FenceInv => TypeOK
  BY DEF FenceInv
<1> QED
  BY <1>1, <1>2, Fence, PTL DEF Spec, DecisionsStand

-----------------------------------------------------------------------------
(* A heartbeat only lives inside a run: the guard of a claim that has not  *)
(* begun, or of a slot that was freed, renews nothing.                     *)
BeatsInRuns == \A w \in Workers : hb[w] # "off" => pc[w] \in Running

(* No step leaves a heartbeat behind.                                      *)
LEMMA BeatsStep == TypeOK /\ BeatsInRuns /\ [Next]_vars => BeatsInRuns'
<1> SUFFICES ASSUME TypeOK, BeatsInRuns, [Next]_vars PROVE BeatsInRuns'
  OBVIOUS
<1> USE DEF TypeOK, RunTypes, BeatTypes
<1>same. ASSUME UNCHANGED <<pc, hb>> PROVE BeatsInRuns'
  BY <1>same DEF BeatsInRuns
<1>moves. ASSUME NEW w \in Workers, UNCHANGED hb, NEW l \in Running,
                 pc' = [pc EXCEPT ![w] = l]
          PROVE  BeatsInRuns'
  BY <1>moves DEF BeatsInRuns
<1>1. ASSUME NEW w \in Workers, NEW t \in Tasks, Claim(w, t) PROVE BeatsInRuns'
  BY <1>1 DEF Claim, BeatsInRuns, Running
<1>2. ASSUME NEW w \in Workers, Begin(w) PROVE BeatsInRuns'
  BY <1>2 DEF Begin, BeatsInRuns, Running
<1>3. ASSUME NEW w \in Workers, BodyReturns(w) PROVE BeatsInRuns'
  BY <1>3, <1>moves DEF BodyReturns, Running
<1>4. ASSUME NEW w \in Workers, NEW l \in Running, Acknowledge(w, l) PROVE BeatsInRuns'
  BY <1>4, <1>moves DEF Acknowledge, Settle, GoTo, Unaffected, beatVars, Running
<1>5. ASSUME NEW w \in Workers, Confirm(w) \/ Release(w) PROVE BeatsInRuns'
  BY <1>5, <1>moves DEF Confirm, Release, Settle, GoTo, Unaffected, beatVars, Running
<1>6. ASSUME NEW w \in Workers, NEW s, NEW delay, NEW o, Persist(w, s, delay, o)
      PROVE  BeatsInRuns'
  BY <1>6, <1>moves DEF Persist, Settle, GoTo, Unaffected, beatVars, Running
<1>7. ASSUME NEW w \in Workers, Join(w) \/ Crash(w) PROVE BeatsInRuns'
  BY <1>7 DEF Join, Crash, Free, BeatsInRuns
<1>8. ASSUME NEW w \in Workers, Heartbeat(w) PROVE BeatsInRuns'
  BY <1>8 DEF Heartbeat, HeartbeatTick, HeartbeatRenewed, HeartbeatStops,
              HeartbeatError, BeatOnly, runVars, BeatsInRuns
<1>9. ASSUME NEW w \in Workers, BodyCommits(w) \/ RequestShutdown(w) \/ Restart(w)
      PROVE  BeatsInRuns'
  BY <1>9, <1>same DEF BodyCommits, RequestShutdown, Restart, runVars, beatVars
<1>10. ASSUME NEW t \in Tasks, ClaimLost(t) \/ RequestCancel(t) PROVE BeatsInRuns'
  BY <1>10, <1>same DEF ClaimLost, RequestCancel, runVars, beatVars
<1>11. CASE Tick
  BY <1>11, <1>same DEF Tick, runVars
<1>12. CASE UNCHANGED vars
  BY <1>12, <1>same DEF vars, runVars, beatVars
<1>13. \A w \in Workers : AfterAck(w) \in Running /\ "join" \in Running
  BY DEF AfterAck, Running
<1> QED
  BY <1>1, <1>2, <1>3, <1>4, <1>5, <1>6, <1>7, <1>8, <1>9, <1>10, <1>11, <1>12, <1>13
     DEF Next, Work, Execute, AckFirst, AckFinal, Retry, Fail

(* What OnlyHolderWrites says of one step and one task: the row is not     *)
(* claimed, or nobody renews or settles it, or it is claimed after its     *)
(* lease, or the step is one of the run that holds its token.              *)
HolderStep(t) ==
  \/ status[t] # "processing"
  \/ status'[t] = status[t] /\ procToken'[t] = procToken[t]
       /\ leaseLeft'[t] <= leaseLeft[t]
  \/ leaseLeft[t] = 0 /\ procToken'[t] = procToken[t] + 1
  \/ \E w \in Workers :
       /\ pc[w] \in Running
       /\ task[w] = t /\ lease[w] = procToken[t]
       /\ procToken'[t] = procToken[t]
       /\ pc'[w] # pc[w] \/ hb'[w] # hb[w] \/ pc[w] = "body"

(* Every step treats every row so.                                         *)
LEMMA HolderSteps ==
  TypeOK /\ BeatsInRuns /\ [Next]_vars => \A t \in Tasks : HolderStep(t)
<1> SUFFICES ASSUME TypeOK, BeatsInRuns, [Next]_vars, NEW r \in Tasks
             PROVE  HolderStep(r)
  OBVIOUS
<1> USE DEF TypeOK, RowTypes, RunTypes
<1>same. ASSUME UNCHANGED <<status, procToken, leaseLeft>> PROVE HolderStep(r)
  BY <1>same DEF HolderStep
<1>holds. ASSUME NEW w \in Workers, pc[w] \in Running, Executable(w),
                 UNCHANGED procToken,
                 pc'[w] # pc[w] \/ hb'[w] # hb[w] \/ pc[w] = "body",
                 \A t \in Tasks : t # task[w] =>
                   status'[t] = status[t] /\ leaseLeft'[t] = leaseLeft[t]
          PROVE  HolderStep(r)
  BY <1>holds DEF HolderStep, Executable
<1>1. ASSUME NEW t \in Tasks, NEW d, ClaimRow(t, d) PROVE HolderStep(r)
  BY <1>1 DEF ClaimRow, Claimable, SetStatus, HolderStep
<1>2. ASSUME NEW w \in Workers, NEW l, Acknowledge(w, l), pc[w] \in Running \ {"join"}
      PROVE  HolderStep(r)
  <2>1. CASE UNCHANGED status
    BY <1>2, <2>1, <1>same DEF Acknowledge, Unaffected
  <2>2. CASE CancelDue(w) /\ SetStatus(task[w], "canceled") /\ pc'[w] = "join"
    BY <1>2, <2>2, <1>holds DEF Acknowledge, Unaffected, CancelDue, SetStatus, Running
  <2> QED
    BY <1>2, <2>1, <2>2 DEF Acknowledge, Settle
<1>3. ASSUME NEW w \in Workers, Confirm(w) \/ Begin(w) \/ BodyReturns(w)
      PROVE  HolderStep(r)
  BY <1>3, <1>same DEF Confirm, Unaffected, Begin, BodyReturns, rowVars
<1>4. ASSUME NEW w \in Workers, Release(w) PROVE HolderStep(r)
  <2>1. CASE UNCHANGED <<status, leaseLeft>>
    BY <1>4, <2>1, <1>same DEF Release, Unaffected
  <2>2. CASE Undisturbed(w) /\ ReleasedRow(w)
    <3>1. pc'[w] # pc[w] /\ pc[w] \in Running /\ UNCHANGED procToken
      BY <1>4 DEF Release, Unaffected, Settle, GoTo, Running
    <3> QED
      BY <2>2, <3>1, <1>holds DEF Undisturbed, ReleasedRow, SetStatus
  <2> QED
    BY <1>4, <2>1, <2>2 DEF Release
<1>5. ASSUME NEW w \in Workers, NEW s, NEW delay, NEW o,
             pc[w] \in {"retry", "fail"}, Persist(w, s, delay, o)
      PROVE  HolderStep(r)
  <2>1. CASE UNCHANGED <<status, leaseLeft>>
    BY <1>5, <2>1, <1>same DEF Persist, Unaffected
  <2>2. CASE Undisturbed(w) /\ OutcomeRow(w, s, delay)
    <3>1. pc'[w] # pc[w] /\ pc[w] \in Running /\ UNCHANGED procToken
      BY <1>5 DEF Persist, Unaffected, Settle, GoTo, Running
    <3> QED
      BY <2>2, <3>1, <1>holds DEF Undisturbed, OutcomeRow, SetStatus
  <2> QED
    BY <1>5, <2>1, <2>2 DEF Persist
<1>6. ASSUME NEW w \in Workers, BodyCommits(w) PROVE HolderStep(r)
  BY <1>6, <1>holds DEF BodyCommits, SetStatus, Running
<1>7. ASSUME NEW w \in Workers, Join(w) \/ Heartbeat(w) PROVE HolderStep(r)
  <2>1. UNCHANGED <<status, procToken>>
    BY <1>7 DEF Join, Free, Heartbeat, HeartbeatTick, HeartbeatRenewed, HeartbeatStops,
                HeartbeatError, BeatOnly
  <2>2. CASE UNCHANGED leaseLeft
    BY <2>1, <2>2, <1>same
  <2>3. CASE hb[w] = "touch" /\ Undisturbed(w) /\ TouchRow(w) /\ hb'[w] # hb[w]
    <3>1. pc[w] \in Running
      BY <2>3 DEF BeatsInRuns
    <3>2. \A t \in Tasks : t # task[w] => leaseLeft'[t] = leaseLeft[t]
      BY <2>3 DEF TouchRow
    <3> QED
      BY <2>1, <2>3, <3>1, <3>2, <1>holds DEF Undisturbed
  <2>4. ASSUME Join(w), ~UNCHANGED leaseLeft PROVE hb'[w] = "off"
    BY <2>4 DEF Join, Free, BeatTypes
  <2>5. ASSUME Heartbeat(w), ~UNCHANGED leaseLeft
        PROVE  hb[w] = "touch" /\ Undisturbed(w) /\ TouchRow(w) /\ hb'[w] # hb[w]
    BY <2>5 DEF Heartbeat, HeartbeatTick, HeartbeatRenewed, HeartbeatStops,
                HeartbeatError, BeatTypes
  <2> QED
    BY <1>7, <2>2, <2>3, <2>4, <2>5 DEF Join
<1>8. ASSUME NEW w \in Workers, Crash(w) \/ RequestShutdown(w) \/ Restart(w)
      PROVE  HolderStep(r)
  BY <1>8, <1>same DEF Crash, Free, RequestShutdown, Restart, rowVars
<1>9. ASSUME NEW t \in Tasks, RequestCancel(t) PROVE HolderStep(r)
  BY <1>9, <1>same DEF RequestCancel
<1>10. CASE Tick
  <2>1. Minus(leaseLeft[r], 1) <= leaseLeft[r]
    BY DEF Minus
  <2> QED
    BY <1>10, <2>1 DEF Tick, HolderStep
<1>11. CASE UNCHANGED vars
  BY <1>11, <1>same DEF vars, rowVars
<1>12. {"ackFirst", "ackFinal"} \subseteq Running \ {"join"}
  BY DEF Running
<1> QED
  BY <1>1, <1>2, <1>3, <1>4, <1>5, <1>6, <1>7, <1>8, <1>9, <1>10, <1>11, <1>12
     DEF Next, Work, Execute, Claim, ClaimLost, AckFirst, AckFinal, Retry, Fail

(* Only the run that holds the row's token, or its heartbeat, changes a    *)
(* claimed row; the others can at most claim it once its lease is over.    *)
THEOREM HoldersWriteAlone == Spec => OnlyHolderWrites
<1>1. Init => BeatsInRuns
  BY DEF Init, BeatsInRuns
<1>2. FenceInv => TypeOK
  BY DEF FenceInv
<1>3. TypeOK /\ BeatsInRuns /\ [Next]_vars => [\A t \in Tasks : HolderStep(t)]_vars
  BY HolderSteps
<1>4. Spec => [][\A t \in Tasks : HolderStep(t)]_vars
  BY <1>1, <1>2, <1>3, BeatsStep, Fence, PTL DEF Spec
<1> QED
  BY <1>4 DEF OnlyHolderWrites, HolderStep

-----------------------------------------------------------------------------
(* The lease guard.                                                        *)

(* The timers in numbers.                                                  *)
LEMMA TimerFacts ==
  /\ Lease \in Nat /\ HeartbeatSecs \in Nat /\ HeartbeatSecs >= 1
  /\ HeartbeatSecs < Lease
  /\ RenewalTimeout = Lease - HeartbeatSecs
  /\ \A a, b \in Nat : Minus(a, b) \in Nat /\ Minus(a, b) + b >= a
  /\ \A a, b \in Nat : Older(a, b) \in Nat /\ Older(a, b) <= a + 1
  /\ \A a, b \in Nat : a < b => Older(a, b) = a + 1
BY ConstantsAssumption, TimelyAssumption
   DEF Lease, RenewalTimeout, AtLeastOne, Minus, Older

(* The initial state satisfies the invariant.                              *)
LEMMA GuardInit == Init => GuardInv
BY FenceInit, ConstantsAssumption
   DEF Init, GuardInv, RunIsSafe, WaitIsShort, ClaimedHoldsLease,
       UnstartedIsClean, GuardWithinLease, BodyHoldsRow, Running

(* The runs the guard vouches for.                                         *)
Secure(v) ==
  \/ pc[v] = "claimed"
  \/ pc[v] \in Running /\ GuardOpen(v) /\ (Executable(v) \/ pc[v] = "body")

(* Their token is the row's, and nobody can claim the row.                 *)
LEMMA SecureHolds ==
  ASSUME TypeOK, NEW v \in Workers, RunIsSafe(v), Secure(v)
  PROVE  /\ task[v] \in Tasks /\ pc[v] # "idle"
         /\ procToken[task[v]] = lease[v]
         /\ ~Claimable(task[v])
<1>1. task[v] \in Tasks /\ pc[v] # "idle"
  BY DEF TypeOK, RunTypes, Secure, Running
<1>2. procToken[task[v]] = lease[v] /\ status[task[v]] \in {"processing", "succeeded"}
  BY DEF RunIsSafe, ClaimedHoldsLease, BodyHoldsRow, Secure, Executable
<1>3. status[task[v]] = "processing" => leaseLeft[task[v]] > 0
  <2>0. /\ leaseLeft[task[v]] \in Nat /\ hbAge[v] \in Nat /\ guardAge[v] \in Nat
        /\ Lease \in Nat /\ HeartbeatSecs \in Nat /\ HeartbeatSecs < Lease
        /\ RenewalTimeout = Lease - HeartbeatSecs
    BY <1>1, TimerFacts DEF TypeOK, RowTypes, BeatTypes
  <2>1. CASE pc[v] = "claimed"
    <3>1. hbAge[v] <= HeartbeatSecs /\ leaseLeft[task[v]] + hbAge[v] >= Lease
      BY <2>1 DEF RunIsSafe, ClaimedHoldsLease, WaitIsShort
    <3> QED
      BY <2>0, <3>1
  <2>2. CASE pc[v] # "claimed"
    <3>1. status[task[v]] = "processing" =>
            /\ guardAge[v] < RenewalTimeout
            /\ leaseLeft[task[v]] + guardAge[v] + HeartbeatSecs >= Lease
      BY <1>2, <2>2 DEF RunIsSafe, GuardWithinLease, Secure, Executable, GuardOpen
    <3> QED
      BY <2>0, <3>1
  <2> QED
    BY <2>1, <2>2
<1> QED
  BY <1>1, <1>2, <1>3 DEF Claimable

(* A step that leaves a slot alone.                                        *)
SlotSame(v) ==
  /\ pc'[v] = pc[v] /\ task'[v] = task[v] /\ lease'[v] = lease[v]
  /\ term'[v] = term[v] /\ guardAge'[v] = guardAge[v]
  /\ hb'[v] = hb[v] /\ hbAge'[v] = hbAge[v]

(* A run stays safe through a step that leaves its slot alone, and its row *)
(* while the guard vouches for it.                                         *)
LEMMA Bystander ==
  ASSUME TypeOK, NEW v \in Workers, RunIsSafe(v),
         SlotSame(v),
         Secure(v) => /\ status'[task[v]] = status[task[v]]
                      /\ procToken'[task[v]] = procToken[task[v]]
                      /\ leaseLeft'[task[v]] = leaseLeft[task[v]],
         pc[v] # "idle" /\ Executable(v)' => Executable(v)
  PROVE  RunIsSafe(v)'
<1> USE DEF SlotSame
<1>1. WaitIsShort(v)'
  BY DEF RunIsSafe, WaitIsShort
<1>2. ClaimedHoldsLease(v)'
  BY DEF RunIsSafe, ClaimedHoldsLease, Secure, Executable
<1>3. GuardWithinLease(v)'
  BY DEF RunIsSafe, GuardWithinLease, Secure, Executable, GuardOpen, Running
<1>4. BodyHoldsRow(v)'
  BY DEF RunIsSafe, BodyHoldsRow, Secure, GuardOpen, Running
<1>5. UnstartedIsClean(v)'
  BY DEF RunIsSafe, UnstartedIsClean
<1> QED
  BY <1>1, <1>2, <1>3, <1>4, <1>5 DEF RunIsSafe

(* A claim of another row, or of one nobody is vouched for.                *)
LEMMA ClaimSpares ==
  ASSUME TypeOK, TokensWereClaimed, NEW v \in Workers, RunIsSafe(v),
         NEW t \in Tasks, NEW d, ClaimRow(t, d),
         SlotSame(v)
  PROVE  RunIsSafe(v)'
<1>1. Secure(v) => t # task[v]
  BY SecureHolds DEF ClaimRow
<1>2. Secure(v) => /\ status'[task[v]] = status[task[v]]
                   /\ procToken'[task[v]] = procToken[task[v]]
                   /\ leaseLeft'[task[v]] = leaseLeft[task[v]]
  BY <1>1, SecureHolds DEF ClaimRow, SetStatus, TypeOK, RowTypes
<1>3. ASSUME pc[v] # "idle", Executable(v)' PROVE Executable(v)
  <2>1. task[v] \in Tasks /\ lease[v] \in Nat /\ lease[v] <= procToken[task[v]]
    BY <1>3 DEF TypeOK, RunTypes, TokensWereClaimed
  <2>2. t # task[v]
    BY <1>3, <2>1 DEF SlotSame, Executable, ClaimRow, TypeOK, RowTypes
  <2> QED
    BY <1>3, <2>1, <2>2 DEF SlotSame, Executable, ClaimRow, SetStatus, TypeOK, RowTypes
<1> QED
  BY <1>2, <1>3, Bystander

(* A fenced write of run w cannot touch the row of another run the guard   *)
(* vouches for: their tokens differ.                                       *)
LEMMA FenceSpares ==
  ASSUME TypeOK, TokensAreUnique, NEW v \in Workers, RunIsSafe(v),
         NEW w \in Workers, w # v, pc[w] # "idle", Executable(w),
         \A r \in Tasks \ {task[w]} :
           status'[r] = status[r] /\ leaseLeft'[r] = leaseLeft[r],
         UNCHANGED procToken,
         status'[task[w]] # "processing" \/ UNCHANGED status,
         SlotSame(v)
  PROVE  RunIsSafe(v)'
<1>1. pc[v] # "idle" => task[v] \in Tasks
  BY DEF TypeOK, RunTypes
<1>2. pc[v] # "idle" /\ procToken[task[v]] = lease[v] => task[v] # task[w]
  BY DEF TokensAreUnique, Executable
<1>3. Secure(v) => /\ status'[task[v]] = status[task[v]]
                   /\ procToken'[task[v]] = procToken[task[v]]
                   /\ leaseLeft'[task[v]] = leaseLeft[task[v]]
  BY <1>1, <1>2, SecureHolds
<1>4. ASSUME pc[v] # "idle", Executable(v)' PROVE Executable(v)
  BY <1>1, <1>2, <1>4 DEF Executable, SlotSame
<1> QED
  BY <1>3, <1>4, Bystander

(* A run that goes on after its body is safe: nothing vouches for more     *)
(* than before.                                                            *)
LEMMA Onward ==
  ASSUME TypeOK, NEW v \in Workers, RunIsSafe(v),
         pc[v] \in Running, pc'[v] \in Running \ {"body"},
         task'[v] = task[v], lease'[v] = lease[v], guardAge'[v] = guardAge[v],
         hb'[v] = hb[v], hbAge'[v] = hbAge[v],
         term'[v] = "none" => term[v] = "none",
         procToken'[task[v]] = procToken[task[v]],
         status'[task[v]] = "processing" =>
           /\ status[task[v]] = "processing"
           /\ leaseLeft'[task[v]] = leaseLeft[task[v]]
  PROVE  RunIsSafe(v)'
<1>1. WaitIsShort(v)' /\ ClaimedHoldsLease(v)' /\ UnstartedIsClean(v)' /\ BodyHoldsRow(v)'
  BY DEF RunIsSafe, WaitIsShort, ClaimedHoldsLease, UnstartedIsClean, BodyHoldsRow, Running
<1>2. GuardWithinLease(v)'
  BY DEF RunIsSafe, GuardWithinLease, Executable, GuardOpen
<1> QED
  BY <1>1, <1>2 DEF RunIsSafe

(* A freed slot is safe.                                                   *)
LEMMA FreedIsSafe ==
  ASSUME TypeOK, NEW v \in Workers, Free(v) PROVE RunIsSafe(v)'
<1>1. pc'[v] = "idle" /\ term'[v] = "none" /\ hb'[v] = "off"
  BY DEF Free, TypeOK, RunTypes, BeatTypes
<1> QED
  BY <1>1 DEF RunIsSafe, WaitIsShort, ClaimedHoldsLease, UnstartedIsClean,
              GuardWithinLease, BodyHoldsRow, Running

(* The steps of a run.                                                     *)
RunStep(w) == Execute(w) \/ BodyCommits(w) \/ Heartbeat(w) \/ Crash(w)

(* A row is written under the fence or not at all.                         *)
FencedWrite(w) ==
  \/ UNCHANGED <<status, procToken, leaseLeft>>
  \/ /\ Executable(w)
     /\ \A r \in Tasks \ {task[w]} :
          status'[r] = status[r] /\ leaseLeft'[r] = leaseLeft[r]
     /\ UNCHANGED procToken
     /\ status'[task[w]] # "processing" \/ UNCHANGED status

(* Every step of a run writes its row under the fence.                     *)
LEMMA RunStepIsFenced ==
  ASSUME TypeOK, NEW w \in Workers, RunStep(w)
  PROVE  pc[w] # "idle" /\ FencedWrite(w)
<1>0. (hb[w] # "off" => pc[w] # "idle") /\ (pc[w] # "idle" => task[w] \in Tasks)
  BY DEF TypeOK, RunTypes, BeatTypes
<1> USE DEF FencedWrite
<1>1. CASE Begin(w) \/ BodyReturns(w) \/ Confirm(w)
  BY <1>1 DEF Begin, BodyReturns, Confirm, Unaffected, rowVars
<1>2. ASSUME NEW l, pc[w] \in {"ackFirst", "ackFinal"}, Acknowledge(w, l)
      PROVE  pc[w] # "idle" /\ FencedWrite(w)
  BY <1>0, <1>2 DEF Acknowledge, Unaffected, CancelDue, SetStatus, TypeOK, RowTypes
<1>3. CASE Release(w)
  BY <1>0, <1>3 DEF Release, ReleasedRow, Undisturbed, Unaffected, SetStatus, TypeOK, RowTypes
<1>4. ASSUME NEW s \in {"retry", "failed"}, NEW d, NEW o,
             pc[w] \in {"retry", "fail"}, Persist(w, s, d, o)
      PROVE  pc[w] # "idle" /\ FencedWrite(w)
  BY <1>0, <1>4 DEF Persist, OutcomeRow, Undisturbed, Unaffected, SetStatus, TypeOK, RowTypes
<1>5. CASE Join(w) \/ Crash(w)
  BY <1>0, <1>5 DEF Join, Crash, Free, TouchRow, Undisturbed, TypeOK, RowTypes
<1>6. CASE BodyCommits(w)
  BY <1>0, <1>6 DEF BodyCommits, SetStatus, TypeOK, RowTypes
<1>7. CASE Heartbeat(w)
  BY <1>0, <1>7 DEF Heartbeat, HeartbeatTick, HeartbeatRenewed, HeartbeatStops,
                    HeartbeatError, BeatOnly, TouchRow, Undisturbed, TypeOK, RowTypes
<1> QED
  BY <1>1, <1>2, <1>3, <1>4, <1>5, <1>6, <1>7
     DEF RunStep, Execute, AckFirst, AckFinal, Retry, Fail

(* Every step of a run leaves the other slots alone.                       *)
LEMMA RunStepIsLocal ==
  ASSUME TypeOK, NEW w \in Workers, NEW v \in Workers, v # w, RunStep(w)
  PROVE  SlotSame(v)
<1> USE DEF SlotSame, TypeOK, RunTypes, BeatTypes
<1>1. CASE Begin(w) \/ BodyReturns(w)
  BY <1>1 DEF Begin, BodyReturns
<1>2. ASSUME Unaffected(w), (\E o : Settle(w, o)) \/ (\E l : GoTo(w, l)) PROVE SlotSame(v)
  BY <1>2 DEF Unaffected, Settle, GoTo, beatVars
<1>3. CASE AckFirst(w) \/ AckFinal(w) \/ Confirm(w) \/ Release(w) \/ Retry(w) \/ Fail(w)
  <2>1. Unaffected(w)
    BY <1>3 DEF AckFirst, AckFinal, Confirm, Release, Retry, Fail, Acknowledge, Persist
  <2>2. (\E o : Settle(w, o)) \/ (\E l : GoTo(w, l))
    BY <1>3 DEF AckFirst, AckFinal, Confirm, Release, Retry, Fail, Acknowledge, Persist
  <2> QED
    BY <1>2, <2>1, <2>2
<1>5. CASE Join(w) \/ Crash(w)
  BY <1>5 DEF Join, Crash, Free
<1>6. CASE BodyCommits(w)
  BY <1>6 DEF BodyCommits, runVars, beatVars
<1>7. CASE Heartbeat(w)
  BY <1>7 DEF Heartbeat, HeartbeatTick, HeartbeatRenewed, HeartbeatStops,
              HeartbeatError, BeatOnly, runVars
<1> QED
  BY <1>1, <1>3, <1>5, <1>6, <1>7 DEF RunStep, Execute

-----------------------------------------------------------------------------
(* Another run's step spares a safe run.                                   *)
LEMMA OtherRunSpares ==
  ASSUME TypeOK, TokensAreUnique, NEW v \in Workers, RunIsSafe(v),
         NEW w \in Workers, v # w, RunStep(w)
  PROVE  RunIsSafe(v)'
<1>1. SlotSame(v) /\ pc[w] # "idle" /\ FencedWrite(w)
  BY RunStepIsLocal, RunStepIsFenced
<1>2. CASE UNCHANGED <<status, procToken, leaseLeft>>
  <2>1. Executable(v)' => Executable(v)
    BY <1>1, <1>2 DEF Executable, SlotSame
  <2> QED
    BY <1>1, <1>2, <2>1, Bystander
<1>3. CASE ~UNCHANGED <<status, procToken, leaseLeft>>
  <2>1. /\ Executable(w)
        /\ \A r \in Tasks \ {task[w]} :
             status'[r] = status[r] /\ leaseLeft'[r] = leaseLeft[r]
        /\ UNCHANGED procToken
        /\ status'[task[w]] # "processing" \/ UNCHANGED status
    BY <1>1, <1>3 DEF FencedWrite
  <2> QED
    BY <1>1, <2>1, FenceSpares
<1> QED
  BY <1>2, <1>3

(* A run's own step keeps it safe.                                         *)
LEMMA OwnStepSafe ==
  ASSUME TypeOK, NEW v \in Workers, RunIsSafe(v), RunStep(v)
  PROVE  RunIsSafe(v)'
<1>run. pc[v] # "idle" /\ task[v] \in Tasks
  BY RunStepIsFenced DEF TypeOK, RunTypes
<1>num. /\ Lease \in Nat /\ HeartbeatSecs \in Nat /\ HeartbeatSecs >= 1
        /\ HeartbeatSecs < Lease /\ RenewalTimeout = Lease - HeartbeatSecs
        /\ guardAge[v] \in Nat /\ hbAge[v] \in Nat /\ leaseLeft[task[v]] \in Nat
        /\ Minus(Lease, hbAge[v]) \in Nat
        /\ Minus(Lease, hbAge[v]) + hbAge[v] >= Lease
  <2>1. guardAge[v] \in Nat /\ hbAge[v] \in Nat /\ leaseLeft[task[v]] \in Nat
    BY <1>run DEF TypeOK, RowTypes, BeatTypes
  <2> QED
    BY <2>1, TimerFacts
<1>1. CASE Begin(v)
  <2>1. /\ pc[v] = "claimed" /\ pc'[v] \in {"ackFinal", "ackFirst", "body"}
        /\ task'[v] = task[v] /\ lease'[v] = lease[v]
        /\ guardAge'[v] = 0 /\ hb'[v] = "wait" /\ UNCHANGED rowVars
    BY <1>1 DEF Begin, TypeOK, RunTypes, BeatTypes
  <2>2. /\ Executable(v) /\ leaseLeft[task[v]] + hbAge[v] >= Lease
        /\ hbAge[v] <= HeartbeatSecs
    BY <2>1 DEF RunIsSafe, ClaimedHoldsLease, WaitIsShort
  <2>3. leaseLeft[task[v]] + 0 + HeartbeatSecs >= Lease
    BY <2>2, <1>num
  <2>4. WaitIsShort(v)' /\ ClaimedHoldsLease(v)' /\ UnstartedIsClean(v)'
    BY <2>1 DEF WaitIsShort, ClaimedHoldsLease, UnstartedIsClean
  <2>5. GuardWithinLease(v)'
    BY <2>1, <2>3 DEF GuardWithinLease, rowVars
  <2>6. BodyHoldsRow(v)'
    BY <2>1, <2>2 DEF BodyHoldsRow, Executable, rowVars
  <2> QED
    BY <2>4, <2>5, <2>6 DEF RunIsSafe
<1>2. CASE BodyReturns(v)
  <2>1. /\ pc[v] = "body" /\ pc'[v] = "ackFirst"
        /\ task'[v] = task[v] /\ lease'[v] = lease[v]
        /\ guardAge'[v] = guardAge[v] /\ hb'[v] = hb[v] /\ hbAge'[v] = hbAge[v]
        /\ UNCHANGED rowVars
    BY <1>2 DEF BodyReturns, TypeOK, RunTypes
  <2>2. term'[v] = "none" => term[v] = "none"
    BY <1>2 DEF BodyReturns, TypeOK, BeatTypes
  <2> QED
    BY <2>1, <2>2, Onward DEF Running, rowVars
<1>3. ASSUME Unaffected(v), pc[v] \in Running,
             (\E o : Settle(v, o)) \/ (\E l \in Running \ {"body"} : GoTo(v, l)),
             status'[task[v]] = "processing" =>
               /\ status[task[v]] = "processing"
               /\ leaseLeft'[task[v]] = leaseLeft[task[v]]
      PROVE  RunIsSafe(v)'
  <2>1. /\ task'[v] = task[v] /\ lease'[v] = lease[v] /\ term'[v] = term[v]
        /\ guardAge'[v] = guardAge[v] /\ hb'[v] = hb[v] /\ hbAge'[v] = hbAge[v]
        /\ procToken'[task[v]] = procToken[task[v]]
    BY <1>3 DEF Unaffected, beatVars
  <2>2. pc'[v] \in Running \ {"body"}
    BY <1>3 DEF Settle, GoTo, TypeOK, RunTypes, Running
  <2> QED
    BY <1>3, <2>1, <2>2, Onward
<1>4. ASSUME NEW l \in Running \ {"body"}, pc[v] \in {"ackFirst", "ackFinal"},
             Acknowledge(v, l)
      PROVE  RunIsSafe(v)'
  <2>1. Unaffected(v) /\ ((\E o : Settle(v, o)) \/ GoTo(v, l))
    BY <1>4 DEF Acknowledge
  <2>2. /\ status'[task[v]] = "processing" => status[task[v]] = "processing"
        /\ leaseLeft'[task[v]] = leaseLeft[task[v]]
    BY <1>run, <1>4 DEF Acknowledge, SetStatus, TypeOK, RowTypes
  <2> QED
    BY <1>3, <1>4, <2>1, <2>2 DEF Running
<1>5. AfterAck(v) \in Running \ {"body"} /\ "join" \in Running \ {"body"}
  BY DEF AfterAck, Running
<1>6. CASE Confirm(v)
  <2>1. Unaffected(v) /\ ((\E o : Settle(v, o)) \/ GoTo(v, "ackFinal"))
    BY <1>6 DEF Confirm
  <2> QED
    BY <1>3, <1>6, <2>1 DEF Confirm, Running
<1>7. CASE Release(v)
  <2>1. Unaffected(v) /\ ((\E o : Settle(v, o)) \/ GoTo(v, "ackFinal"))
    BY <1>7 DEF Release
  <2>2. status'[task[v]] = "processing" =>
          status[task[v]] = "processing" /\ leaseLeft'[task[v]] = leaseLeft[task[v]]
    BY <1>run, <1>7 DEF Release, ReleasedRow, SetStatus, TypeOK, RowTypes
  <2> QED
    BY <1>3, <1>7, <2>1, <2>2 DEF Release, Running
<1>8. ASSUME NEW s \in {"retry", "failed"}, NEW d, NEW o,
             pc[v] \in {"retry", "fail"}, Persist(v, s, d, o)
      PROVE  RunIsSafe(v)'
  <2>1. Unaffected(v) /\ ((\E oo : Settle(v, oo)) \/ GoTo(v, "ackFinal"))
    BY <1>8 DEF Persist
  <2>2. status'[task[v]] = "processing" =>
          status[task[v]] = "processing" /\ leaseLeft'[task[v]] = leaseLeft[task[v]]
    BY <1>run, <1>8 DEF Persist, OutcomeRow, SetStatus, TypeOK, RowTypes
  <2> QED
    BY <1>3, <1>8, <2>1, <2>2 DEF Running
<1>9. CASE Join(v) \/ Crash(v)
  BY <1>9, FreedIsSafe DEF Join, Crash
<1>10. CASE BodyCommits(v)
  <2>1. /\ pc[v] = "body" /\ status'[task[v]] = "succeeded"
        /\ UNCHANGED <<procToken, leaseLeft, runVars, beatVars>>
    BY <1>run, <1>10 DEF BodyCommits, SetStatus, TypeOK, RowTypes
  <2> QED
    BY <2>1 DEF RunIsSafe, WaitIsShort, ClaimedHoldsLease, UnstartedIsClean,
                GuardWithinLease, BodyHoldsRow, GuardOpen, Executable, runVars, beatVars
<1>11. CASE Heartbeat(v)
  <2>0. /\ hb[v] \in {"wait", "touch"} /\ pc[v] \in Running
        /\ UNCHANGED <<status, procToken, runVars>>
    <3>1. hb[v] \in {"wait", "touch"} /\ UNCHANGED <<status, procToken, runVars>>
      BY <1>11 DEF Heartbeat, HeartbeatTick, HeartbeatRenewed, HeartbeatStops,
                   HeartbeatError, BeatOnly
    <3>2. pc[v] \notin {"idle", "claimed"} /\ pc[v] \in Labels
      BY <3>1 DEF RunIsSafe, UnstartedIsClean, TypeOK, RunTypes
    <3> QED
      BY <3>1, <3>2 DEF Labels
  <2>1. hbAge[v] <= HeartbeatSecs \/ hb[v] # "touch"
    BY DEF RunIsSafe, WaitIsShort
  <2>2. ClaimedHoldsLease(v)' /\ UnstartedIsClean(v)'
    BY <2>0 DEF ClaimedHoldsLease, UnstartedIsClean, runVars, Running
  <2>3. CASE HeartbeatTick(v)
    <3>1. /\ hbAge'[v] = 0 /\ UNCHANGED <<leaseLeft, guardAge, term>>
      BY <2>3 DEF HeartbeatTick, TypeOK, BeatTypes
    <3> QED
      BY <2>0, <2>2, <3>1, <1>num
         DEF RunIsSafe, WaitIsShort, GuardWithinLease, BodyHoldsRow, GuardOpen,
             Executable, runVars
  <2>4. CASE HeartbeatRenewed(v)
    <3>1. /\ hb'[v] = "wait" /\ leaseLeft'[task[v]] = Minus(Lease, hbAge[v])
          /\ Executable(v) /\ term'[v] = term[v]
          /\ term[v] = "none" => guardAge'[v] = 0
          /\ hbAge[v] <= HeartbeatSecs
      BY <1>run, <2>1, <2>4 DEF HeartbeatRenewed, TouchRow, Undisturbed, TypeOK, RowTypes, BeatTypes
    <3>2. Minus(Lease, hbAge[v]) + 0 + HeartbeatSecs >= Lease
      BY <3>1, <1>num
    <3>3. GuardWithinLease(v)'
      BY <2>0, <3>1, <3>2 DEF GuardWithinLease, GuardOpen, runVars
    <3> QED
      BY <2>0, <2>2, <3>1, <3>3
         DEF RunIsSafe, WaitIsShort, BodyHoldsRow, Executable, runVars, Running
  <2>5. CASE HeartbeatStops(v)
    <3>1. term'[v] # "none" /\ hb'[v] = "exited"
      BY <2>5 DEF HeartbeatStops, TypeOK, BeatTypes
    <3> QED
      BY <2>0, <2>2, <3>1
         DEF RunIsSafe, WaitIsShort, GuardWithinLease, BodyHoldsRow, GuardOpen,
             runVars, Running
  <2>6. CASE HeartbeatError(v)
    <3>1. /\ hb'[v] \in {"wait", "exited"} /\ hb[v] = "touch"
          /\ guardAge'[v] = guardAge[v]
          /\ term'[v] = "none" => term[v] = "none"
          /\ \/ leaseLeft'[task[v]] = leaseLeft[task[v]]
             \/ leaseLeft'[task[v]] = Minus(Lease, hbAge[v])
      BY <1>run, <2>6 DEF HeartbeatError, TouchRow, EnsureActive, TypeOK, RowTypes, BeatTypes
    <3>2. Minus(Lease, hbAge[v]) + guardAge[v] + HeartbeatSecs >= Lease
      BY <2>1, <3>1, <1>num
    <3>3. GuardOpen(v)' => GuardOpen(v)
      BY <3>1 DEF GuardOpen
    <3>4. GuardWithinLease(v)'
      BY <2>0, <3>1, <3>2, <3>3 DEF RunIsSafe, GuardWithinLease, Executable, runVars
    <3> QED
      BY <2>0, <2>2, <3>1, <3>3, <3>4
         DEF RunIsSafe, WaitIsShort, BodyHoldsRow, runVars, Running
  <2> QED
    BY <1>11, <2>3, <2>4, <2>5, <2>6 DEF Heartbeat
<1>12. CASE AckFirst(v) \/ AckFinal(v)
  BY <1>12, <1>4, <1>5 DEF AckFirst, AckFinal
<1>13. CASE Retry(v) \/ Fail(v)
  BY <1>13, <1>8 DEF Retry, Fail
<1> QED
  BY <1>1, <1>2, <1>6, <1>7, <1>9, <1>10, <1>11, <1>12, <1>13
     DEF RunStep, Execute

(* Time passes for a safe run only while nothing is overdue.               *)
LEMMA TickSafe ==
  ASSUME TypeOK, NEW v \in Workers, RunIsSafe(v), Prompt, Tick
  PROVE  RunIsSafe(v)'
<1>same. UNCHANGED <<status, procToken, runVars, term, hb>>
  BY DEF Tick
<1>num. /\ Lease \in Nat /\ HeartbeatSecs \in Nat /\ HeartbeatSecs >= 1
        /\ HeartbeatSecs < Lease /\ RenewalTimeout = Lease - HeartbeatSecs
        /\ guardAge[v] \in Nat /\ hbAge[v] \in Nat
  BY TimerFacts DEF TypeOK, BeatTypes
<1>1. ASSUME pc[v] = "claimed" \/ hb[v] = "touch"
      PROVE  hbAge'[v] = hbAge[v] + 1 /\ hbAge[v] < HeartbeatSecs
  <2>1. hbAge[v] < HeartbeatSecs /\ hbAge'[v] = Older(hbAge[v], Lease)
    BY <1>1 DEF Prompt, Tick
  <2> QED
    BY <2>1, <1>num DEF Older
<1>2. WaitIsShort(v)'
  BY <1>1, <1>same, <1>num DEF WaitIsShort, runVars
<1>3. ASSUME task[v] \in Tasks
      PROVE  /\ leaseLeft[task[v]] \in Nat /\ leaseLeft'[task[v]] \in Nat
             /\ leaseLeft'[task[v]] + 1 >= leaseLeft[task[v]]
  <2>1. leaseLeft[task[v]] \in Nat /\ leaseLeft'[task[v]] = Minus(leaseLeft[task[v]], 1)
    BY <1>3 DEF Tick, TypeOK, RowTypes
  <2> QED
    BY <2>1, TimerFacts
<1>4. ClaimedHoldsLease(v)'
  <2> SUFFICES ASSUME pc[v] = "claimed"
               PROVE  Executable(v)' /\ leaseLeft'[task[v]] + hbAge'[v] >= Lease
    BY <1>same DEF ClaimedHoldsLease, runVars
  <2>1. Executable(v) /\ leaseLeft[task[v]] + hbAge[v] >= Lease
    BY DEF RunIsSafe, ClaimedHoldsLease
  <2>2. task[v] \in Tasks
    BY DEF TypeOK, RunTypes
  <2>3. leaseLeft'[task[v]] + hbAge'[v] >= Lease
    BY <1>1, <1>3, <2>1, <2>2, <1>num
  <2> QED
    BY <1>same, <2>1, <2>3 DEF Executable, runVars
<1>5. ASSUME pc[v] \in Running, GuardOpen(v)'
      PROVE  GuardOpen(v) /\ guardAge'[v] = guardAge[v] + 1
  <2>1. term[v] = "none" /\ guardAge'[v] < RenewalTimeout
    BY <1>5, <1>same DEF GuardOpen
  <2>2. guardAge'[v] = Older(guardAge[v], RenewalTimeout)
    BY <1>5, <2>1 DEF Tick
  <2>3. guardAge[v] < RenewalTimeout /\ guardAge'[v] = guardAge[v] + 1
    BY <2>1, <2>2, <1>num DEF Older
  <2> QED
    BY <2>1, <2>3 DEF GuardOpen
<1>6. GuardWithinLease(v)'
  <2> SUFFICES ASSUME pc[v] \in Running, GuardOpen(v)', Executable(v)
               PROVE  leaseLeft'[task[v]] + guardAge'[v] + HeartbeatSecs >= Lease
    BY <1>same DEF GuardWithinLease, Executable, runVars
  <2>1. leaseLeft[task[v]] + guardAge[v] + HeartbeatSecs >= Lease
    BY <1>5 DEF RunIsSafe, GuardWithinLease
  <2>2. task[v] \in Tasks
    BY DEF TypeOK, RunTypes, Running
  <2> QED
    BY <1>3, <1>5, <2>1, <2>2, <1>num
<1>7. BodyHoldsRow(v)'
  BY <1>5, <1>same DEF RunIsSafe, BodyHoldsRow, Running, runVars
<1>8. UnstartedIsClean(v)'
  BY <1>same DEF RunIsSafe, UnstartedIsClean, runVars
<1> QED
  BY <1>2, <1>4, <1>6, <1>7, <1>8 DEF RunIsSafe

(* Every step keeps every run safe.                                        *)
LEMMA RunStaysSafe ==
  ASSUME GuardInv, [TimelyNext]_vars, NEW v \in Workers
  PROVE  RunIsSafe(v)'
<1>inv. TypeOK /\ TokensAreUnique /\ TokensWereClaimed /\ RunIsSafe(v)
  BY DEF GuardInv, FenceInv
<1>1. ASSUME NEW w \in Workers, NEW t \in Tasks, Claim(w, t) PROVE RunIsSafe(v)'
  <2>1. PICK d \in 0..ClaimDelay : ClaimRow(t, d) /\ hbAge' = [hbAge EXCEPT ![w] = d]
    BY <1>1 DEF Claim
  <2>2. CASE v # w
    <3>1. SlotSame(v)
      BY <1>1, <2>1, <2>2, <1>inv DEF Claim, SlotSame, TypeOK, RunTypes, BeatTypes
    <3> QED
      BY <2>1, <3>1, <1>inv, ClaimSpares
  <2>3. CASE v = w
    <3>1. /\ pc'[v] = "claimed" /\ task'[v] = t /\ hbAge'[v] = d
          /\ lease'[v] = procToken[t] + 1 /\ term'[v] = term[v] /\ hb'[v] = hb[v]
      BY <1>1, <2>1, <2>3, <1>inv DEF Claim, TypeOK, RunTypes, BeatTypes
    <3>2. /\ status'[t] = "processing" /\ procToken'[t] = procToken[t] + 1
          /\ leaseLeft'[t] = Minus(Lease, d)
      BY <2>1, <1>inv DEF ClaimRow, SetStatus, TypeOK, RowTypes
    <3>3. Minus(Lease, d) + d >= Lease /\ d <= HeartbeatSecs
      BY TimerFacts, TimelyAssumption, ConstantsAssumption
    <3>4. term[v] = "none" /\ hb[v] = "off"
      BY <1>1, <2>3, <1>inv DEF Claim, RunIsSafe, UnstartedIsClean
    <3> QED
      BY <3>1, <3>2, <3>3, <3>4
         DEF RunIsSafe, WaitIsShort, ClaimedHoldsLease, UnstartedIsClean,
             GuardWithinLease, BodyHoldsRow, Executable, Running
  <2> QED
    BY <2>2, <2>3
<1>2. ASSUME NEW t \in Tasks, ClaimLost(t) PROVE RunIsSafe(v)'
  <2>1. ClaimRow(t, 0) /\ SlotSame(v)
    BY <1>2 DEF ClaimLost, SlotSame, runVars, beatVars
  <2> QED
    BY <2>1, <1>inv, ClaimSpares
<1>3. ASSUME NEW w \in Workers, RunStep(w) PROVE RunIsSafe(v)'
  BY <1>3, <1>inv, OwnStepSafe, OtherRunSpares
<1>4. ASSUME UNCHANGED <<status, procToken, leaseLeft, runVars, beatVars>>
      PROVE  RunIsSafe(v)'
  <2>1. SlotSame(v) /\ (Executable(v)' => Executable(v))
    BY <1>4 DEF SlotSame, Executable, runVars, beatVars
  <2> QED
    BY <1>4, <2>1, <1>inv, Bystander
<1>5. ASSUME NEW w \in Workers, RequestShutdown(w) \/ Restart(w) PROVE RunIsSafe(v)'
  BY <1>4, <1>5 DEF RequestShutdown, Restart, rowVars
<1>6. ASSUME NEW t \in Tasks, RequestCancel(t) PROVE RunIsSafe(v)'
  BY <1>4, <1>6 DEF RequestCancel
<1>7. CASE Prompt /\ Tick
  BY <1>7, <1>inv, TickSafe
<1>8. CASE UNCHANGED vars
  BY <1>4, <1>8 DEF vars, rowVars
<1> QED
  BY <1>1, <1>2, <1>3, <1>5, <1>6, <1>7, <1>8 DEF TimelyNext, Work, RunStep

(* Every step preserves the invariant.                                     *)
LEMMA GuardStep == GuardInv /\ [TimelyNext]_vars => GuardInv'
BY FenceStep, RunStaysSafe DEF GuardInv, TimelyNext, Next

(* While claims and heartbeats are prompt, ensure_active succeeds only for *)
(* a body whose token is the row's: its lease is still safe for writes.    *)
THEOREM GuardVouchesForLease == TimelySpec => []ActiveGuardHoldsLease
<1>1. GuardInv => ActiveGuardHoldsLease
  <2>1. ASSUME NEW w \in Workers, EnsureActive(w) = "none", BeatTypes PROVE GuardOpen(w)
    BY <2>1, TimerFacts DEF EnsureActive, GuardOpen, BeatTypes
  <2> QED
    BY <2>1 DEF GuardInv, FenceInv, TypeOK, RunIsSafe, BodyHoldsRow, ActiveGuardHoldsLease
<1> QED
  BY <1>1, GuardInit, GuardStep, PTL DEF TimelySpec

-----------------------------------------------------------------------------
(* The run that also has scheduled tasks (MCTasks).  ScheduledTaskProofs   *)
(* is about any runtimes; here are its invariants for those of the run.    *)
ScheduleProofs == INSTANCE ScheduledTaskProofs WITH pc <- at, faults <- misses

(* Its assumptions are those of the run.                                   *)
LEMMA ScheduleConstants ==
  /\ ScheduleProofs!DurationsAssumption /\ ScheduleProofs!NoOwnerAssumption
  /\ ScheduleProofs!NoRowAssumption
BY ConstantsAssumption, ScheduleAssumption, NoRowAssumption
   DEF ScheduleProofs!DurationsAssumption, ScheduleProofs!NoOwnerAssumption,
       ScheduleProofs!NoRowAssumption, Schedule!Rows, ScheduleProofs!Rows

(* What is proved of scheduled tasks is about those of the run.            *)
LEMMA ScheduleIsCovered ==
  /\ Schedule!Init => ScheduleProofs!Init
  /\ Schedule!Step => ScheduleProofs!Step
  /\ Schedule!TimelyTick => ScheduleProofs!TimelyTick
  /\ UNCHANGED scheduleVars => UNCHANGED ScheduleProofs!vars
  /\ ScheduleProofs!OneBodyAtATime => Schedule!OneBodyAtATime
  /\ ScheduleProofs!FiringRecovers => Schedule!FiringRecovers
<1>1. Schedule!Init => ScheduleProofs!Init
  BY DEF Schedule!NotShut, ScheduleProofs!NotShut, Schedule!history,
      ScheduleProofs!history, Schedule!Init, ScheduleProofs!Init
<1>2. Schedule!Step => ScheduleProofs!Step
  BY ZenonT(30) DEF Schedule!Sleep, ScheduleProofs!Sleep, Schedule!RenewInterval,
      ScheduleProofs!RenewInterval, Schedule!NotShut, ScheduleProofs!NotShut,
      Schedule!workData, ScheduleProofs!workData, Schedule!workVars,
      ScheduleProofs!workVars, Schedule!renVars, ScheduleProofs!renVars,
      Schedule!history, ScheduleProofs!history, Schedule!world, ScheduleProofs!world,
      Schedule!Down, ScheduleProofs!Down, Schedule!Ensuring, ScheduleProofs!Ensuring,
      Schedule!DbAwaits, ScheduleProofs!DbAwaits, Schedule!Clock, ScheduleProofs!Clock,
      Schedule!Cancelled, ScheduleProofs!Cancelled, Schedule!EnsuredRow,
      ScheduleProofs!EnsuredRow, Schedule!ClaimFresh, ScheduleProofs!ClaimFresh,
      Schedule!Due, ScheduleProofs!Due, Schedule!ClaimMatches,
      ScheduleProofs!ClaimMatches, Schedule!ClaimedRow, ScheduleProofs!ClaimedRow,
      Schedule!Owns, ScheduleProofs!Owns, Schedule!RenewedRow,
      ScheduleProofs!RenewedRow, Schedule!NextRun, ScheduleProofs!NextRun,
      Schedule!Completes, ScheduleProofs!Completes, Schedule!CompletedRow,
      ScheduleProofs!CompletedRow, Schedule!CompletedFirings,
      ScheduleProofs!CompletedFirings, Schedule!Goto, ScheduleProofs!Goto,
      Schedule!Return, ScheduleProofs!Return, Schedule!RenewalOff,
      ScheduleProofs!RenewalOff, Schedule!Fault, ScheduleProofs!Fault, Schedule!Wake,
      ScheduleProofs!Wake, Schedule!LeaveLoop, ScheduleProofs!LeaveLoop,
      Schedule!Ensure, ScheduleProofs!Ensure, Schedule!EnsureFails,
      ScheduleProofs!EnsureFails, Schedule!Refresh, ScheduleProofs!Refresh,
      Schedule!Rename, ScheduleProofs!Rename, Schedule!Reread, ScheduleProofs!Reread,
      Schedule!Find, ScheduleProofs!Find, Schedule!Claim, ScheduleProofs!Claim,
      Schedule!LoseClaim, ScheduleProofs!LoseClaim, Schedule!BodyReturns,
      ScheduleProofs!BodyReturns, Schedule!Record, ScheduleProofs!Record,
      Schedule!RecordPanics, ScheduleProofs!RecordPanics, Schedule!Complete,
      ScheduleProofs!Complete, Schedule!RenewTick, ScheduleProofs!RenewTick,
      Schedule!Renew, ScheduleProofs!Renew, Schedule!RenewFails,
      ScheduleProofs!RenewFails, Schedule!RenewStops, ScheduleProofs!RenewStops,
      Schedule!PendingRow, ScheduleProofs!PendingRow, Schedule!LoseStatement,
      ScheduleProofs!LoseStatement, Schedule!StatementFails,
      ScheduleProofs!StatementFails, Schedule!Crash, ScheduleProofs!Crash,
      Schedule!Shutdown, ScheduleProofs!Shutdown, Schedule!Abort, ScheduleProofs!Abort,
      Schedule!Restart, ScheduleProofs!Restart, Schedule!RunnerStep,
      ScheduleProofs!RunnerStep, Schedule!Step, ScheduleProofs!Step
<1>3. Schedule!TimelyTick => ScheduleProofs!TimelyTick
  BY ZenonT(30) DEF Schedule!Sleep, ScheduleProofs!Sleep, Schedule!NotShut,
      ScheduleProofs!NotShut, Schedule!workVars, ScheduleProofs!workVars,
      Schedule!renVars, ScheduleProofs!renVars, Schedule!history,
      ScheduleProofs!history, Schedule!world, ScheduleProofs!world, Schedule!Down,
      ScheduleProofs!Down, Schedule!Ensuring, ScheduleProofs!Ensuring,
      Schedule!DbAwaits, ScheduleProofs!DbAwaits, Schedule!Clock, ScheduleProofs!Clock,
      Schedule!Cancelled, ScheduleProofs!Cancelled, Schedule!Tick, ScheduleProofs!Tick,
      Schedule!OnTime, ScheduleProofs!OnTime, Schedule!TimelyTick,
      ScheduleProofs!TimelyTick
<1>4. UNCHANGED scheduleVars => UNCHANGED ScheduleProofs!vars
  BY DEF scheduleVars, ScheduleProofs!vars
<1>5. ScheduleProofs!OneBodyAtATime => Schedule!OneBodyAtATime
  BY DEF Schedule!OneBodyAtATime, ScheduleProofs!OneBodyAtATime
<1>6. ScheduleProofs!FiringRecovers => Schedule!FiringRecovers
  BY DEF Schedule!Sleep, ScheduleProofs!Sleep, Schedule!LookAgain,
      ScheduleProofs!LookAgain, Schedule!FiringRecovers, ScheduleProofs!FiringRecovers,
      Schedule!Cardinality, ScheduleProofs!Cardinality
<1> QED
  BY <1>1, <1>2, <1>3, <1>4, <1>5, <1>6

(* A step of the run is one of its schedule, or leaves it as it is.        *)
LEMMA StepOfSchedule ==
  ASSUME [NextOfPart]_allVars, part' = "schedule"
  PROVE  part = "schedule" /\ [ScheduleProofs!Step \/ ScheduleProofs!TimelyTick]_(ScheduleProofs!vars)
<1>1. CASE InExecution(TimelyNext)
  BY <1>1 DEF InExecution
<1>2. CASE InSchedule(Schedule!Step \/ Schedule!TimelyTick)
  BY <1>2, ScheduleIsCovered DEF InSchedule
<1>3. CASE InSchedule(now = MaxTime /\ UNCHANGED scheduleVars)
  BY <1>3, ScheduleIsCovered DEF InSchedule
<1>4. CASE UNCHANGED allVars
  BY <1>4, ScheduleIsCovered DEF allVars
<1> QED
  BY <1>1, <1>2, <1>3, <1>4 DEF NextOfPart

(* Two runtimes never run the body of a scheduled task at the same time:   *)
(* the renewals keep its claim from the others, when nothing is late and   *)
(* the TTL covers the renewals that may be lost, across crashes, failed    *)
(* statements, takeovers, shutdowns and restarts                           *)
(* (run_scheduled_claim_renewal_loop, claim_due).                          *)
THEOREM ScheduledBodiesAreExclusive ==
  ASSUME ScheduleProofs!TTLCoversLostRenewals
  PROVE  SpecOfPart => []OneBodyAtATime
<1> DEFINE Inv == part = "schedule" => ScheduleProofs!BodyInv
<1>1. InitOfPart => Inv
  BY ScheduleConstants, ScheduleIsCovered, ScheduleProofs!BodyInvHolds DEF InitOfPart
<1>2. Inv /\ [NextOfPart]_allVars => Inv'
  BY ScheduleConstants, StepOfSchedule, ScheduleProofs!BodyInvHolds
<1>3. Inv => OneBodyAtATime
  BY ScheduleConstants, ScheduleIsCovered, ScheduleProofs!BodyInvHolds DEF OneBodyAtATime
<1> QED
  BY <1>1, <1>2, <1>3, PTL DEF SpecOfPart

(* A firing that is due, and whose last claim has run out, is taken in     *)
(* hand within LookAgain, under the same conditions and as long as one     *)
(* runtime met neither a fault nor a shutdown: no failed statement, crash  *)
(* or abort leaves the row in a state from which no runtime goes on        *)
(* (claim_due, run_scheduled_periodic_task).                               *)
THEOREM ScheduledFiringsRecover ==
  ASSUME ScheduleProofs!TTLCoversLostRenewals
  PROVE  SpecOfPart => []FiringRecovers
<1> DEFINE Inv == part = "schedule" => ScheduleProofs!RecoverInv
<1>1. InitOfPart => Inv
  BY ScheduleConstants, ScheduleIsCovered, ScheduleProofs!RecoverInvHolds DEF InitOfPart
<1>2. Inv /\ [NextOfPart]_allVars => Inv'
  BY ScheduleConstants, StepOfSchedule, ScheduleProofs!RecoverInvHolds
<1>3. Inv => FiringRecovers
  BY ScheduleConstants, ScheduleIsCovered, ScheduleProofs!RecoverInvHolds DEF FiringRecovers
<1> QED
  BY <1>1, <1>2, <1>3, PTL DEF SpecOfPart
=============================================================================
