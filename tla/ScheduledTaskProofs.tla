------------------------- MODULE ScheduledTaskProofs -------------------------
(***************************************************************************)
(* What holds of the scheduled task for every number of runtimes, every    *)
(* interval, TTL, grace period and skew, and every number of faults and    *)
(* shutdowns: the schedule only advances, past firings that were claimed,  *)
(* run, recorded and completed, and none of them is started again.  While  *)
(* the TTL covers the renewals that may be lost, one body runs at a time,  *)
(* and a firing that is due is taken in hand before long.                  *)
(***************************************************************************)
EXTENDS ScheduledTask, FiniteSetTheorems, TLAPS

(* The periods are natural numbers.                                        *)
LEMMA PeriodTypes == Sleep \in Nat /\ RenewInterval \in Nat
BY DurationsAssumption DEF Sleep, RenewInterval

(* A record with the four columns is a row, and is not the missing row.    *)
LEMMA RowType ==
  ASSUME NEW n \in Nat, NEW o \in Workers \cup {NoOwner}, NEW e \in Nat, NEW c \in Nat
  PROVE  /\ [next |-> n, owner |-> o, expires |-> e, claimed |-> c] \in Rows
         /\ [next |-> n, owner |-> o, expires |-> e, claimed |-> c] # NoRow
<1> DEFINE r == [next |-> n, owner |-> o, expires |-> e, claimed |-> c]
<1>1. r \in Rows
  BY DEF Rows
<1>2. r # NoRow
  BY <1>1, NoRowAssumption
<1> QED
  BY <1>1, <1>2

(* A row that is there has typed columns.                                  *)
LEMMA RowFields ==
  ASSUME TypeOK, row # NoRow
  PROVE  /\ row \in Rows /\ row.next \in Nat /\ row.owner \in Workers \cup {NoOwner}
         /\ row.expires \in Nat /\ row.claimed \in Nat
BY DEF TypeOK, Rows

(* Each statement leaves a well-formed row, and never deletes it.          *)
LEMMA StatementTypes ==
  ASSUME TypeOK, NEW u \in Workers
  PROVE  /\ EnsuredRow(u) \in Rows /\ EnsuredRow(u) # NoRow
         /\ \A r \in {ClaimedRow(u), RenewedRow(u), CompletedRow(u)} :
              /\ r \in Rows \cup {NoRow}
              /\ row # NoRow => r # NoRow
<1>0. /\ stamp[u] \in Nat /\ scheduled[u] \in Nat /\ renNow[u] \in Nat
      /\ claimedAt[u] \in Nat /\ row \in Rows \cup {NoRow}
      /\ ClaimTTL \in Nat /\ Interval \in Nat
  BY DurationsAssumption DEF TypeOK
<1>1. EnsuredRow(u) \in Rows /\ EnsuredRow(u) # NoRow
  <2>1. CASE row = NoRow
    BY <1>0, <2>1, RowType DEF EnsuredRow
  <2>2. CASE row # NoRow
    BY <1>0, <2>2 DEF EnsuredRow
  <2> QED
    BY <2>1, <2>2
<1>2. ClaimedRow(u) \in Rows \cup {NoRow} /\ (row # NoRow => ClaimedRow(u) # NoRow)
  <2>1. CASE ClaimMatches(u)
    <3>1. row # NoRow
      BY <2>1 DEF ClaimMatches, Due
    <3>2. row.next \in Nat /\ stamp[u] + ClaimTTL \in Nat
      BY <1>0, <3>1, RowFields
    <3> QED
      BY <1>0, <2>1, <3>2, RowType DEF ClaimedRow
  <2>2. CASE ~ClaimMatches(u)
    BY <1>0, <2>2 DEF ClaimedRow
  <2> QED
    BY <2>1, <2>2
<1>3. RenewedRow(u) \in Rows \cup {NoRow} /\ (row # NoRow => RenewedRow(u) # NoRow)
  <2>1. CASE Owns(u)
    <3>1. row # NoRow
      BY <2>1 DEF Owns
    <3>2. row.next \in Nat /\ row.claimed \in Nat /\ renNow[u] + ClaimTTL \in Nat
      BY <1>0, <3>1, RowFields
    <3> QED
      BY <1>0, <2>1, <3>2, RowType DEF RenewedRow
  <2>2. CASE ~Owns(u)
    BY <1>0, <2>2 DEF RenewedRow
  <2> QED
    BY <2>1, <2>2
<1>4. CompletedRow(u) \in Rows \cup {NoRow} /\ (row # NoRow => CompletedRow(u) # NoRow)
  <2>1. CASE Completes(u)
    <3>1. row # NoRow
      BY <2>1 DEF Completes, Owns
    <3>2. row.claimed \in Nat /\ NextRun(u) \in Nat
      BY <1>0, <3>1, RowFields DEF NextRun
    <3> QED
      BY <1>0, <2>1, <3>2, RowType DEF CompletedRow
  <2>2. CASE ~Completes(u)
    BY <1>0, <2>2 DEF CompletedRow
  <2> QED
    BY <2>1, <2>2
<1> QED
  BY <1>1, <1>2, <1>3, <1>4

(* What any step of runtime u does to the row, and to the firings that are *)
(* finished, is one of its statements.                                     *)
Effect(u) ==
  \/ row' = row /\ finished' = finished
  \/ pc[u] = "ensure" /\ row' = EnsuredRow(u) /\ finished' = finished
  \/ pc[u] = "update" /\ row' = ClaimedRow(u) /\ finished' = finished
  \/ renSt[u] = "flying" /\ row' = RenewedRow(u) /\ finished' = finished
  \/ /\ pc[u] = "complete"
     /\ row' = CompletedRow(u) /\ finished' = CompletedFirings(u)

(* A statement whose answer is lost has one of these effects.              *)
LEMMA LostStatement ==
  ASSUME NEW u \in Workers, LoseStatement(u)
  PROVE  Effect(u)
BY Zenon DEF LoseStatement, PendingRow, Effect

(* And so has every step of a runner.                                      *)
LEMMA StepEffect ==
  ASSUME NEW u \in Workers, RunnerStep(u)
  PROVE  Effect(u)
<1> USE DEF world, history, renVars, workVars, workData
<1>1. CASE Wake(u)
  BY <1>1 DEF Wake, Effect
<1>2. CASE LeaveLoop(u)
  BY <1>2 DEF LeaveLoop, Effect
<1>3. CASE Ensure(u)
  BY <1>3 DEF Ensure, Effect
<1>4. CASE Find(u)
  BY <1>4 DEF Find, Effect
<1>5. CASE Claim(u)
  BY <1>5 DEF Claim, Effect
<1>6. CASE LoseClaim(u)
  BY <1>6 DEF LoseClaim, Effect
<1>7. CASE BodyReturns(u)
  BY <1>7 DEF BodyReturns, Effect
<1>8. CASE Record(u)
  BY <1>8 DEF Record, Effect
<1>9. CASE RecordPanics(u)
  BY <1>9 DEF RecordPanics, Effect
<1>10. CASE Complete(u)
  BY <1>10 DEF Complete, Effect
<1>11. CASE RenewTick(u)
  BY <1>11 DEF RenewTick, Effect
<1>12. CASE Renew(u)
  BY <1>12 DEF Renew, Effect
<1>13. CASE RenewFails(u)
  BY <1>13 DEF RenewFails, Effect
<1>14. CASE RenewStops(u)
  BY <1>14 DEF RenewStops, Effect
<1>15. CASE StatementFails(u)
  BY <1>15, LostStatement DEF StatementFails
<1>16. CASE Crash(u)
  BY <1>16, LostStatement DEF Crash
<1>17. CASE Shutdown(u)
  BY <1>17 DEF Shutdown, Effect
<1>18. CASE Abort(u)
  BY <1>18, LostStatement DEF Abort
<1>19. CASE Restart(u)
  BY <1>19 DEF Restart, Effect
<1>20. CASE EnsureFails(u)
  BY <1>20 DEF EnsureFails, Effect
<1>21. CASE Refresh(u)
  BY <1>21 DEF Refresh, Effect
<1>22. CASE Rename(u)
  BY <1>22 DEF Rename, Effect
<1>23. CASE Reread(u)
  BY <1>23 DEF Reread, Effect
<1> QED
  BY <1>1, <1>2, <1>3, <1>4, <1>5, <1>6, <1>7, <1>8, <1>9, <1>10, <1>11, <1>12, <1>13, <1>14,
     <1>15, <1>16, <1>17, <1>18, <1>19,
     <1>20, <1>21, <1>22, <1>23 DEF RunnerStep

(* The statement that takes effect leaves a typed row.                     *)
LEMMA EffectTypes ==
  ASSUME TypeOK, NEW u \in Workers, Effect(u)
  PROVE  /\ row' \in Rows \cup {NoRow} /\ finished' \subseteq Nat
         /\ row # NoRow => row' # NoRow
<1>1. CompletedFirings(u) \subseteq Nat /\ finished \subseteq Nat
      /\ row \in Rows \cup {NoRow}
  BY DEF CompletedFirings, TypeOK
<1> QED
  BY <1>1, StatementTypes, Zenon DEF Effect

(* The type of everything but the row and the finished firings.            *)
RunnerOK ==
  /\ now \in 0..MaxTime
  /\ skew \in [Workers -> 0..MaxSkew]
  /\ pc \in [Workers -> PCs]
  /\ since \in [Workers -> Nat]
  /\ shutAt \in [Workers -> Nat \cup {NotShut}]
  /\ stamp \in [Workers -> Nat]
  /\ scheduled \in [Workers -> Nat]
  /\ claimedAt \in [Workers -> Nat]
  /\ renSt \in [Workers -> {"off", "waiting", "flying"}]
  /\ renNow \in [Workers -> Nat]
  /\ renDue \in [Workers -> Nat]
  /\ faults \in 0..MaxFaults
  /\ shutdowns \in 0..MaxShutdowns
  /\ recorded \subseteq Nat

(* A runner's step keeps the types.                                        *)
LEMMA StepTypes ==
  ASSUME TypeOK, NEW u \in Workers, RunnerStep(u)
  PROVE  TypeOK'
<1>0. RunnerOK /\ now \in Nat /\ Clock(u) \in Nat /\ now + RenewInterval \in Nat
      /\ (row # NoRow => row.next \in Nat)
      /\ scheduled[u] \in Nat /\ stamp[u] \in Nat
  BY PeriodTypes, DurationsAssumption, RowFields DEF TypeOK, RunnerOK, Clock
<1>r. row' \in Rows \cup {NoRow} /\ finished' \subseteq Nat
  BY StepEffect, EffectTypes
<1>c. RunnerOK'
  <2> USE DEF Goto, Return, RenewalOff, Fault, world, history, renVars, workVars, workData,
              PCs, DbAwaits, Ensuring, Down
  <2>1. CASE Wake(u)
    BY <1>0, <2>1, DurationsAssumption DEF Wake, RunnerOK
  <2>2. CASE LeaveLoop(u)
    BY <1>0, <2>2, DurationsAssumption DEF LeaveLoop, RunnerOK
  <2>3. CASE Ensure(u)
    BY <1>0, <2>3, DurationsAssumption DEF Ensure, RunnerOK
  <2>4. CASE Find(u)
    BY <1>0, <2>4, DurationsAssumption DEF Find, RunnerOK, Due
  <2>5. CASE Claim(u)
    BY <1>0, <2>5, DurationsAssumption DEF Claim, RunnerOK
  <2>6. CASE LoseClaim(u)
    BY <1>0, <2>6, DurationsAssumption DEF LoseClaim, RunnerOK
  <2>7. CASE BodyReturns(u)
    BY <1>0, <2>7, DurationsAssumption DEF BodyReturns, RunnerOK
  <2>8. CASE Record(u)
    BY <1>0, <2>8, DurationsAssumption DEF Record, RunnerOK
  <2>9. CASE RecordPanics(u)
    BY <1>0, <2>9, DurationsAssumption DEF RecordPanics, RunnerOK
  <2>10. CASE Complete(u)
    BY <1>0, <2>10, DurationsAssumption DEF Complete, RunnerOK
  <2>11. CASE RenewTick(u)
    BY <1>0, <2>11, DurationsAssumption DEF RenewTick, RunnerOK
  <2>12. CASE Renew(u)
    BY <1>0, <2>12, DurationsAssumption DEF Renew, RunnerOK
  <2>13. CASE RenewFails(u)
    BY <1>0, <2>13, DurationsAssumption DEF RenewFails, RunnerOK
  <2>14. CASE RenewStops(u)
    BY <1>0, <2>14, DurationsAssumption DEF RenewStops, RunnerOK
  <2>15. CASE StatementFails(u)
    BY <1>0, <2>15, DurationsAssumption DEF StatementFails, RunnerOK
  <2>16. CASE Crash(u)
    BY <1>0, <2>16, DurationsAssumption DEF Crash, RunnerOK
  <2>17. CASE Shutdown(u)
    BY <1>0, <2>17, DurationsAssumption DEF Shutdown, RunnerOK
  <2>18. CASE Abort(u)
    BY <1>0, <2>18, DurationsAssumption DEF Abort, RunnerOK
  <2>19. CASE Restart(u)
    BY <1>0, <2>19, DurationsAssumption DEF Restart, RunnerOK
  <2>20. CASE EnsureFails(u)
    BY <1>0, <2>20, DurationsAssumption DEF EnsureFails, RunnerOK
  <2>21. CASE Refresh(u)
    BY <1>0, <2>21, DurationsAssumption DEF Refresh, RunnerOK
  <2>22. CASE Rename(u)
    BY <1>0, <2>22, DurationsAssumption DEF Rename, RunnerOK
  <2>23. CASE Reread(u)
    BY <1>0, <2>23, DurationsAssumption DEF Reread, RunnerOK
  <2> QED
    BY <2>1, <2>2, <2>3, <2>4, <2>5, <2>6, <2>7, <2>8, <2>9, <2>10, <2>11, <2>12, <2>13, <2>14,
       <2>15, <2>16, <2>17, <2>18, <2>19,
       <2>20, <2>21, <2>22, <2>23 DEF RunnerStep
<1> QED
  BY <1>r, <1>c DEF RunnerOK, TypeOK

-----------------------------------------------------------------------------
(* The claim of a runner that the row still names is a claim on the firing *)
(* the row points at.  This is what the predicate of complete_claim, owner *)
(* and claimed_at, has to guarantee without comparing next_run_at.         *)
ClaimsAgree ==
  \A w \in Workers : pc[w] \in Claiming /\ Owns(w) => scheduled[w] = row.next

(* The finished firings lie behind the row.                                *)
FinishedIsPast == \A f \in finished : row # NoRow /\ f < row.next

(* What is about to be completed is recorded.                              *)
CompletingIsRecorded ==
  \A w \in Workers : pc[w] = "complete" => scheduled[w] \in recorded

FiringInv ==
  /\ TypeOK /\ ClaimsAgree /\ FinishedIsPast
  /\ CompletingIsRecorded /\ FinishedIsRecorded

(* The runners other than u keep their claims.  Runner u has one after the *)
(* step if it just took it, or kept it and at most renewed it.             *)
LEMMA ClaimKept ==
  ASSUME TypeOK, NEW u \in Workers, RunnerStep(u)
  PROVE  /\ \A w \in Workers \ {u} :
              pc'[w] = pc[w] /\ scheduled'[w] = scheduled[w] /\ claimedAt'[w] = claimedAt[w]
         /\ recorded \subseteq recorded'
         /\ pc'[u] = "complete" => \/ pc[u] = "complete" /\ scheduled'[u] = scheduled[u]
                                   \/ scheduled'[u] \in recorded'
         /\ pc'[u] \in Claiming =>
              \/ Claim(u)
              \/ /\ pc[u] \in Claiming
                 /\ scheduled'[u] = scheduled[u] /\ claimedAt'[u] = claimedAt[u]
                 /\ row' = row \/ row' = RenewedRow(u)
<1>0. pc \in [Workers -> PCs] /\ scheduled \in [Workers -> Nat] /\ claimedAt \in [Workers -> Nat]
  BY DEF TypeOK
<1> USE DEF Goto, Return, RenewalOff, world, history, renVars, workVars, workData, Claiming
<1>1. CASE Wake(u)
  BY <1>0, <1>1 DEF Wake
<1>2. CASE LeaveLoop(u)
  BY <1>0, <1>2 DEF LeaveLoop
<1>3. CASE Ensure(u)
  BY <1>0, <1>3 DEF Ensure
<1>4. CASE Find(u)
  BY <1>0, <1>4 DEF Find
<1>5. CASE Claim(u)
  BY <1>0, <1>5 DEF Claim
<1>6. CASE LoseClaim(u)
  BY <1>0, <1>6 DEF LoseClaim
<1>7. CASE BodyReturns(u)
  BY <1>0, <1>7 DEF BodyReturns
<1>8. CASE Record(u)
  BY <1>0, <1>8 DEF Record
<1>9. CASE RecordPanics(u)
  BY <1>0, <1>9 DEF RecordPanics
<1>10. CASE Complete(u)
  BY <1>0, <1>10 DEF Complete
<1>11. CASE RenewTick(u)
  BY <1>0, <1>11 DEF RenewTick
<1>12. CASE Renew(u)
  BY <1>0, <1>12 DEF Renew
<1>13. CASE RenewFails(u)
  BY <1>0, <1>13 DEF RenewFails
<1>14. CASE RenewStops(u)
  BY <1>0, <1>14 DEF RenewStops
<1>15. CASE StatementFails(u)
  BY <1>0, <1>15 DEF StatementFails
<1>16. CASE Crash(u)
  BY <1>0, <1>16 DEF Crash
<1>17. CASE Shutdown(u)
  BY <1>0, <1>17 DEF Shutdown
<1>18. CASE Abort(u)
  BY <1>0, <1>18 DEF Abort
<1>19. CASE Restart(u)
  BY <1>0, <1>19 DEF Restart
<1>20. CASE EnsureFails(u)
  BY <1>0, <1>20 DEF EnsureFails
<1>21. CASE Refresh(u)
  BY <1>0, <1>21 DEF Refresh
<1>22. CASE Rename(u)
  BY <1>0, <1>22 DEF Rename
<1>23. CASE Reread(u)
  BY <1>0, <1>23 DEF Reread
<1> QED
  BY <1>1, <1>2, <1>3, <1>4, <1>5, <1>6, <1>7, <1>8, <1>9, <1>10, <1>11, <1>12, <1>13, <1>14,
     <1>15, <1>16, <1>17, <1>18, <1>19,
     <1>20, <1>21, <1>22, <1>23 DEF RunnerStep

(* What one statement does to next_run_at, the owner and the claim time.   *)
LEMMA EffectOnRow ==
  ASSUME FiringInv, NEW u \in Workers, Effect(u)
  PROVE  \/ /\ row # NoRow /\ row' # NoRow /\ row'.next = row.next
            /\ row'.owner = row.owner /\ row'.claimed = row.claimed
            /\ finished' = finished
         \/ /\ row' = row /\ finished' = finished
         \/ /\ row = NoRow /\ row' # NoRow /\ row'.owner = NoOwner
            /\ finished' = finished
         \/ /\ row # NoRow /\ row' # NoRow /\ row'.next = row.next
            /\ row'.owner = u /\ finished' = finished
         \/ /\ row # NoRow /\ row' # NoRow /\ row'.next > row.next
            /\ row'.owner = NoOwner /\ finished' = finished \cup {row.next}
            /\ row.next \in recorded
<1>1. CASE row' = row /\ finished' = finished
  BY <1>1
<1>2. CASE row' = EnsuredRow(u) /\ finished' = finished
  <2>1. CASE row = NoRow
    <3>1. row'.owner = NoOwner
      BY <1>2, <2>1 DEF EnsuredRow
    <3>2. row' # NoRow
      BY <1>2, StatementTypes DEF FiringInv
    <3> QED
      BY <1>2, <2>1, <3>1, <3>2
  <2>2. CASE row # NoRow
    BY <1>2, <2>2 DEF EnsuredRow
  <2> QED
    BY <2>1, <2>2
<1>3. CASE row' = ClaimedRow(u) /\ finished' = finished
  <2>1. CASE ClaimMatches(u)
    <3>1. row # NoRow
      BY <2>1 DEF ClaimMatches, Due
    <3>2. row' # NoRow
      BY <1>3, <3>1, StatementTypes DEF FiringInv
    <3>3. row'.next = row.next /\ row'.owner = u
      BY <1>3, <2>1 DEF ClaimedRow
    <3> QED
      BY <1>3, <3>1, <3>2, <3>3
  <2>2. CASE ~ClaimMatches(u)
    BY <1>3, <2>2 DEF ClaimedRow
  <2> QED
    BY <2>1, <2>2
<1>4. CASE row' = RenewedRow(u) /\ finished' = finished
  <2>1. CASE Owns(u)
    <3>1. row # NoRow /\ row.owner = u
      BY <2>1 DEF Owns
    <3>2. row' # NoRow
      BY <1>4, <3>1, StatementTypes DEF FiringInv
    <3>3. row'.next = row.next /\ row'.owner = u /\ row'.claimed = row.claimed
      BY <1>4, <2>1 DEF RenewedRow
    <3> QED
      BY <1>4, <3>1, <3>2, <3>3
  <2>2. CASE ~Owns(u)
    BY <1>4, <2>2 DEF RenewedRow
  <2> QED
    BY <2>1, <2>2
<1>5. CASE /\ pc[u] = "complete"
           /\ row' = CompletedRow(u) /\ finished' = CompletedFirings(u)
  <2>1. CASE Completes(u)
    <3>1. row # NoRow /\ Owns(u)
      BY <2>1 DEF Completes, Owns
    <3>2. scheduled[u] = row.next /\ scheduled[u] \in recorded
      BY <1>5, <3>1 DEF FiringInv, ClaimsAgree, CompletingIsRecorded, Claiming
    <3>3. row' # NoRow
      BY <1>5, <3>1, StatementTypes DEF FiringInv
    <3>4. row'.next = NextRun(u) /\ row'.owner = NoOwner
      BY <1>5, <2>1 DEF CompletedRow
    <3>5. NextRun(u) > scheduled[u] /\ finished' = finished \cup {scheduled[u]}
      BY <1>5, <2>1 DEF Completes, CompletedFirings
    <3> QED
      BY <3>1, <3>2, <3>3, <3>4, <3>5
  <2>2. CASE ~Completes(u)
    BY <1>5, <2>2 DEF CompletedRow, CompletedFirings
  <2> QED
    BY <2>1, <2>2
<1> QED
  BY <1>1, <1>2, <1>3, <1>4, <1>5 DEF Effect

(* A runner's step keeps the invariant.                                    *)
LEMMA FiringStep ==
  ASSUME FiringInv, NEW u \in Workers, RunnerStep(u)
  PROVE  FiringInv'
<1>1. TypeOK /\ TypeOK'
  BY StepTypes DEF FiringInv
<1>2. Effect(u)
  BY StepEffect
<1>n. /\ row # NoRow => row.next \in Nat
      /\ row' # NoRow => row'.next \in Nat
      /\ finished \subseteq Nat
  BY <1>1 DEF TypeOK, Rows
<1>3. ClaimsAgree'
  <2> SUFFICES ASSUME NEW w \in Workers, pc'[w] \in Claiming, Owns(w)'
               PROVE  scheduled'[w] = row'.next
    BY DEF ClaimsAgree
  <2>1. row' # NoRow /\ row'.owner = w /\ row'.claimed = claimedAt'[w]
    BY DEF Owns
  <2>2. CASE w # u
    <3>1. pc[w] \in Claiming /\ scheduled'[w] = scheduled[w] /\ claimedAt'[w] = claimedAt[w]
      BY <1>1, <2>2, ClaimKept
    <3>2. row'.owner # NoOwner /\ row'.owner # u
      BY <2>1, <2>2, NoOwnerAssumption
    <3>3. row # NoRow /\ row'.next = row.next /\ row.owner = w /\ row.claimed = claimedAt[w]
      BY <1>2, <2>1, <3>1, <3>2, EffectOnRow
    <3> QED
      BY <3>1, <3>3 DEF FiringInv, ClaimsAgree, Owns
  <2>3. CASE w = u /\ Claim(u)
    BY <2>3 DEF Claim, ClaimMatches, ClaimedRow
  <2>4. CASE /\ w = u /\ pc[u] \in Claiming
             /\ scheduled'[u] = scheduled[u] /\ claimedAt'[u] = claimedAt[u]
             /\ row' = row \/ row' = RenewedRow(u)
    <3>1. Owns(u) /\ row'.next = row.next
      BY <2>1, <2>4 DEF RenewedRow, Owns
    <3> QED
      BY <2>4, <3>1 DEF FiringInv, ClaimsAgree
  <2> QED
    BY <1>1, <2>2, <2>3, <2>4, ClaimKept
<1>4. FinishedIsPast'
  <2> SUFFICES ASSUME NEW f \in finished'
               PROVE  row' # NoRow /\ f < row'.next
    BY DEF FinishedIsPast
  <2>1. \/ f \in finished
        \/ row # NoRow /\ row' # NoRow /\ row'.next > row.next /\ f = row.next
    BY <1>2, EffectOnRow
  <2>2. CASE f \in finished
    <3>1. row # NoRow /\ f < row.next
      BY <2>2 DEF FiringInv, FinishedIsPast
    <3>2. row' # NoRow /\ (row'.next = row.next \/ row'.next > row.next)
      BY <1>2, <3>1, EffectOnRow
    <3>3. f \in Nat
      BY <1>n, <2>2
    <3> QED
      BY <1>n, <3>1, <3>2, <3>3
  <2>3. CASE row # NoRow /\ row' # NoRow /\ row'.next > row.next /\ f = row.next
    BY <1>n, <2>3
  <2> QED
    BY <2>1, <2>2, <2>3
<1>5. CompletingIsRecorded'
  BY <1>1, ClaimKept DEF FiringInv, CompletingIsRecorded
<1>6. FinishedIsRecorded'
  BY <1>1, <1>2, ClaimKept, EffectOnRow DEF FiringInv, FinishedIsRecorded
<1> QED
  BY <1>1, <1>3, <1>4, <1>5, <1>6 DEF FiringInv

(* Time and stuttering change none of it.                                  *)
LEMMA FiringIdle ==
  ASSUME FiringInv, Tick \/ UNCHANGED vars
  PROVE  FiringInv'
<1>1. /\ UNCHANGED <<row, pc, scheduled, claimedAt, recorded, finished>>
      /\ now' = now \/ (now < MaxTime /\ now' = now + 1)
      /\ UNCHANGED <<skew, since, shutAt, stamp, renSt, renNow, renDue, faults, shutdowns>>
  BY DEF Tick, vars, workVars, renVars, world, history
<1>2. TypeOK'
  BY <1>1, DurationsAssumption DEF FiringInv, TypeOK
<1>3. ClaimsAgree' /\ FinishedIsPast' /\ CompletingIsRecorded' /\ FinishedIsRecorded'
  BY <1>1 DEF FiringInv, ClaimsAgree, FinishedIsPast, CompletingIsRecorded,
              FinishedIsRecorded, Owns
<1> QED
  BY <1>2, <1>3 DEF FiringInv

(* The invariant holds before the first row.                               *)
LEMMA FiringInit == Init => FiringInv
<1> SUFFICES ASSUME Init PROVE FiringInv
  OBVIOUS
<1>1. TypeOK
  BY DurationsAssumption DEF Init, TypeOK, PCs
<1>2. ClaimsAgree /\ FinishedIsPast /\ CompletingIsRecorded /\ FinishedIsRecorded
  BY DEF Init, ClaimsAgree, FinishedIsPast, CompletingIsRecorded, FinishedIsRecorded, Claiming
<1> QED
  BY <1>1, <1>2 DEF FiringInv

(* The invariant holds throughout.                                         *)
LEMMA FiringInvariant == Spec => []FiringInv
<1>1. FiringInv /\ [Next]_vars => FiringInv'
  BY FiringStep, FiringIdle DEF Next, Step
<1> QED
  BY FiringInit, <1>1, PTL DEF Spec

(* The values each variable of a runner and of its row can take.           *)
THEOREM ScheduleTypes == Spec => []TypeOK
<1>1. FiringInv => TypeOK
  BY DEF FiringInv
<1> QED
  BY <1>1, FiringInvariant, PTL

(* No firing is given up, by complete_claim, before its outcome was        *)
(* recorded, whatever crashes, fails or is aborted.                        *)
THEOREM GivenUpOnlyRecorded == Spec => []FinishedIsRecorded
<1>1. FiringInv => FinishedIsRecorded
  BY DEF FiringInv
<1> QED
  BY <1>1, FiringInvariant, PTL

(* complete_claim moves next_run_at forward, past the firing it claimed,   *)
(* and nothing else moves it.                                              *)
THEOREM ScheduleAdvances == Spec => NextRunAdvances
<1>1. FiringInv /\ [Next]_vars =>
        [row # NoRow /\ row' # row =>
           /\ row' # NoRow
           /\ row'.next # row.next => row'.next > row.next /\ row.next \in finished']_vars
  <2> SUFFICES ASSUME FiringInv, [Next]_vars, row # NoRow, row' # row
               PROVE  /\ row' # NoRow
                      /\ row'.next # row.next =>
                           row'.next > row.next /\ row.next \in finished'
    OBVIOUS
  <2>1. PICK u \in Workers : RunnerStep(u)
    BY DEF Next, Step, Tick, vars
  <2>2. Effect(u)
    BY <2>1, StepEffect
  <2> QED
    BY <2>2, EffectOnRow
<1> QED
  BY <1>1, FiringInvariant, PTL DEF Spec, NextRunAdvances

(* claim_due never hands out a firing that was already completed.          *)
THEOREM NeverRerun == Spec => CompletedNotRerun
<1>1. FiringInv /\ [Next]_vars =>
        [\A w \in Workers :
           pc[w] = "update" /\ pc'[w] = "body" => scheduled[w] \notin finished]_vars
  <2> SUFFICES ASSUME FiringInv, [Next]_vars, NEW w \in Workers,
                      pc[w] = "update", pc'[w] = "body"
               PROVE  scheduled[w] \notin finished
    OBVIOUS
  <2>1. PICK u \in Workers : RunnerStep(u)
    BY DEF Next, Step, Tick, vars, workVars
  <2>2. Claim(w)
    BY <2>1, ClaimKept DEF FiringInv, Claiming
  <2>3. row # NoRow /\ row.next = scheduled[w]
    BY <2>2 DEF Claim, ClaimMatches, Due
  <2>4. row.next \in Nat
    BY <2>3, RowFields DEF FiringInv
  <2> QED
    BY <2>3, <2>4 DEF FiringInv, FinishedIsPast
<1> QED
  BY <1>1, FiringInvariant, PTL DEF Spec, CompletedNotRerun

-----------------------------------------------------------------------------
(* One body at a time, when nothing is late.                               *)

(* The longest from one tick of the renewal loop to the next.              *)
Period == IF DbLatency > RenewInterval + TimerLag THEN DbLatency ELSE RenewInterval + TimerLag

(* The claim outlives every renewal that may fail, seven statements, the   *)
(* body's grace period after the renewals have stopped, and the clock that *)
(* runs ahead.  Six of the statements are those between the reading of the *)
(* clock and the claim: an insert that is refused, the read of the row,    *)
(* the update of its display name and the read after it, the read of       *)
(* claim_due and its update; the seventh is a renewal.                     *)
TTLCoversLostRenewals ==
  ClaimTTL > 7 * DbLatency + (MaxFaults + 1) * Period + Grace + TimerLag + MaxSkew

(* What the faults so far may have cost a claim.                           *)
LostTime == faults * Period

(* The time a claim asks with is the runner's clock, as old as the         *)
(* statements since, and never ahead of it.                                *)
StampsAreRecent ==
  \A w \in Workers :
    /\ stamp[w] <= now + skew[w]
    /\ pc[w] \in DbAwaits => since[w] <= now /\ now <= since[w] + DbLatency
    /\ pc[w] = "ensure" => stamp[w] = since[w] + skew[w]
    /\ pc[w] = "existing" => stamp[w] + DbLatency >= since[w] + skew[w]
    /\ pc[w] = "rename" => stamp[w] + 2 * DbLatency >= since[w] + skew[w]
    /\ pc[w] = "reread" => stamp[w] + 3 * DbLatency >= since[w] + skew[w]
    /\ pc[w] = "find" => stamp[w] + 4 * DbLatency >= since[w] + skew[w]
    /\ pc[w] = "update" => stamp[w] + 5 * DbLatency >= since[w] + skew[w]

(* A shutdown lies in the past, and what it stops is aborted in time.      *)
ShutdownsAreTimely ==
  \A w \in Workers : Cancelled(w) /\ pc[w] \notin Down =>
    shutAt[w] <= now /\ now <= shutAt[w] + Grace + TimerLag

(* When the renewal loop last ticked, or was started.                      *)
LastTick(w) == renDue[w] - RenewInterval

(* The claim of a running body is in the row, and how long it will last:   *)
(* a period beyond the last tick, less what the faults may have cost; and  *)
(* once the loop is stopped, that long beyond the shutdown.                *)
RenewalsKeepUp(w) ==
  LET left == row.expires + 6 * DbLatency - ClaimTTL
  IN  /\ renSt[w] = "waiting" =>
           /\ LastTick(w) <= now /\ now <= LastTick(w) + Period
           /\ left + LostTime >= LastTick(w)
      /\ renSt[w] = "flying" =>
           /\ LastTick(w) <= now /\ now <= LastTick(w) + DbLatency
           /\ renNow[w] = LastTick(w) + skew[w]
           /\ left + LostTime + Period >= LastTick(w)
      /\ renSt[w] = "off" =>
           /\ Cancelled(w)
           /\ left + LostTime + Period + DbLatency >= shutAt[w]

BodiesHoldTheClaim ==
  \A w \in Workers : pc[w] = "body" => Owns(w) /\ RenewalsKeepUp(w)

BodyInv == FiringInv /\ StampsAreRecent /\ ShutdownsAreTimely /\ BodiesHoldTheClaim

(* The bounds are natural numbers, and a fault costs one period.           *)
LEMMA PeriodFacts ==
  /\ Period \in Nat /\ DbLatency <= Period /\ RenewInterval + TimerLag <= Period
  /\ RenewInterval \in Nat
BY DurationsAssumption, PeriodTypes DEF Period

(* The time faults have cost so far leaves room for one more period.       *)
LEMMA LostTimeFacts ==
  ASSUME TypeOK
  PROVE  /\ LostTime \in Nat /\ LostTime + Period <= (MaxFaults + 1) * Period
         /\ \A n \in Nat : (n + 1) * Period = n * Period + Period
<1>1. Period \in Nat /\ faults \in Nat /\ MaxFaults \in Nat /\ faults <= MaxFaults
  BY PeriodFacts, DurationsAssumption DEF TypeOK
<1>2. \A n, p \in Nat : n * p \in Nat /\ (n + 1) * p = n * p + p
  OBVIOUS
<1>3. \A m, n, p \in Nat : m <= n => m * p <= n * p
  OBVIOUS
<1> QED
  BY <1>1, <1>2, <1>3 DEF LostTime

(* A fault costs one period, and nothing else does.                        *)
LEMMA LostTimeGrows ==
  ASSUME TypeOK, faults' \in {faults, faults + 1}
  PROVE  \/ faults' = faults /\ LostTime' = LostTime
         \/ faults' = faults + 1 /\ LostTime' = LostTime + Period
<1>1. faults \in Nat
  BY DurationsAssumption DEF TypeOK
<1>2. (faults + 1) * Period = faults * Period + Period
  BY <1>1, LostTimeFacts
<1> QED
  BY <1>2, Zenon DEF LostTime

(* While a body runs, its claim is not yet due for anybody else.           *)
LEMMA ClaimIsFresh ==
  ASSUME BodyInv, TTLCoversLostRenewals, NEW w \in Workers, pc[w] = "body"
  PROVE  row # NoRow /\ row.owner = w /\ row.expires > now + MaxSkew
<1>1. TypeOK /\ row # NoRow /\ row.owner = w /\ RenewalsKeepUp(w)
  BY DEF BodyInv, FiringInv, BodiesHoldTheClaim, Owns
<1>2. /\ row.expires \in Nat /\ renDue[w] \in Nat /\ now \in Nat
      /\ renSt[w] \in {"off", "waiting", "flying"}
      /\ Cancelled(w) => shutAt[w] \in Nat
  BY <1>1, RowFields DEF TypeOK, Cancelled
<1>3. LostTime \in Nat /\ LostTime + Period <= (MaxFaults + 1) * Period
  BY <1>1, LostTimeFacts
<1>4. Cancelled(w) => shutAt[w] <= now /\ now <= shutAt[w] + Grace + TimerLag
  BY DEF BodyInv, ShutdownsAreTimely, Down
<1> DEFINE K == (MaxFaults + 1) * Period
<1>5. K \in Nat
  BY PeriodFacts, DurationsAssumption
<1>6. LostTime + Period <= K /\ ClaimTTL > 7 * DbLatency + K + Grace + TimerLag + MaxSkew
  BY <1>3 DEF TTLCoversLostRenewals
<1> HIDE DEF K
<1>7. row.expires > now + MaxSkew
  BY <1>1, <1>2, <1>3, <1>4, <1>5, <1>6, PeriodFacts, DurationsAssumption
     DEF RenewalsKeepUp, LastTick
<1> QED
  BY <1>1, <1>7

(* No statement of another runtime touches the row while a body runs.      *)
LEMMA OthersLeaveTheRow ==
  ASSUME BodyInv, TTLCoversLostRenewals, NEW w \in Workers, pc[w] = "body",
         NEW u \in Workers, u # w, RunnerStep(u)
  PROVE  row' = row
<1>1. row # NoRow /\ row.owner = w /\ row.expires > now + MaxSkew /\ row.owner # NoOwner
  BY ClaimIsFresh, NoOwnerAssumption
<1>2. ~Owns(u)
  BY <1>1 DEF Owns
<1>3. ~ClaimMatches(u)
  <2>1. stamp[u] <= now + skew[u] /\ skew[u] <= MaxSkew /\ skew[u] \in Nat /\ stamp[u] \in Nat
        /\ now \in Nat /\ row.expires \in Nat
    BY <1>1, RowFields, DurationsAssumption DEF BodyInv, FiringInv, TypeOK, StampsAreRecent
  <2>2. row.expires > stamp[u]
    BY <1>1, <2>1, DurationsAssumption
  <2> QED
    BY <1>1, <2>2 DEF ClaimMatches, Due, ClaimFresh
<1> QED
  BY <1>1, <1>2, <1>3, StepEffect
     DEF Effect, EnsuredRow, ClaimedRow, RenewedRow, CompletedRow, Completes

(* A step of runtime u leaves the others alone, and the clocks.            *)
LEMMA OthersStay ==
  ASSUME TypeOK, NEW u \in Workers, RunnerStep(u)
  PROVE  /\ now' = now /\ skew' = skew /\ faults' \in {faults, faults + 1}
         /\ \A w \in Workers \ {u} :
              /\ pc'[w] = pc[w] /\ since'[w] = since[w] /\ stamp'[w] = stamp[w]
              /\ shutAt'[w] = shutAt[w] /\ claimedAt'[w] = claimedAt[w]
              /\ renSt'[w] = renSt[w] /\ renNow'[w] = renNow[w] /\ renDue'[w] = renDue[w]
<1>0. /\ pc \in [Workers -> PCs] /\ since \in [Workers -> Nat] /\ stamp \in [Workers -> Nat]
      /\ shutAt \in [Workers -> Nat \cup {NotShut}] /\ claimedAt \in [Workers -> Nat]
      /\ renSt \in [Workers -> {"off", "waiting", "flying"}] /\ renNow \in [Workers -> Nat]
      /\ renDue \in [Workers -> Nat]
  BY DEF TypeOK
<1> USE DEF Goto, Return, RenewalOff, Fault, world, history, renVars, workVars, workData
<1>1. CASE Wake(u)
  BY <1>0, <1>1 DEF Wake
<1>2. CASE LeaveLoop(u)
  BY <1>0, <1>2 DEF LeaveLoop
<1>3. CASE Ensure(u)
  BY <1>0, <1>3 DEF Ensure
<1>4. CASE Find(u)
  BY <1>0, <1>4 DEF Find
<1>5. CASE Claim(u)
  BY <1>0, <1>5 DEF Claim
<1>6. CASE LoseClaim(u)
  BY <1>0, <1>6 DEF LoseClaim
<1>7. CASE BodyReturns(u)
  BY <1>0, <1>7 DEF BodyReturns
<1>8. CASE Record(u)
  BY <1>0, <1>8 DEF Record
<1>9. CASE RecordPanics(u)
  BY <1>0, <1>9 DEF RecordPanics
<1>10. CASE Complete(u)
  BY <1>0, <1>10 DEF Complete
<1>11. CASE RenewTick(u)
  BY <1>0, <1>11 DEF RenewTick
<1>12. CASE Renew(u)
  BY <1>0, <1>12 DEF Renew
<1>13. CASE RenewFails(u)
  BY <1>0, <1>13 DEF RenewFails
<1>14. CASE RenewStops(u)
  BY <1>0, <1>14 DEF RenewStops
<1>15. CASE StatementFails(u)
  BY <1>0, <1>15 DEF StatementFails
<1>16. CASE Crash(u)
  BY <1>0, <1>16 DEF Crash
<1>17. CASE Shutdown(u)
  BY <1>0, <1>17 DEF Shutdown
<1>18. CASE Abort(u)
  BY <1>0, <1>18 DEF Abort
<1>19. CASE Restart(u)
  BY <1>0, <1>19 DEF Restart
<1>20. CASE EnsureFails(u)
  BY <1>0, <1>20 DEF EnsureFails
<1>21. CASE Refresh(u)
  BY <1>0, <1>21 DEF Refresh
<1>22. CASE Rename(u)
  BY <1>0, <1>22 DEF Rename
<1>23. CASE Reread(u)
  BY <1>0, <1>23 DEF Reread
<1> QED
  BY <1>1, <1>2, <1>3, <1>4, <1>5, <1>6, <1>7, <1>8, <1>9, <1>10,
     <1>11, <1>12, <1>13, <1>14, <1>15, <1>16, <1>17, <1>18, <1>19,
     <1>20, <1>21, <1>22, <1>23 DEF RunnerStep

(* A runner's own steps keep its stamp and its shutdown in order.          *)
LEMMA OwnTimes ==
  ASSUME BodyInv, NEW u \in Workers, RunnerStep(u)
  PROVE  StampsAreRecent' /\ ShutdownsAreTimely'
<1>0. /\ TypeOK /\ TypeOK'
      /\ now \in Nat /\ now' = now /\ skew' = skew /\ skew[u] \in Nat /\ DbLatency \in Nat
      /\ Grace \in Nat /\ TimerLag \in Nat
  BY StepTypes, OthersStay, DurationsAssumption DEF BodyInv, FiringInv, TypeOK
<1>t. /\ pc \in [Workers -> PCs] /\ since \in [Workers -> Nat] /\ stamp \in [Workers -> Nat]
      /\ shutAt \in [Workers -> Nat \cup {NotShut}]
  BY <1>0 DEF TypeOK
<1>own. /\ stamp[u] <= now + skew[u]
        /\ pc[u] \in DbAwaits => since[u] <= now /\ now <= since[u] + DbLatency
        /\ pc[u] = "ensure" => stamp[u] = since[u] + skew[u]
        /\ pc[u] = "existing" => stamp[u] + DbLatency >= since[u] + skew[u]
        /\ pc[u] = "rename" => stamp[u] + 2 * DbLatency >= since[u] + skew[u]
        /\ pc[u] = "reread" => stamp[u] + 3 * DbLatency >= since[u] + skew[u]
        /\ pc[u] = "find" => stamp[u] + 4 * DbLatency >= since[u] + skew[u]
        /\ pc[u] = "update" => stamp[u] + 5 * DbLatency >= since[u] + skew[u]
        /\ Cancelled(u) /\ pc[u] \notin Down =>
             shutAt[u] <= now /\ now <= shutAt[u] + Grace + TimerLag
  BY DEF BodyInv, StampsAreRecent, ShutdownsAreTimely
<1>new. /\ stamp'[u] <= now + skew[u]
        /\ pc'[u] \in DbAwaits => since'[u] <= now /\ now <= since'[u] + DbLatency
        /\ pc'[u] = "ensure" => stamp'[u] = since'[u] + skew[u]
        /\ pc'[u] = "existing" => stamp'[u] + DbLatency >= since'[u] + skew[u]
        /\ pc'[u] = "rename" => stamp'[u] + 2 * DbLatency >= since'[u] + skew[u]
        /\ pc'[u] = "reread" => stamp'[u] + 3 * DbLatency >= since'[u] + skew[u]
        /\ pc'[u] = "find" => stamp'[u] + 4 * DbLatency >= since'[u] + skew[u]
        /\ pc'[u] = "update" => stamp'[u] + 5 * DbLatency >= since'[u] + skew[u]
        /\ Cancelled(u)' /\ pc'[u] \notin Down =>
             shutAt'[u] <= now /\ now <= shutAt'[u] + Grace + TimerLag
  <2> USE <1>0, <1>t, <1>own
      DEF Goto, Return, RenewalOff, world, history, renVars, workVars, workData, Cancelled, Clock,
          DbAwaits, Ensuring, Down, NotShut
  <2>1. CASE Wake(u)
    BY <2>1 DEF Wake
  <2>2. CASE LeaveLoop(u)
    BY <2>2 DEF LeaveLoop
  <2>3. CASE Ensure(u)
    BY <2>3 DEF Ensure
  <2>4. CASE Find(u)
    BY <2>4 DEF Find
  <2>5. CASE Claim(u)
    BY <2>5 DEF Claim
  <2>6. CASE LoseClaim(u)
    BY <2>6 DEF LoseClaim
  <2>7. CASE BodyReturns(u)
    BY <2>7 DEF BodyReturns
  <2>8. CASE Record(u)
    BY <2>8 DEF Record
  <2>9. CASE RecordPanics(u)
    BY <2>9 DEF RecordPanics
  <2>10. CASE Complete(u)
    BY <2>10 DEF Complete
  <2>11. CASE RenewTick(u)
    BY <2>11 DEF RenewTick
  <2>12. CASE Renew(u)
    BY <2>12 DEF Renew
  <2>13. CASE RenewFails(u)
    BY <2>13 DEF RenewFails
  <2>14. CASE RenewStops(u)
    BY <2>14 DEF RenewStops
  <2>15. CASE StatementFails(u)
    BY <2>15 DEF StatementFails
  <2>16. CASE Crash(u)
    BY <2>16 DEF Crash
  <2>17. CASE Shutdown(u)
    BY <2>17 DEF Shutdown
  <2>18. CASE Abort(u)
    BY <2>18 DEF Abort
  <2>19. CASE Restart(u)
    BY <2>19 DEF Restart
  <2>20. CASE EnsureFails(u)
    BY <2>20 DEF EnsureFails
  <2>21. CASE Refresh(u)
    BY <2>21 DEF Refresh
  <2>22. CASE Rename(u)
    BY <2>22 DEF Rename
  <2>23. CASE Reread(u)
    BY <2>23 DEF Reread
  <2> QED
    BY <2>1, <2>2, <2>3, <2>4, <2>5, <2>6, <2>7, <2>8, <2>9, <2>10,
       <2>11, <2>12, <2>13, <2>14, <2>15, <2>16, <2>17, <2>18, <2>19,
       <2>20, <2>21, <2>22, <2>23 DEF RunnerStep
<1>others. \A w \in Workers \ {u} :
             /\ pc'[w] = pc[w] /\ since'[w] = since[w] /\ stamp'[w] = stamp[w]
             /\ shutAt'[w] = shutAt[w]
  BY <1>0, OthersStay
<1>1. StampsAreRecent'
  BY <1>0, <1>new, <1>others DEF BodyInv, StampsAreRecent
<1>2. ShutdownsAreTimely'
  BY <1>0, <1>new, <1>others DEF BodyInv, ShutdownsAreTimely, Cancelled
<1> QED
  BY <1>1, <1>2

(* The columns a renewal or a claim writes.                                *)
LEMMA ClaimColumns ==
  ASSUME TypeOK, NEW u \in Workers
  PROVE  /\ ClaimMatches(u) =>
              /\ ClaimedRow(u) # NoRow /\ ClaimedRow(u).owner = u
              /\ ClaimedRow(u).claimed = stamp[u]
              /\ ClaimedRow(u).expires = stamp[u] + ClaimTTL
         /\ Owns(u) =>
              /\ RenewedRow(u) # NoRow /\ RenewedRow(u).owner = u
              /\ RenewedRow(u).claimed = row.claimed
              /\ RenewedRow(u).expires = renNow[u] + ClaimTTL
<1>1. ASSUME ClaimMatches(u) PROVE ClaimedRow(u) # NoRow
  BY <1>1, StatementTypes DEF ClaimMatches, Due
<1>2. ASSUME Owns(u) PROVE RenewedRow(u) # NoRow
  BY <1>2, StatementTypes DEF Owns
<1> QED
  BY <1>1, <1>2 DEF ClaimedRow, RenewedRow

(* A runner in a body came there by its claim, and its renewals keep up.   *)
LEMMA OwnBody ==
  ASSUME BodyInv, TTLCoversLostRenewals, NEW u \in Workers, RunnerStep(u), pc'[u] = "body"
  PROVE  Owns(u)' /\ RenewalsKeepUp(u)'
<1>0. /\ TypeOK /\ TypeOK' /\ now' = now /\ skew' = skew
      /\ now \in Nat /\ skew[u] \in Nat
      /\ DbLatency \in Nat /\ ClaimTTL \in Nat /\ RenewInterval \in Nat /\ TimerLag \in Nat
      /\ Period \in Nat /\ DbLatency <= Period /\ RenewInterval + TimerLag <= Period
      /\ renNow[u] \in Nat /\ renDue[u] \in Nat /\ stamp[u] \in Nat
      /\ LostTime \in Nat /\ LostTime' \in Nat
  BY StepTypes, OthersStay, DurationsAssumption, PeriodFacts, LostTimeFacts
     DEF BodyInv, FiringInv, TypeOK, LostTime
<1>t. /\ pc \in [Workers -> PCs] /\ claimedAt \in [Workers -> Nat]
      /\ renSt \in [Workers -> {"off", "waiting", "flying"}]
      /\ renNow \in [Workers -> Nat] /\ renDue \in [Workers -> Nat]
      /\ shutAt \in [Workers -> Nat \cup {NotShut}]
  BY <1>0 DEF TypeOK
<1>lost. \/ faults' = faults /\ LostTime' = LostTime
         \/ faults' = faults + 1 /\ LostTime' = LostTime + Period
  BY <1>0, OthersStay, LostTimeGrows
<1>old. ASSUME pc[u] = "body"
        PROVE  Owns(u) /\ RenewalsKeepUp(u) /\ row # NoRow /\ row.expires \in Nat
  BY <1>0, <1>old, RowFields DEF BodyInv, BodiesHoldTheClaim, Owns
<1>1. CASE Claim(u)
  <2>1. /\ ClaimMatches(u) /\ row' = ClaimedRow(u) /\ pc[u] = "update"
        /\ claimedAt'[u] = stamp[u] /\ renSt'[u] = "waiting"
        /\ renDue'[u] = now + RenewInterval
    BY <1>1, <1>t DEF Claim
  <2>2. Owns(u)' /\ row'.expires = stamp[u] + ClaimTTL
    BY <1>0, <2>1, ClaimColumns DEF Owns
  <2>3. now <= since[u] + DbLatency /\ stamp[u] + 5 * DbLatency >= since[u] + skew[u]
        /\ since[u] \in Nat
    BY <2>1, <1>0 DEF BodyInv, StampsAreRecent, DbAwaits, Ensuring, TypeOK
  <2> QED
    BY <1>0, <2>1, <2>2, <2>3 DEF RenewalsKeepUp, LastTick
<1>2. CASE RenewTick(u)
  <2>1. /\ pc[u] = "body" /\ UNCHANGED <<row, claimedAt, shutAt, faults>>
        /\ renSt[u] = "waiting" /\ renSt'[u] = "flying"
        /\ renNow'[u] = now + skew[u] /\ renDue'[u] = now + RenewInterval
    BY <1>2, <1>t DEF RenewTick, Clock, workVars, world
  <2> QED
    BY <1>0, <1>lost, <1>old, <2>1 DEF Owns, RenewalsKeepUp, LastTick, LostTime
<1>3. CASE Renew(u) \/ RenewFails(u)
  <2>0. pc[u] = "body" /\ renSt[u] = "flying" /\ UNCHANGED <<claimedAt, shutAt>>
    BY <1>3 DEF Renew, RenewFails, workVars, world
  <2>1. Owns(u) /\ RenewalsKeepUp(u) /\ row # NoRow /\ row.expires \in Nat
    BY <1>old, <2>0
  <2>2. /\ renSt'[u] = "waiting" /\ renDue'[u] = renDue[u]
        /\ \/ row' = RenewedRow(u)
           \/ row' = row /\ faults' = faults + 1
    BY <1>3, <1>t, <2>1 DEF Renew, RenewFails, Fault
  <2>3. CASE row' = RenewedRow(u)
    <3>1. Owns(u)' /\ row'.expires = renNow[u] + ClaimTTL
      BY <1>0, <2>0, <2>1, <2>3, ClaimColumns DEF Owns
    <3> QED
      BY <1>0, <2>0, <2>1, <2>2, <3>1 DEF RenewalsKeepUp, LastTick
  <2>4. CASE row' = row /\ faults' = faults + 1
    <3>1. LostTime' = LostTime + Period
      BY <1>lost, <2>4, <1>0 DEF TypeOK
    <3> QED
      BY <1>0, <2>0, <2>1, <2>2, <2>4, <3>1 DEF Owns, RenewalsKeepUp, LastTick
  <2> QED
    BY <2>2, <2>3, <2>4
<1>4. CASE RenewStops(u)
  <2>0. /\ pc[u] = "body" /\ renSt[u] # "off" /\ Cancelled(u)
        /\ UNCHANGED <<claimedAt, shutAt, faults>> /\ renSt'[u] = "off"
    BY <1>4, <1>t DEF RenewStops, RenewalOff, workVars, world
  <2>r. row' = row \/ (renSt[u] = "flying" /\ row' = RenewedRow(u))
    <3>1. row' \in {row} \cup (IF renSt[u] = "flying" THEN {RenewedRow(u)} ELSE {})
      BY <1>4 DEF RenewStops
    <3> QED
      BY <3>1, Zenon
  <2>1. Owns(u) /\ RenewalsKeepUp(u) /\ row # NoRow /\ row.expires \in Nat
    BY <1>old, <2>0
  <2>2. shutAt[u] \in Nat /\ shutAt[u] <= now
    BY <2>0, <1>t DEF Cancelled, BodyInv, ShutdownsAreTimely, Down
  <2>3. Cancelled(u)' /\ shutAt'[u] = shutAt[u] /\ LostTime' = LostTime
    BY <2>0 DEF Cancelled, LostTime
  <2>4. renSt[u] \in {"waiting", "flying"}
    BY <2>0, <1>t
  <2>5. CASE row' = row
    BY <1>0, <2>0, <2>1, <2>2, <2>3, <2>4, <2>5 DEF Owns, RenewalsKeepUp, LastTick
  <2>6. CASE renSt[u] = "flying" /\ row' = RenewedRow(u)
    <3>1. Owns(u)' /\ row'.expires = renNow[u] + ClaimTTL
      BY <1>0, <2>0, <2>1, <2>6, ClaimColumns DEF Owns
    <3> QED
      BY <1>0, <2>0, <2>1, <2>2, <2>3, <2>6, <3>1 DEF RenewalsKeepUp, LastTick
  <2> QED
    BY <2>r, <2>5, <2>6
<1>5. CASE Shutdown(u)
  <2>1. /\ pc[u] = "body" /\ ~Cancelled(u)
        /\ UNCHANGED <<row, claimedAt, faults, renSt, renNow, renDue>>
    BY <1>5 DEF Shutdown, workVars, renVars
  <2>2. renSt[u] \in {"waiting", "flying"}
    BY <2>1, <1>t, <1>old DEF RenewalsKeepUp
  <2> QED
    BY <1>0, <1>lost, <1>old, <2>1, <2>2 DEF Owns, RenewalsKeepUp, LastTick, LostTime
<1>6. CASE Restart(u) \/ LeaveLoop(u) \/ Abort(u) \/ Crash(u) \/ StatementFails(u)
  BY <1>6, <1>t DEF Restart, LeaveLoop, Abort, Crash, StatementFails, Return, Goto
<1>7. CASE Wake(u) \/ Find(u) \/ LoseClaim(u)
  BY <1>7, <1>t DEF Wake, Find, LoseClaim, Return, Goto
<1>9. CASE Ensure(u) \/ EnsureFails(u) \/ Refresh(u) \/ Rename(u) \/ Reread(u)
  BY <1>9, <1>t DEF Ensure, EnsureFails, Refresh, Rename, Reread, Return, Goto
<1>8. CASE BodyReturns(u) \/ Record(u) \/ RecordPanics(u) \/ Complete(u)
  BY <1>8, <1>t DEF BodyReturns, Record, RecordPanics, Complete, Return, Goto
<1> QED
  BY <1>1, <1>2, <1>3, <1>4, <1>5, <1>6, <1>7, <1>8, <1>9 DEF RunnerStep

(* Every step of a runner preserves the invariant.                         *)
LEMMA BodyStep ==
  ASSUME BodyInv, TTLCoversLostRenewals, NEW u \in Workers, RunnerStep(u)
  PROVE  BodyInv'
<1>1. FiringInv' /\ StampsAreRecent' /\ ShutdownsAreTimely'
  BY FiringStep, OwnTimes DEF BodyInv
<1>2. ASSUME NEW w \in Workers, pc'[w] = "body" PROVE Owns(w)' /\ RenewalsKeepUp(w)'
  <2>1. CASE w = u
    BY <1>2, <2>1, OwnBody
  <2>2. CASE w # u
    <3>0. TypeOK /\ TypeOK'
      BY <1>1 DEF BodyInv, FiringInv
    <3>1. /\ pc[w] = "body" /\ claimedAt'[w] = claimedAt[w] /\ shutAt'[w] = shutAt[w]
          /\ renSt'[w] = renSt[w] /\ renNow'[w] = renNow[w] /\ renDue'[w] = renDue[w]
          /\ now' = now /\ skew' = skew /\ faults' \in {faults, faults + 1}
      BY <1>2, <2>2, <3>0, OthersStay
    <3>2. row' = row
      BY <2>2, <3>1, OthersLeaveTheRow
    <3>3. Owns(w) /\ RenewalsKeepUp(w) /\ row # NoRow /\ row.expires \in Nat
      BY <3>0, <3>1, RowFields DEF BodyInv, BodiesHoldTheClaim, Owns
    <3>4. LostTime \in Nat /\ LostTime' \in Nat /\ LostTime <= LostTime'
      <4>1. LostTime \in Nat /\ Period \in Nat
        BY <3>0, LostTimeFacts, PeriodFacts
      <4> QED
        BY <3>0, <3>1, <4>1, LostTimeGrows
    <3>5. Owns(w)'
      BY <3>1, <3>2, <3>3 DEF Owns
    <3>6. /\ now \in Nat /\ skew[w] \in Nat /\ renDue[w] \in Nat /\ renNow[w] \in Nat
          /\ shutAt[w] \in Int /\ Period \in Nat /\ RenewInterval \in Nat
          /\ DbLatency \in Nat /\ ClaimTTL \in Nat
      BY <3>0, PeriodFacts, DurationsAssumption DEF TypeOK, NotShut
    <3>7. RenewalsKeepUp(w)'
      BY <3>1, <3>2, <3>3, <3>4, <3>6 DEF RenewalsKeepUp, LastTick, Cancelled
    <3> QED
      BY <3>5, <3>7
  <2> QED
    BY <2>1, <2>2
<1> QED
  BY <1>1, <1>2 DEF BodyInv, BodiesHoldTheClaim

(* So does time, which waits for what is not to be late.                   *)
LEMMA BodyTick ==
  ASSUME BodyInv, TimelyTick
  PROVE  BodyInv'
<1>1. FiringInv'
  BY FiringIdle DEF BodyInv, TimelyTick
<1>2. /\ now' = now + 1 /\ now \in Nat
      /\ UNCHANGED <<skew, row, pc, since, shutAt, stamp, claimedAt, renSt, renNow, renDue, faults>>
      /\ \A w \in Workers : OnTime(w)
  BY DEF TimelyTick, Tick, workVars, renVars, world, BodyInv, FiringInv, TypeOK
<1>t. /\ TypeOK /\ DbLatency \in Nat /\ Grace \in Nat /\ TimerLag \in Nat
      /\ Period \in Nat /\ RenewInterval \in Nat /\ RenewInterval + TimerLag <= Period
  BY DurationsAssumption, PeriodFacts DEF BodyInv, FiringInv
<1>3. StampsAreRecent'
  <2> SUFFICES ASSUME NEW w \in Workers
               PROVE /\ stamp[w] <= now + 1 + skew[w]
                     /\ pc[w] \in DbAwaits => since[w] <= now + 1 /\ now + 1 <= since[w] + DbLatency
    BY <1>2 DEF BodyInv, StampsAreRecent
  <2>1. stamp[w] \in Nat /\ skew[w] \in Nat /\ since[w] \in Nat
    BY <1>t DEF TypeOK
  <2>2. stamp[w] <= now + skew[w] /\ pc[w] \in DbAwaits => since[w] <= now
    BY DEF BodyInv, StampsAreRecent
  <2>3. stamp[w] <= now + skew[w]
    BY DEF BodyInv, StampsAreRecent
  <2>4. pc[w] \in DbAwaits => now < since[w] + DbLatency
    BY <1>2 DEF OnTime
  <2> QED
    BY <1>2, <1>t, <2>1, <2>2, <2>3, <2>4
<1>4. ShutdownsAreTimely'
  <2> SUFFICES ASSUME NEW w \in Workers, Cancelled(w), pc[w] \notin Down
               PROVE  shutAt[w] <= now + 1 /\ now + 1 <= shutAt[w] + Grace + TimerLag
    BY <1>2 DEF ShutdownsAreTimely, Cancelled
  <2>1. shutAt[w] \in Nat /\ shutAt[w] <= now
    BY <1>t DEF BodyInv, ShutdownsAreTimely, TypeOK, Cancelled
  <2>2. now < shutAt[w] + Grace + TimerLag
    BY <1>2 DEF OnTime
  <2> QED
    BY <1>2, <1>t, <2>1, <2>2
<1>5. BodiesHoldTheClaim'
  <2> SUFFICES ASSUME NEW w \in Workers, pc[w] = "body"
               PROVE  Owns(w)' /\ RenewalsKeepUp(w)'
    BY <1>2 DEF BodiesHoldTheClaim
  <2>1. Owns(w) /\ RenewalsKeepUp(w) /\ row # NoRow /\ row.expires \in Nat
    BY <1>t, RowFields DEF BodyInv, BodiesHoldTheClaim, Owns
  <2>2. Owns(w)' /\ LostTime' = LostTime /\ (Cancelled(w)' <=> Cancelled(w))
    BY <1>2, <2>1 DEF Owns, LostTime, Cancelled
  <2>3. /\ renSt[w] = "waiting" => now < renDue[w] + TimerLag
        /\ renSt[w] = "flying" => now + skew[w] < renNow[w] + DbLatency
    BY <1>2 DEF OnTime, Clock
  <2>4. renDue[w] \in Nat /\ renNow[w] \in Nat /\ skew[w] \in Nat /\ renSt'[w] = renSt[w]
        /\ renDue'[w] = renDue[w] /\ renNow'[w] = renNow[w] /\ shutAt'[w] = shutAt[w]
        /\ skew'[w] = skew[w]
    BY <1>t, <1>2 DEF TypeOK
  <2>5. RenewalsKeepUp(w)'
    BY <1>2, <1>t, <2>1, <2>2, <2>3, <2>4 DEF RenewalsKeepUp, LastTick
  <2> QED
    BY <2>2, <2>5
<1> QED
  BY <1>1, <1>3, <1>4, <1>5 DEF BodyInv

(* The invariant holds at the start.                                       *)
LEMMA BodyInit == Init => BodyInv
<1> SUFFICES ASSUME Init PROVE BodyInv
  OBVIOUS
<1>1. FiringInv
  BY FiringInit
<1>2. StampsAreRecent /\ ShutdownsAreTimely /\ BodiesHoldTheClaim
  BY DurationsAssumption
     DEF Init, StampsAreRecent, ShutdownsAreTimely, BodiesHoldTheClaim, DbAwaits, Ensuring,
         Cancelled, NotShut
<1> QED
  BY <1>1, <1>2 DEF BodyInv

(* Stuttering changes none of it.                                          *)
LEMMA BodyIdle ==
  ASSUME BodyInv, UNCHANGED vars
  PROVE  BodyInv'
<1>1. FiringInv'
  BY FiringIdle DEF BodyInv
<1>2. StampsAreRecent' /\ ShutdownsAreTimely' /\ BodiesHoldTheClaim'
  BY DEF vars, BodyInv, StampsAreRecent, ShutdownsAreTimely, BodiesHoldTheClaim,
         Owns, RenewalsKeepUp, LastTick, LostTime, Cancelled
<1> QED
  BY <1>1, <1>2 DEF BodyInv

(* It is kept when nothing is late, and is what it is for.                 *)
LEMMA BodyInvHolds ==
  ASSUME TTLCoversLostRenewals
  PROVE  /\ Init => BodyInv
         /\ BodyInv /\ [Step \/ TimelyTick]_vars => BodyInv'
         /\ BodyInv => OneBodyAtATime
<1>1. BodyInv /\ [Step \/ TimelyTick]_vars => BodyInv'
  BY BodyStep, BodyTick, BodyIdle DEF Step
<1>2. BodyInv => OneBodyAtATime
  BY DEF BodyInv, BodiesHoldTheClaim, Owns, OneBodyAtATime
<1> QED
  BY BodyInit, <1>1, <1>2

(* When nothing is late and the TTL covers the renewals that may be lost,  *)
(* two runtimes never run the body of a scheduled task at the same time,   *)
(* across crashes, failed statements, takeovers, shutdowns and restarts.   *)
THEOREM BodiesAreExclusive ==
  ASSUME TTLCoversLostRenewals
  PROVE  TimelySpec => []OneBodyAtATime
<1>1. BodyInv /\ [Step \/ TimelyTick]_vars => BodyInv'
  BY BodyInvHolds
<1>2. BodyInv => OneBodyAtATime
  BY BodyInvHolds
<1> QED
  BY BodyInit, <1>1, <1>2, PTL DEF TimelySpec

-----------------------------------------------------------------------------
(* A due firing is taken in hand, when nothing is late.                    *)

(* The row is not due, or its claim not run out, before t.                 *)
Outlives(t) == row # NoRow => row.next >= t \/ row.expires >= t

(* The time the runner read off its clock, by real time.                   *)
Look(w) == stamp[w] - skew[w]

(* How old what a runner knows of the row is when it goes to sleep, and    *)
(* how long it sleeps.                                                     *)
Slack == RecordTime + 5 * DbLatency
Nap == Sleep + JitterCap + TimerLag

Outcome == {"record", "complete"}

RenewalsInBody == \A w \in Workers : renSt[w] # "off" => pc[w] = "body"

(* finished_at is no older than the recorder and the statement since.      *)
OutcomesAreRecent ==
  \A w \in Workers :
    /\ pc[w] = "record" =>
         since[w] <= now /\ now <= since[w] + RecordTime /\ Look(w) = since[w]
    /\ pc[w] = "complete" => since[w] <= Look(w) + RecordTime

(* Of the runners that finished their body, the one that still owns the    *)
(* row finished last: its completion does not set the schedule back.       *)
OwnerIsLatest ==
  \A v, w \in Workers :
    v # w /\ Owns(v) /\ pc[v] \in Outcome /\ pc[w] \in Outcome => Look(w) <= Look(v)

OutcomesOutlive ==
  \A w \in Workers : pc[w] \in Outcome => row # NoRow /\ Outlives(Look(w))

(* What the runner knows of the row bounds how long it may have been due:  *)
(* it sleeps since it saw that the row was not, or it is about to look, or *)
(* it holds the claim.                                                     *)
Watches(w) ==
  /\ ~Cancelled(w) /\ pc[w] \notin Down
  /\ pc[w] = "start" => since[w] = 0 /\ now <= TimerLag
  /\ pc[w] = "idle" =>
       since[w] <= now /\ now <= since[w] + Nap /\ Outlives(since[w] - Slack)
  /\ pc[w] \in Ensuring \cup {"find"} => Outlives(Look(w) - Nap - Slack)
  /\ pc[w] = "update" =>
       \/ ClaimMatches(w) /\ Outlives(Look(w) - Nap - Slack)
       \/ Outlives(since[w] - RecordTime - DbLatency)

(* A fault or a shutdown takes one runner away, at most.                   *)
Unharmed(T) ==
  /\ IsFiniteSet(T) /\ Cardinality(T) <= faults + shutdowns
  /\ \A w \in Workers \ T : Watches(w)

SomeWatch == \E T \in SUBSET Workers : Unharmed(T)

RecoverInv ==
  /\ BodyInv /\ RenewalsInBody /\ OutcomesAreRecent
  /\ OwnerIsLatest /\ OutcomesOutlive /\ SomeWatch

(* The bounds and the times are numbers.                                   *)
LEMMA TimesAreNumbers ==
  ASSUME TypeOK
  PROVE  /\ Nap \in Nat /\ Slack \in Nat /\ DbLatency \in Nat /\ RecordTime \in Nat
         /\ Slack = RecordTime + 5 * DbLatency /\ TimerLag <= Nap
         /\ TimerLag \in Nat /\ Interval \in Nat /\ ClaimTTL \in Nat
         /\ LookAgain = Nap + Slack + 6 * DbLatency
         /\ now \in Nat
         /\ \A w \in Workers :
              /\ since[w] \in Nat /\ stamp[w] \in Nat /\ skew[w] \in Nat
              /\ scheduled[w] \in Nat /\ renNow[w] \in Nat /\ renDue[w] \in Nat
              /\ Look(w) \in Int /\ Look(w) <= stamp[w]
BY DurationsAssumption, PeriodTypes DEF TypeOK, Nap, Slack, LookAgain, Look

(* A row that outlives a time outlives every earlier one.                  *)
LEMMA OutlivesEarlier ==
  ASSUME TypeOK, NEW s \in Int, NEW t \in Int, s <= t, Outlives(t)
  PROVE  Outlives(s)
BY RowFields DEF Outlives

(* Every row outlives the beginning of time.                               *)
LEMMA OutlivesTheStart ==
  ASSUME TypeOK, NEW t \in Int, t <= 0
  PROVE  Outlives(t)
BY RowFields DEF Outlives

(* A step leaves the row, creates it, moves its expiry beyond now, or      *)
(* completes the claim, to a time no earlier than the end of the body.     *)
LEMMA RowMovesOn ==
  ASSUME RecoverInv, TTLCoversLostRenewals, NEW u \in Workers, RunnerStep(u)
  PROVE  \/ row' = row
         \/ /\ row' # NoRow
            /\ \/ /\ pc[u] = "ensure" /\ row = NoRow /\ row'.next = stamp[u]
               \/ /\ row # NoRow /\ row'.expires >= now
               \/ /\ pc[u] = "complete" /\ Owns(u) /\ row'.next >= Look(u)
<1>0. TypeOK /\ FiringInv /\ BodyInv
  BY DEF RecoverInv, BodyInv, FiringInv
<1>t. /\ now \in Nat /\ DbLatency \in Nat /\ ClaimTTL \in Nat /\ Interval \in Nat
      /\ stamp[u] \in Nat /\ since[u] \in Nat /\ skew[u] \in Nat
      /\ renNow[u] \in Nat /\ renDue[u] \in Nat /\ Look(u) \in Int /\ Look(u) <= stamp[u]
  BY <1>0, TimesAreNumbers
<1>l. ClaimTTL > 7 * DbLatency
  <2>1. (MaxFaults + 1) * Period \in Nat
    BY PeriodFacts, DurationsAssumption
  <2> DEFINE K == (MaxFaults + 1) * Period
  <2>2. ClaimTTL > 7 * DbLatency + K + Grace + TimerLag + MaxSkew /\ K \in Nat
    BY <2>1 DEF TTLCoversLostRenewals
  <2> HIDE DEF K
  <2> QED
    BY <2>2, DurationsAssumption
<1>1. CASE row' = row
  BY <1>1
<1>2. CASE pc[u] = "ensure" /\ row' = EnsuredRow(u)
  <2>1. row' # NoRow
    BY <1>0, <1>2, StatementTypes
  <2> QED
    BY <1>2, <2>1 DEF EnsuredRow
<1>3. CASE pc[u] = "update" /\ row' = ClaimedRow(u)
  <2>1. CASE ClaimMatches(u)
    <3>1. row # NoRow /\ row' # NoRow /\ row'.expires = stamp[u] + ClaimTTL
      BY <1>0, <1>3, <2>1, ClaimColumns DEF ClaimMatches, Due
    <3>2. now <= since[u] + DbLatency /\ stamp[u] + 5 * DbLatency >= since[u] + skew[u]
      BY <1>0, <1>3 DEF BodyInv, StampsAreRecent, DbAwaits, Ensuring
    <3>3. row'.expires >= now
      BY <1>t, <1>l, <3>1, <3>2
    <3> QED
      BY <3>1, <3>3
  <2>2. CASE ~ClaimMatches(u)
    BY <1>3, <2>2 DEF ClaimedRow
  <2> QED
    BY <2>1, <2>2
<1>4. CASE renSt[u] = "flying" /\ row' = RenewedRow(u)
  <2>1. CASE Owns(u)
    <3>1. row # NoRow /\ row' # NoRow /\ row'.expires = renNow[u] + ClaimTTL
      BY <1>0, <1>4, <2>1, ClaimColumns DEF Owns
    <3>2. pc[u] = "body" /\ RenewalsKeepUp(u)
      BY <1>0, <1>4 DEF RecoverInv, RenewalsInBody, BodyInv, BodiesHoldTheClaim
    <3>3. now <= LastTick(u) + DbLatency /\ renNow[u] = LastTick(u) + skew[u]
          /\ LastTick(u) \in Int
      BY <1>t, <1>4, <3>2, PeriodTypes DEF RenewalsKeepUp, LastTick
    <3>4. row'.expires >= now
      BY <1>t, <1>l, <3>1, <3>3
    <3> QED
      BY <3>1, <3>4
  <2>2. CASE ~Owns(u)
    BY <1>4, <2>2 DEF RenewedRow
  <2> QED
    BY <2>1, <2>2
<1>5. CASE pc[u] = "complete" /\ row' = CompletedRow(u)
  <2>1. CASE Completes(u)
    <3>1. Owns(u) /\ row # NoRow
      BY <2>1 DEF Completes, Owns
    <3>2. row' # NoRow
      BY <1>0, <1>5, <3>1, StatementTypes
    <3>3. row'.next = stamp[u] + Interval
      BY <1>5, <2>1 DEF CompletedRow, NextRun
    <3>4. row'.next >= Look(u)
      BY <1>t, <3>3
    <3> QED
      BY <1>5, <3>1, <3>2, <3>4
  <2>2. CASE ~Completes(u)
    BY <1>5, <2>2 DEF CompletedRow
  <2> QED
    BY <2>1, <2>2
<1> QED
  BY <1>1, <1>2, <1>3, <1>4, <1>5, StepEffect DEF Effect

(* So a row that a step changed is a recent one.                           *)
LEMMA ChangedRowIsRecent ==
  ASSUME RecoverInv, TTLCoversLostRenewals, NEW u \in Workers, RunnerStep(u), row' # row
  PROVE  Outlives(now - RecordTime - DbLatency)'
<1>0. TypeOK /\ TypeOK' /\ now' = now
  BY StepTypes, OthersStay DEF RecoverInv, BodyInv, FiringInv
<1>t. /\ now \in Nat /\ DbLatency \in Nat /\ RecordTime \in Nat
      /\ since[u] \in Nat /\ stamp[u] \in Nat /\ skew[u] \in Nat /\ Look(u) \in Int
  BY <1>0, TimesAreNumbers
<1>r. row' # NoRow => row'.next \in Nat /\ row'.expires \in Nat
  BY <1>0 DEF TypeOK, Rows
<1>s. /\ pc[u] \in {"ensure", "complete"} => now <= since[u] + DbLatency
      /\ pc[u] = "ensure" => stamp[u] = since[u] + skew[u]
      /\ pc[u] = "complete" => since[u] <= Look(u) + RecordTime
  BY DEF RecoverInv, BodyInv, StampsAreRecent, OutcomesAreRecent, DbAwaits, Ensuring
<1>1. /\ row' # NoRow
      /\ \/ pc[u] = "ensure" /\ row'.next = stamp[u]
         \/ row'.expires >= now
         \/ pc[u] = "complete" /\ row'.next >= Look(u)
  BY RowMovesOn
<1>2. row'.next >= now - RecordTime - DbLatency \/ row'.expires >= now - RecordTime - DbLatency
  BY <1>t, <1>r, <1>s, <1>1
<1> QED
  BY <1>0, <1>2 DEF Outlives

(* And what it outlived until then, it outlives.                           *)
LEMMA OutlivesStill ==
  ASSUME RecoverInv, TTLCoversLostRenewals, NEW u \in Workers, RunnerStep(u),
         NEW t \in Int, t <= now - RecordTime - DbLatency, Outlives(t)
  PROVE  row' # NoRow => row'.next >= t \/ row'.expires >= t
<1>0. TypeOK /\ TypeOK' /\ now' = now
  BY StepTypes, OthersStay DEF RecoverInv, BodyInv, FiringInv
<1>1. CASE row' = row
  BY <1>1 DEF Outlives
<1>2. CASE row' # row
  <2>1. row' # NoRow => row'.next >= now - RecordTime - DbLatency
                        \/ row'.expires >= now - RecordTime - DbLatency
    BY <1>0, <1>2, ChangedRowIsRecent DEF Outlives
  <2>2. row' # NoRow => row'.next \in Nat /\ row'.expires \in Nat
    BY <1>0 DEF TypeOK, Rows
  <2> QED
    BY <1>0, <2>1, <2>2, TimesAreNumbers
<1> QED
  BY <1>1, <1>2

(* A runner that has finished its body just did, or has just recorded the  *)
(* outcome, or has not moved.                                              *)
LEMMA OutcomeSteps ==
  ASSUME TypeOK, RenewalsInBody, NEW u \in Workers, RunnerStep(u), pc'[u] \in Outcome
  PROVE  \/ /\ pc[u] = "body" /\ pc'[u] = "record"
            /\ stamp'[u] = Clock(u) /\ since'[u] = now /\ claimedAt'[u] = claimedAt[u]
         \/ /\ pc[u] = "record" /\ pc'[u] = "complete" /\ row' = row
            /\ stamp'[u] = stamp[u] /\ since'[u] = now /\ claimedAt'[u] = claimedAt[u]
         \/ /\ pc[u] \in Outcome /\ pc'[u] = pc[u] /\ row' = row
            /\ stamp'[u] = stamp[u] /\ since'[u] = since[u] /\ claimedAt'[u] = claimedAt[u]
<1>0. /\ pc \in [Workers -> PCs] /\ since \in [Workers -> Nat] /\ stamp \in [Workers -> Nat]
      /\ claimedAt \in [Workers -> Nat]
      /\ renSt[u] # "off" => pc[u] = "body"
  BY DEF TypeOK, RenewalsInBody
<1> USE <1>0 DEF Goto, Return, world, history, renVars, workVars, workData, Outcome,
                 DbAwaits, Ensuring, Down
<1>1. CASE Wake(u)
  BY <1>1 DEF Wake
<1>2. CASE LeaveLoop(u)
  BY <1>2 DEF LeaveLoop
<1>3. CASE Ensure(u)
  BY <1>3 DEF Ensure
<1>4. CASE Find(u)
  BY <1>4 DEF Find
<1>5. CASE Claim(u)
  BY <1>5 DEF Claim
<1>6. CASE LoseClaim(u)
  BY <1>6 DEF LoseClaim
<1>7. CASE BodyReturns(u)
  BY <1>7 DEF BodyReturns
<1>8. CASE Record(u)
  BY <1>8 DEF Record
<1>9. CASE RecordPanics(u)
  BY <1>9 DEF RecordPanics
<1>10. CASE Complete(u)
  BY <1>10 DEF Complete
<1>11. CASE RenewTick(u)
  BY <1>11 DEF RenewTick
<1>12. CASE Renew(u)
  BY <1>12 DEF Renew
<1>13. CASE RenewFails(u)
  BY <1>13 DEF RenewFails
<1>14. CASE RenewStops(u)
  BY <1>14 DEF RenewStops
<1>15. CASE StatementFails(u)
  BY <1>15 DEF StatementFails
<1>16. CASE Crash(u)
  BY <1>16 DEF Crash
<1>17. CASE Shutdown(u)
  BY <1>17 DEF Shutdown
<1>18. CASE Abort(u)
  BY <1>18 DEF Abort
<1>19. CASE Restart(u)
  BY <1>19 DEF Restart
<1>20. CASE EnsureFails(u)
  BY <1>20 DEF EnsureFails
<1>21. CASE Refresh(u)
  BY <1>21 DEF Refresh
<1>22. CASE Rename(u)
  BY <1>22 DEF Rename
<1>23. CASE Reread(u)
  BY <1>23 DEF Reread
<1> QED
  BY <1>1, <1>2, <1>3, <1>4, <1>5, <1>6, <1>7, <1>8, <1>9, <1>10,
     <1>11, <1>12, <1>13, <1>14, <1>15, <1>16, <1>17, <1>18, <1>19,
     <1>20, <1>21, <1>22, <1>23 DEF RunnerStep

(* The renewal loop runs while the body does.                              *)
LEMMA RenewalsStep ==
  ASSUME TypeOK, RenewalsInBody, NEW u \in Workers, RunnerStep(u)
  PROVE  RenewalsInBody'
<1>0. /\ pc \in [Workers -> PCs] /\ renSt \in [Workers -> {"off", "waiting", "flying"}]
      /\ renSt[u] # "off" => pc[u] = "body"
  BY DEF TypeOK, RenewalsInBody
<1>u. renSt'[u] # "off" => pc'[u] = "body"
  <2> USE <1>0 DEF Goto, Return, RenewalOff, world, history, renVars, workVars, workData,
                   DbAwaits, Ensuring, Down
  <2>1. CASE Wake(u)
    BY <2>1 DEF Wake
  <2>2. CASE LeaveLoop(u)
    BY <2>2 DEF LeaveLoop
  <2>3. CASE Ensure(u)
    BY <2>3 DEF Ensure
  <2>4. CASE Find(u)
    BY <2>4 DEF Find
  <2>5. CASE Claim(u)
    BY <2>5 DEF Claim
  <2>6. CASE LoseClaim(u)
    BY <2>6 DEF LoseClaim
  <2>7. CASE BodyReturns(u)
    BY <2>7 DEF BodyReturns
  <2>8. CASE Record(u)
    BY <2>8 DEF Record
  <2>9. CASE RecordPanics(u)
    BY <2>9 DEF RecordPanics
  <2>10. CASE Complete(u)
    BY <2>10 DEF Complete
  <2>11. CASE RenewTick(u)
    BY <2>11 DEF RenewTick
  <2>12. CASE Renew(u)
    BY <2>12 DEF Renew
  <2>13. CASE RenewFails(u)
    BY <2>13 DEF RenewFails
  <2>14. CASE RenewStops(u)
    BY <2>14 DEF RenewStops
  <2>15. CASE StatementFails(u)
    BY <2>15 DEF StatementFails
  <2>16. CASE Crash(u)
    BY <2>16 DEF Crash
  <2>17. CASE Shutdown(u)
    BY <2>17 DEF Shutdown
  <2>18. CASE Abort(u)
    BY <2>18 DEF Abort
  <2>19. CASE Restart(u)
    BY <2>19 DEF Restart
  <2>20. CASE EnsureFails(u)
    BY <2>20 DEF EnsureFails
  <2>21. CASE Refresh(u)
    BY <2>21 DEF Refresh
  <2>22. CASE Rename(u)
    BY <2>22 DEF Rename
  <2>23. CASE Reread(u)
    BY <2>23 DEF Reread
  <2> QED
    BY <2>1, <2>2, <2>3, <2>4, <2>5, <2>6, <2>7, <2>8, <2>9, <2>10,
       <2>11, <2>12, <2>13, <2>14, <2>15, <2>16, <2>17, <2>18, <2>19,
       <2>20, <2>21, <2>22, <2>23 DEF RunnerStep
<1>w. \A w \in Workers \ {u} : renSt'[w] = renSt[w] /\ pc'[w] = pc[w]
  BY OthersStay
<1> QED
  BY <1>u, <1>w DEF RenewalsInBody

(* finished_at stays recent.                                               *)
LEMMA OutcomesStep ==
  ASSUME RecoverInv, NEW u \in Workers, RunnerStep(u)
  PROVE  OutcomesAreRecent'
<1>0. TypeOK /\ TypeOK' /\ now' = now /\ skew' = skew /\ RenewalsInBody /\ OutcomesAreRecent
  BY StepTypes, OthersStay DEF RecoverInv, BodyInv, FiringInv
<1> SUFFICES ASSUME NEW w \in Workers, pc'[w] \in Outcome
             PROVE  /\ pc'[w] = "record" =>
                         /\ since'[w] <= now /\ now <= since'[w] + RecordTime
                         /\ stamp'[w] - skew[w] = since'[w]
                    /\ pc'[w] = "complete" => since'[w] <= stamp'[w] - skew[w] + RecordTime
  BY <1>0 DEF OutcomesAreRecent, Look, Outcome
<1>t. /\ now \in Nat /\ since[w] \in Nat /\ stamp[w] \in Nat /\ skew[w] \in Nat
      /\ RecordTime \in Nat
  BY <1>0, TimesAreNumbers
<1>1. CASE w # u
  <2>1. pc'[w] = pc[w] /\ since'[w] = since[w] /\ stamp'[w] = stamp[w]
    BY <1>0, <1>1, OthersStay
  <2> QED
    BY <1>0, <2>1 DEF OutcomesAreRecent, Look
<1>2. CASE w = u
  <2>1. /\ pc[u] = "record" =>
             since[u] <= now /\ now <= since[u] + RecordTime /\ stamp[u] - skew[u] = since[u]
        /\ pc[u] = "complete" => since[u] <= stamp[u] - skew[u] + RecordTime
    BY <1>0 DEF OutcomesAreRecent, Look
  <2>2. \/ pc'[u] = "record" /\ stamp'[u] = now + skew[u] /\ since'[u] = now
        \/ /\ pc[u] = "record" /\ pc'[u] = "complete"
           /\ stamp'[u] = stamp[u] /\ since'[u] = now
        \/ pc'[u] = pc[u] /\ stamp'[u] = stamp[u] /\ since'[u] = since[u]
    BY <1>0, <1>2, OutcomeSteps DEF Clock
  <2> QED
    BY <1>t, <1>2, <2>1, <2>2
<1> QED
  BY <1>1, <1>2

(* What a runner reads off its clock is never ahead of real time.          *)
LEMMA LooksArePast ==
  ASSUME BodyInv, NEW w \in Workers
  PROVE  Look(w) <= now
<1>1. stamp[w] <= now + skew[w] /\ TypeOK
  BY DEF BodyInv, StampsAreRecent, FiringInv
<1> QED
  BY <1>1, TimesAreNumbers DEF Look

(* A runner that does not move, and owns the row after the step, did       *)
(* before.                                                                 *)
LEMMA OwnedBefore ==
  ASSUME FiringInv, NEW u \in Workers, RunnerStep(u), NEW v \in Workers, v # u, Owns(v)'
  PROVE  Owns(v)
<1>1. row' # NoRow /\ row'.owner = v /\ row'.claimed = claimedAt'[v]
  BY DEF Owns
<1>2. claimedAt'[v] = claimedAt[v] /\ row'.owner # NoOwner /\ row'.owner # u
  BY <1>1, OthersStay, NoOwnerAssumption DEF FiringInv
<1>3. row # NoRow /\ row.owner = row'.owner /\ row.claimed = row'.claimed
  BY <1>1, <1>2, StepEffect, EffectOnRow
<1> QED
  BY <1>1, <1>2, <1>3 DEF Owns

(* The owner still finished last.                                          *)
LEMMA OwnerStep ==
  ASSUME RecoverInv, TTLCoversLostRenewals, NEW u \in Workers, RunnerStep(u)
  PROVE  OwnerIsLatest'
<1>0. /\ TypeOK /\ TypeOK' /\ now' = now /\ skew' = skew /\ RenewalsInBody
      /\ BodyInv /\ BodyInv' /\ FiringInv
  BY StepTypes, OthersStay, BodyStep DEF RecoverInv, BodyInv, FiringInv
<1> SUFFICES ASSUME NEW v \in Workers, NEW w \in Workers, v # w, Owns(v)',
                    pc'[v] \in Outcome, pc'[w] \in Outcome
             PROVE  Look(w)' <= Look(v)'
  BY DEF OwnerIsLatest
<1>o. Owns(v) /\ pc[v] \in Outcome /\ pc[w] \in Outcome => Look(w) <= Look(v)
  BY DEF RecoverInv, OwnerIsLatest
<1>same. \A x \in Workers : stamp'[x] = stamp[x] => Look(x)' = Look(x)
  BY <1>0 DEF Look
<1>1. CASE v = u /\ pc[u] = "body"
  <2>1. stamp'[v] = now + skew[v]
    BY <1>0, <1>1, OutcomeSteps DEF Outcome, Clock
  <2>2. Look(v)' = now
    BY <1>0, <2>1, TimesAreNumbers DEF Look
  <2>3. Look(w)' = Look(w)
    BY <1>0, <1>1, <1>same, OthersStay
  <2> QED
    BY <1>0, <2>2, <2>3, LooksArePast
<1>2. CASE w = u /\ pc[u] = "body"
  <2>1. Owns(v)
    BY <1>0, <1>2, OwnedBefore
  <2>2. row.owner = u
    BY <1>0, <1>2, ClaimIsFresh
  <2> QED
    BY <1>2, <2>1, <2>2 DEF Owns
<1>3. CASE u \in {v, w} /\ pc[u] # "body"
  <2>1. /\ pc[u] \in Outcome /\ row' = row /\ stamp'[u] = stamp[u]
        /\ claimedAt'[u] = claimedAt[u]
    BY <1>0, <1>3, OutcomeSteps DEF Outcome
  <2>2. /\ pc[v] \in Outcome /\ stamp'[v] = stamp[v] /\ claimedAt'[v] = claimedAt[v]
        /\ pc[w] \in Outcome /\ stamp'[w] = stamp[w]
    BY <1>0, <1>3, <2>1, OthersStay
  <2>3. Owns(v)
    BY <2>1, <2>2 DEF Owns
  <2> QED
    BY <1>o, <1>same, <2>2, <2>3
<1>4. CASE u \notin {v, w}
  <2>1. pc'[v] = pc[v] /\ stamp'[v] = stamp[v] /\ pc'[w] = pc[w] /\ stamp'[w] = stamp[w]
    BY <1>0, <1>4, OthersStay
  <2>2. Owns(v)
    BY <1>0, <1>4, OwnedBefore
  <2> QED
    BY <1>o, <1>same, <2>1, <2>2
<1> QED
  BY <1>1, <1>2, <1>3, <1>4

(* No completion sets the schedule back behind the end of a body.          *)
LEMMA OutcomesOutliveStep ==
  ASSUME RecoverInv, TTLCoversLostRenewals, NEW u \in Workers, RunnerStep(u)
  PROVE  OutcomesOutlive'
<1>0. /\ TypeOK /\ TypeOK' /\ now' = now /\ skew' = skew /\ RenewalsInBody /\ BodyInv
  BY StepTypes, OthersStay DEF RecoverInv, BodyInv, FiringInv
<1> SUFFICES ASSUME NEW w \in Workers, pc'[w] \in Outcome
             PROVE  row' # NoRow /\ (row'.next >= Look(w)' \/ row'.expires >= Look(w)')
  BY DEF OutcomesOutlive, Outlives
<1>r. row' # NoRow => row'.next \in Nat /\ row'.expires \in Nat
  BY <1>0 DEF TypeOK, Rows
<1>t. now \in Nat /\ Look(w) \in Int /\ Look(w)' \in Int /\ Look(u) \in Int
  <2>1. stamp'[w] \in Nat
    BY <1>0 DEF TypeOK
  <2> QED
    BY <1>0, <2>1, TimesAreNumbers DEF Look
<1>1. CASE w = u /\ pc[u] = "body"
  <2>1. Look(w)' = now
    BY <1>0, <1>1, OutcomeSteps, TimesAreNumbers DEF Outcome, Clock, Look
  <2>2. row # NoRow /\ row.expires > now + MaxSkew
    BY <1>0, <1>1, ClaimIsFresh
  <2>3. row' # NoRow /\ (row' = row \/ row'.expires >= now)
    BY <1>1, <2>2, RowMovesOn
  <2> QED
    BY <1>t, <1>r, <2>1, <2>2, <2>3, DurationsAssumption
<1>2. CASE ~(w = u /\ pc[u] = "body")
  <2>1. pc[w] \in Outcome /\ stamp'[w] = stamp[w]
    <3>1. CASE w = u
      BY <1>0, <1>2, <3>1, OutcomeSteps DEF Outcome
    <3>2. CASE w # u
      BY <1>0, <3>2, OthersStay
    <3> QED
      BY <3>1, <3>2
  <2>2. Look(w)' = Look(w) /\ Look(w) <= now
    BY <1>0, <2>1, LooksArePast DEF Look
  <2>3. row # NoRow /\ (row.next >= Look(w) \/ row.expires >= Look(w))
    BY <2>1 DEF RecoverInv, OutcomesOutlive, Outlives
  <2>4. CASE row' = row
    BY <2>2, <2>3, <2>4
  <2>5. CASE row' # NoRow /\ row'.expires >= now
    BY <1>t, <1>r, <2>2, <2>5
  <2>6. CASE row' # NoRow /\ pc[u] = "complete" /\ Owns(u) /\ row'.next >= Look(u)
    <3>1. Look(w) <= Look(u)
      <4>1. CASE w = u
        BY <1>t, <4>1
      <4>2. CASE w # u
        BY <2>1, <2>6, <4>2 DEF RecoverInv, OwnerIsLatest, Outcome
      <4> QED
        BY <4>1, <4>2
    <3> QED
      BY <1>t, <1>r, <2>2, <2>6, <3>1
  <2> QED
    BY <2>3, <2>4, <2>5, <2>6, RowMovesOn
<1> QED
  BY <1>1, <1>2

(* The runners that do not move go on watching: if the row changed, it is  *)
(* a recent one.                                                           *)
LEMMA OthersWatch ==
  ASSUME RecoverInv, TTLCoversLostRenewals, NEW u \in Workers, RunnerStep(u),
         NEW w \in Workers, w # u, Watches(w)
  PROVE  Watches(w)'
<1>0. /\ TypeOK /\ TypeOK' /\ now' = now /\ skew' = skew /\ BodyInv
      /\ pc'[w] = pc[w] /\ since'[w] = since[w] /\ stamp'[w] = stamp[w]
      /\ shutAt'[w] = shutAt[w] /\ Look(w)' = Look(w)
  BY StepTypes, OthersStay DEF RecoverInv, BodyInv, FiringInv, Look
<1>t. /\ now \in Nat /\ since[w] \in Nat /\ Look(w) \in Int /\ DbLatency \in Nat
      /\ RecordTime \in Nat /\ Nap \in Nat /\ Slack = RecordTime + 5 * DbLatency
      /\ Look(w) <= now
  BY <1>0, TimesAreNumbers, LooksArePast
<1>s. pc[w] = "update" => since[w] <= now
  BY <1>0 DEF BodyInv, StampsAreRecent, DbAwaits, Ensuring
<1>1. ~Cancelled(w)' /\ pc'[w] \notin Down
  BY <1>0 DEF Watches, Cancelled
<1>2. pc'[w] = "start" => since'[w] = 0 /\ now' <= TimerLag
  BY <1>0 DEF Watches
<1>3. ASSUME pc'[w] = "idle"
      PROVE  since'[w] <= now' /\ now' <= since'[w] + Nap /\ Outlives(since[w] - Slack)'
  <2>1. since[w] <= now /\ now <= since[w] + Nap /\ Outlives(since[w] - Slack)
    BY <1>0, <1>3 DEF Watches
  <2>2. since[w] - Slack \in Int /\ since[w] - Slack <= now - RecordTime - DbLatency
    BY <1>t, <2>1
  <2>3. row' # NoRow => row'.next >= since[w] - Slack \/ row'.expires >= since[w] - Slack
    BY <2>1, <2>2, OutlivesStill
  <2> QED
    BY <1>0, <2>1, <2>3 DEF Outlives, Slack
<1>4. ASSUME Outlives(Look(w) - Nap - Slack)
      PROVE  Outlives(Look(w) - Nap - Slack)'
  <2>1. Look(w) - Nap - Slack \in Int /\ Look(w) - Nap - Slack <= now - RecordTime - DbLatency
    BY <1>t
  <2>2. row' # NoRow => row'.next >= Look(w) - Nap - Slack \/ row'.expires >= Look(w) - Nap - Slack
    BY <1>4, <2>1, OutlivesStill
  <2> QED
    BY <1>0, <2>2 DEF Outlives, Nap, Slack
<1>5. pc'[w] \in Ensuring \cup {"find"} => Outlives(Look(w) - Nap - Slack)'
  BY <1>0, <1>4 DEF Watches
<1>6. ASSUME pc'[w] = "update"
      PROVE  \/ ClaimMatches(w)' /\ Outlives(Look(w) - Nap - Slack)'
             \/ Outlives(since[w] - RecordTime - DbLatency)'
  <2>1. since'[w] = since[w] /\ since[w] <= now
    BY <1>0, <1>6, <1>s
  <2>2. CASE Outlives(since[w] - RecordTime - DbLatency)
    <3>1. /\ since[w] - RecordTime - DbLatency \in Int
          /\ since[w] - RecordTime - DbLatency <= now - RecordTime - DbLatency
      BY <1>t, <2>1
    <3>2. row' # NoRow => \/ row'.next >= since[w] - RecordTime - DbLatency
                          \/ row'.expires >= since[w] - RecordTime - DbLatency
      BY <2>2, <3>1, OutlivesStill
    <3> QED
      BY <2>1, <3>2 DEF Outlives
  <2>3. CASE ClaimMatches(w) /\ Outlives(Look(w) - Nap - Slack) /\ row' = row
    <3>1. scheduled'[w] = scheduled[w]
      BY <1>0, ClaimKept
    <3>2. ClaimMatches(w)'
      BY <1>0, <2>3, <3>1 DEF ClaimMatches, Due, ClaimFresh
    <3> QED
      BY <1>4, <2>3, <3>2
  <2>4. CASE row' # row
    <3>1. Outlives(now - RecordTime - DbLatency)'
      BY <2>4, ChangedRowIsRecent
    <3>2. row' # NoRow => row'.next \in Nat /\ row'.expires \in Nat
      BY <1>0 DEF TypeOK, Rows
    <3>3. row' # NoRow => \/ row'.next >= since[w] - RecordTime - DbLatency
                          \/ row'.expires >= since[w] - RecordTime - DbLatency
      BY <1>0, <1>t, <2>1, <3>1, <3>2 DEF Outlives
    <3> QED
      BY <2>1, <3>3 DEF Outlives
  <2> QED
    BY <1>0, <1>6, <2>2, <2>3, <2>4 DEF Watches
<1> QED
  BY <1>1, <1>2, <1>3, <1>5, <1>6 DEF Watches, Slack, Nap

(* A runner that is not harmed goes on watching through its own steps.     *)
LEMMA OwnWatch ==
  ASSUME RecoverInv, TTLCoversLostRenewals, NEW u \in Workers, RunnerStep(u),
         Watches(u), faults' = faults, shutdowns' = shutdowns
  PROVE  Watches(u)'
<1>0. /\ TypeOK /\ TypeOK' /\ now' = now /\ skew' = skew /\ BodyInv /\ ~Cancelled(u)
      /\ pc[u] \notin Down /\ faults \in Int /\ shutdowns \in Int
      /\ renSt[u] # "off" => pc[u] = "body"
  BY StepTypes, OthersStay, DurationsAssumption
     DEF RecoverInv, BodyInv, FiringInv, Watches, TypeOK, RenewalsInBody
<1>f. ~Fault /\ shutdowns' # shutdowns + 1
  BY <1>0 DEF Fault
<1>t. /\ now \in Nat /\ since[u] \in Nat /\ stamp[u] \in Nat /\ skew[u] \in Nat
      /\ Look(u) \in Int /\ DbLatency \in Nat
      /\ RecordTime \in Nat /\ Nap \in Nat /\ TimerLag \in Nat /\ TimerLag <= Nap
      /\ Slack = RecordTime + 5 * DbLatency /\ Slack \in Nat
      /\ Look(u) <= now
  BY <1>0, TimesAreNumbers, LooksArePast
<1>p. /\ pc \in [Workers -> PCs] /\ since \in [Workers -> Nat] /\ stamp \in [Workers -> Nat]
      /\ scheduled \in [Workers -> Nat]
  BY <1>0 DEF TypeOK
<1>s. /\ pc[u] \in DbAwaits => since[u] <= now /\ now <= since[u] + DbLatency
      /\ pc[u] = "find" => stamp[u] + 4 * DbLatency >= since[u] + skew[u]
  BY <1>0 DEF BodyInv, StampsAreRecent
<1>k. \A t \in Int : t <= now - RecordTime - DbLatency /\ Outlives(t) =>
        (row' # NoRow => row'.next >= t \/ row'.expires >= t)
  BY OutlivesStill
<1>c. UNCHANGED shutAt => ~Cancelled(u)'
  BY <1>0 DEF Cancelled
<1>idle. ASSUME UNCHANGED shutAt, pc'[u] = "idle", since'[u] = now,
                row' # NoRow => row'.next >= now - Slack \/ row'.expires >= now - Slack
         PROVE  Watches(u)'
  <2>1. since'[u] <= now' /\ now' <= since'[u] + Nap
    BY <1>0, <1>t, <1>idle
  <2>2. Outlives(since[u] - Slack)'
    BY <1>0, <1>idle DEF Outlives, Slack
  <2> QED
    BY <1>c, <1>idle, <2>1, <2>2 DEF Watches, Down, Ensuring, Slack, Nap
<1>look. ASSUME UNCHANGED shutAt, pc'[u] \in Ensuring \cup {"find"},
                NEW l \in Int, Look(u)' = l,
                row' # NoRow => row'.next >= l - Nap - Slack \/ row'.expires >= l - Nap - Slack
         PROVE  Watches(u)'
  <2>1. Outlives(Look(u) - Nap - Slack)'
    BY <1>look DEF Outlives, Nap, Slack
  <2> QED
    BY <1>c, <1>look, <2>1 DEF Watches, Down, Ensuring
<1>else. ASSUME UNCHANGED shutAt, pc'[u] \in {"body", "record", "complete"}
         PROVE  Watches(u)'
  BY <1>c, <1>else DEF Watches, Down, Ensuring
<1>1. CASE Wake(u)
  <2>1. /\ UNCHANGED <<row, shutAt>> /\ pc'[u] = "ensure" /\ stamp'[u] = now + skew[u]
        /\ pc[u] \in {"start", "idle"}
    BY <1>1, <1>p DEF Wake, Goto, Clock, world
  <2>2. Look(u)' = now
    BY <1>0, <1>t, <2>1 DEF Look
  <2>3. Outlives(now - Nap - Slack)
    <3>1. CASE pc[u] = "start"
      <4>1. now - Nap - Slack \in Int /\ now - Nap - Slack <= 0
        BY <1>t, <3>1 DEF Watches
      <4> QED
        BY <1>0, <4>1, OutlivesTheStart
    <3>2. CASE pc[u] = "idle"
      <4>1. Outlives(since[u] - Slack) /\ now <= since[u] + Nap
        BY <3>2 DEF Watches
      <4>2. now - Nap - Slack \in Int /\ since[u] - Slack \in Int
            /\ now - Nap - Slack <= since[u] - Slack
        BY <1>t, <4>1
      <4> QED
        BY <1>0, <4>1, <4>2, OutlivesEarlier
    <3> QED
      BY <2>1, <3>1, <3>2
  <2>4. row' # NoRow => row'.next >= now - Nap - Slack \/ row'.expires >= now - Nap - Slack
    BY <2>1, <2>3 DEF Outlives
  <2> QED
    BY <1>t, <1>look, <2>1, <2>2, <2>4 DEF Ensuring
<1>r. CASE Refresh(u) /\ row = NoRow
  <2>1. UNCHANGED <<row, shutAt>> /\ pc'[u] = "idle" /\ since'[u] = now
    BY <1>r, <1>p DEF Refresh, Return, Goto, world, Down
  <2> QED
    BY <1>r, <1>idle, <2>1
<1>2. CASE Ensure(u) \/ (Refresh(u) /\ row # NoRow) \/ Rename(u) \/ Reread(u)
  <2>1. /\ UNCHANGED <<stamp, shutAt>>
        /\ pc'[u] \in Ensuring \cup {"find"} /\ pc[u] \in Ensuring \cup {"find"}
    BY <1>2, <1>p DEF Ensure, Refresh, Rename, Reread, Goto, world, workData, Ensuring
  <2>2. Look(u)' = Look(u) /\ Outlives(Look(u) - Nap - Slack)
    BY <1>0, <2>1 DEF Look, Watches
  <2>3. Look(u) - Nap - Slack \in Int /\ Look(u) - Nap - Slack <= now - RecordTime - DbLatency
    BY <1>t
  <2>4. row' # NoRow => \/ row'.next >= Look(u) - Nap - Slack
                        \/ row'.expires >= Look(u) - Nap - Slack
    BY <1>k, <2>2, <2>3
  <2> QED
    BY <1>t, <1>look, <2>1, <2>2, <2>4 DEF Ensuring
<1>3. CASE Find(u)
  <2>1. UNCHANGED <<row, shutAt>> /\ pc[u] = "find" /\ since'[u] = now
    BY <1>3, <1>p DEF Find, Goto, Return, world, Down
  <2>2. CASE Due(u) /\ Goto(u, "update") /\ scheduled'[u] = row.next /\ UNCHANGED stamp
    <3>1. pc'[u] = "update" /\ Look(u)' = Look(u) /\ Outlives(Look(u) - Nap - Slack)
      BY <1>0, <1>p, <2>1, <2>2 DEF Look, Watches, Goto
    <3>2. ClaimMatches(u)'
      BY <2>1, <2>2 DEF ClaimMatches, Due, ClaimFresh
    <3>3. Outlives(Look(u) - Nap - Slack)'
      BY <2>1, <3>1 DEF Outlives, Nap, Slack
    <3> QED
      BY <1>c, <2>1, <3>1, <3>2, <3>3 DEF Watches, Down
  <2>3. CASE ~Due(u) /\ Return(u, "idle")
    <3>1. pc'[u] = "idle"
      BY <1>p, <2>3 DEF Return, Goto
    <3>2. row # NoRow => row.next > stamp[u] \/ row.expires > stamp[u]
      BY <1>0, <1>t, <2>3, RowFields DEF Due, ClaimFresh
    <3>3. stamp[u] >= now - Slack
      BY <1>t, <1>s, <2>1 DEF DbAwaits, Ensuring
    <3>4. row # NoRow => row.next >= now - Slack \/ row.expires >= now - Slack
      BY <1>0, <1>t, <3>2, <3>3, RowFields
    <3> QED
      BY <1>idle, <2>1, <3>1, <3>4
  <2> QED
    <3>1. \/ Due(u) /\ Goto(u, "update") /\ scheduled' = [scheduled EXCEPT ![u] = row.next]
             /\ UNCHANGED stamp
          \/ ~Due(u) /\ Return(u, "idle")
      BY <1>3 DEF Find
    <3> QED
      BY <1>p, <2>2, <2>3, <3>1
<1>4. CASE LoseClaim(u)
  <2>1. /\ UNCHANGED <<row, shutAt>> /\ pc[u] = "update" /\ since'[u] = now
        /\ pc'[u] = "idle" /\ ~ClaimMatches(u)
    BY <1>4, <1>p DEF LoseClaim, Goto, Return, world, Down
  <2>2. Outlives(since[u] - RecordTime - DbLatency)
    BY <2>1 DEF Watches
  <2>3. /\ since[u] - RecordTime - DbLatency \in Int /\ now - Slack \in Int
        /\ now - Slack <= since[u] - RecordTime - DbLatency
    BY <1>t, <1>s, <2>1 DEF DbAwaits, Ensuring
  <2>4. Outlives(now - Slack)
    BY <1>0, <2>2, <2>3, OutlivesEarlier
  <2> QED
    BY <1>idle, <2>1, <2>4 DEF Outlives
<1>5. CASE Complete(u)
  <2>1. UNCHANGED shutAt /\ pc[u] = "complete" /\ since'[u] = now /\ pc'[u] = "idle"
    BY <1>5, <1>p DEF Complete, Goto, Return, world, Down
  <2>2. Outlives(Look(u)) /\ since[u] <= Look(u) + RecordTime
    BY <2>1 DEF RecoverInv, OutcomesOutlive, OutcomesAreRecent, Outcome
  <2>3. now - Slack \in Int /\ now - Slack <= Look(u) /\ now - Slack <= now - RecordTime - DbLatency
    BY <1>t, <1>s, <2>1, <2>2 DEF DbAwaits, Ensuring
  <2>4. Outlives(now - Slack)
    BY <1>0, <1>t, <2>2, <2>3, OutlivesEarlier
  <2>5. row' # NoRow => row'.next >= now - Slack \/ row'.expires >= now - Slack
    BY <1>k, <2>3, <2>4
  <2> QED
    BY <1>idle, <2>1, <2>5
<1>6. CASE Claim(u) \/ BodyReturns(u) \/ Record(u)
  BY <1>6, <1>p, <1>else DEF Claim, BodyReturns, Record, Goto, world
<1>7. CASE RenewTick(u) \/ Renew(u) \/ RenewStops(u)
  BY <1>7, <1>0, <1>else DEF RenewTick, Renew, RenewStops, workVars, world
<1>8. CASE LeaveLoop(u) \/ Abort(u) \/ Restart(u)
  BY <1>8, <1>0 DEF LeaveLoop, Abort, Restart
<1>9. CASE \/ EnsureFails(u) \/ RecordPanics(u) \/ RenewFails(u) \/ StatementFails(u)
           \/ Crash(u) \/ Shutdown(u)
  BY <1>9, <1>f DEF EnsureFails, RecordPanics, RenewFails, StatementFails, Crash, Shutdown
<1> QED
  BY <1>r, <1>1, <1>2, <1>3, <1>4, <1>5, <1>6, <1>7, <1>8, <1>9 DEF RunnerStep

(* A step with no fault and no shutdown takes no runner away, any other    *)
(* takes one at most.                                                      *)
LEMMA SomeWatchStep ==
  ASSUME RecoverInv, TTLCoversLostRenewals, NEW u \in Workers, RunnerStep(u)
  PROVE  SomeWatch'
<1>0. TypeOK /\ TypeOK' /\ faults' \in {faults, faults + 1}
  BY StepTypes, OthersStay DEF RecoverInv, BodyInv, FiringInv
<1>1. shutdowns' \in {shutdowns, shutdowns + 1}
  BY DEF RunnerStep, Wake, LeaveLoop, Ensure, EnsureFails, Refresh, Rename, Reread, Find, Claim, LoseClaim, BodyReturns, Record,
         RecordPanics, Complete, RenewTick, Renew, RenewFails, RenewStops, StatementFails,
         Crash, Shutdown, Abort, Restart, world
<1>t. faults \in Nat /\ shutdowns \in Nat /\ faults' \in Nat /\ shutdowns' \in Nat
  BY <1>0, DurationsAssumption DEF TypeOK
<1>2. PICK T \in SUBSET Workers : Unharmed(T)
  BY DEF RecoverInv, SomeWatch
<1>3. IsFiniteSet(T) /\ Cardinality(T) \in Nat /\ Cardinality(T) <= faults + shutdowns
  BY <1>2, FS_CardinalityType DEF Unharmed
<1>4. \A w \in Workers \ T : w # u => Watches(w)'
  BY <1>2, OthersWatch DEF Unharmed
<1>5. CASE faults' = faults /\ shutdowns' = shutdowns
  <2>1. u \notin T => Watches(u)'
    BY <1>2, <1>5, OwnWatch DEF Unharmed
  <2>2. Unharmed(T)'
    BY <1>3, <1>4, <1>5, <2>1 DEF Unharmed
  <2> QED
    BY <2>2 DEF SomeWatch
<1>6. CASE ~(faults' = faults /\ shutdowns' = shutdowns)
  <2>1. IsFiniteSet(T \cup {u}) /\ Cardinality(T \cup {u}) <= Cardinality(T) + 1
        /\ Cardinality(T \cup {u}) \in Nat
    BY <1>3, FS_AddElement, FS_CardinalityType
  <2>2. Cardinality(T \cup {u}) <= faults' + shutdowns'
    BY <1>0, <1>1, <1>t, <1>3, <1>6, <2>1
  <2>3. Unharmed(T \cup {u})'
    BY <1>4, <2>1, <2>2 DEF Unharmed
  <2> QED
    BY <2>3 DEF SomeWatch
<1> QED
  BY <1>5, <1>6

(* Every step of a runner preserves the invariant.                         *)
LEMMA RecoverStep ==
  ASSUME RecoverInv, TTLCoversLostRenewals, NEW u \in Workers, RunnerStep(u)
  PROVE  RecoverInv'
<1>1. BodyInv' /\ RenewalsInBody'
  BY BodyStep, RenewalsStep DEF RecoverInv, BodyInv, FiringInv
<1>2. OutcomesAreRecent' /\ OwnerIsLatest' /\ OutcomesOutlive' /\ SomeWatch'
  BY OutcomesStep, OwnerStep, OutcomesOutliveStep, SomeWatchStep
<1> QED
  BY <1>1, <1>2 DEF RecoverInv

(* So does time, which waits for the timers and the statements.            *)
LEMMA RecoverTick ==
  ASSUME RecoverInv, TimelyTick
  PROVE  RecoverInv'
<1>0. /\ BodyInv /\ TypeOK /\ BodyInv'
  BY BodyTick DEF RecoverInv, BodyInv, FiringInv
<1>1. /\ now' = now + 1
      /\ UNCHANGED <<skew, row, pc, since, shutAt, stamp, scheduled, claimedAt, renSt,
                     faults, shutdowns>>
      /\ \A w \in Workers : OnTime(w)
  BY DEF TimelyTick, Tick, workVars, renVars, world
<1>t. /\ now \in Nat /\ RecordTime \in Nat /\ TimerLag \in Nat
      /\ \A w \in Workers : since[w] \in Nat
  BY <1>0, TimesAreNumbers
<1>2. RenewalsInBody'
  BY <1>1 DEF RecoverInv, RenewalsInBody
<1>3. OutcomesAreRecent'
  <2> SUFFICES ASSUME NEW w \in Workers
               PROVE  /\ pc[w] = "record" => /\ since[w] <= now + 1
                                             /\ now + 1 <= since[w] + RecordTime
                                             /\ Look(w) = since[w]
                      /\ pc[w] = "complete" => since[w] <= Look(w) + RecordTime
    BY <1>1 DEF OutcomesAreRecent, Look
  <2>1. /\ pc[w] = "record" => since[w] <= now /\ Look(w) = since[w]
        /\ pc[w] = "complete" => since[w] <= Look(w) + RecordTime
    BY DEF RecoverInv, OutcomesAreRecent
  <2>2. pc[w] = "record" => now < since[w] + RecordTime
    BY <1>1 DEF OnTime
  <2> QED
    BY <1>t, <2>1, <2>2
<1>4. OwnerIsLatest' /\ OutcomesOutlive'
  BY <1>1 DEF RecoverInv, OwnerIsLatest, OutcomesOutlive, Owns, Look, Outlives
<1>5. \A w \in Workers : Watches(w) => Watches(w)'
  <2> SUFFICES ASSUME NEW w \in Workers, Watches(w)
               PROVE  Watches(w)'
    OBVIOUS
  <2>1. ~Cancelled(w)' /\ pc'[w] \notin Down
    BY <1>1 DEF Watches, Cancelled
  <2>2. ASSUME pc[w] = "start" PROVE since[w] = 0 /\ now + 1 <= TimerLag
    BY <1>t, <1>1, <2>2 DEF Watches, OnTime
  <2>3. ASSUME pc[w] = "idle"
        PROVE  since[w] <= now + 1 /\ now + 1 <= since[w] + Nap /\ Outlives(since[w] - Slack)
    <3>1. since[w] <= now /\ Outlives(since[w] - Slack) /\ ~Cancelled(w)
      BY <2>3 DEF Watches
    <3>2. now < since[w] + Sleep + JitterCap + TimerLag
      BY <1>1, <2>3, <3>1 DEF OnTime
    <3> QED
      BY <1>t, <3>1, <3>2, PeriodTypes, DurationsAssumption DEF Nap
  <2>4. pc[w] \in Ensuring \cup {"find"} => Outlives(Look(w) - Nap - Slack)
    BY DEF Watches
  <2>5. pc[w] = "update" => \/ ClaimMatches(w) /\ Outlives(Look(w) - Nap - Slack)
                            \/ Outlives(since[w] - RecordTime - DbLatency)
    BY DEF Watches
  <2>6. \A t : Outlives(t) => (row' # NoRow => row'.next >= t \/ row'.expires >= t)
    BY <1>1 DEF Outlives
  <2>7. ClaimMatches(w) => ClaimMatches(w)'
    BY <1>1 DEF ClaimMatches, Due, ClaimFresh
  <2>8. Look(w)' = Look(w) /\ since'[w] = since[w] /\ pc'[w] = pc[w]
    BY <1>1 DEF Look
  <2> QED
    BY <1>1, <2>1, <2>2, <2>3, <2>4, <2>5, <2>6, <2>7, <2>8 DEF Watches, Outlives, Nap, Slack
<1>6. SomeWatch'
  <2>1. PICK T \in SUBSET Workers : Unharmed(T)
    BY DEF RecoverInv, SomeWatch
  <2>2. Unharmed(T)'
    BY <1>1, <1>5, <2>1 DEF Unharmed
  <2> QED
    BY <2>2 DEF SomeWatch
<1> QED
  BY <1>0, <1>2, <1>3, <1>4, <1>6 DEF RecoverInv

(* A runner that watches sees to it that the row is not due for longer.    *)
LEMMA WatchedRow ==
  ASSUME RecoverInv, TTLCoversLostRenewals, NEW w \in Workers, Watches(w)
  PROVE  Outlives(now - LookAgain)
<1>0. BodyInv /\ TypeOK
  BY DEF RecoverInv, BodyInv, FiringInv
<1>t. /\ now \in Nat /\ since[w] \in Nat /\ stamp[w] \in Nat /\ skew[w] \in Nat
      /\ Look(w) \in Int /\ Look(w) = stamp[w] - skew[w]
      /\ DbLatency \in Nat /\ RecordTime \in Nat /\ TimerLag \in Nat
      /\ Nap \in Nat /\ Slack \in Nat /\ TimerLag <= Nap
      /\ Slack = RecordTime + 5 * DbLatency /\ LookAgain = Nap + Slack + 6 * DbLatency
  BY <1>0, TimesAreNumbers DEF Look
<1>k. \A t \in Int : now - LookAgain <= t /\ Outlives(t) => Outlives(now - LookAgain)
  BY <1>0, <1>t, OutlivesEarlier
<1>s. /\ pc[w] \in DbAwaits => now <= since[w] + DbLatency
      /\ pc[w] = "ensure" => stamp[w] = since[w] + skew[w]
      /\ pc[w] = "existing" => stamp[w] + DbLatency >= since[w] + skew[w]
      /\ pc[w] = "rename" => stamp[w] + 2 * DbLatency >= since[w] + skew[w]
      /\ pc[w] = "reread" => stamp[w] + 3 * DbLatency >= since[w] + skew[w]
      /\ pc[w] = "find" => stamp[w] + 4 * DbLatency >= since[w] + skew[w]
      /\ pc[w] = "update" => stamp[w] + 5 * DbLatency >= since[w] + skew[w]
  BY <1>0 DEF BodyInv, StampsAreRecent
<1>1. CASE pc[w] = "start"
  <2>1. now <= TimerLag
    BY <1>1 DEF Watches
  <2> QED
    BY <1>0, <1>t, <2>1, OutlivesTheStart
<1>2. CASE pc[w] = "idle"
  <2>1. now <= since[w] + Nap /\ Outlives(since[w] - Slack)
    BY <1>2 DEF Watches
  <2>2. since[w] - Slack \in Int /\ now - LookAgain <= since[w] - Slack
    BY <1>t, <2>1
  <2> QED
    BY <1>k, <2>1, <2>2
<1>3. CASE pc[w] \in Ensuring \cup {"find"} \/ (pc[w] = "update" /\ ClaimMatches(w)
                                            /\ Outlives(Look(w) - Nap - Slack))
  <2>1. Outlives(Look(w) - Nap - Slack)
    BY <1>3 DEF Watches
  <2>2. now - 6 * DbLatency <= Look(w)
    BY <1>t, <1>s, <1>3 DEF DbAwaits, Ensuring
  <2>3. Look(w) - Nap - Slack \in Int /\ now - LookAgain <= Look(w) - Nap - Slack
    BY <1>t, <2>2
  <2> QED
    BY <1>k, <2>1, <2>3
<1>4. CASE pc[w] = "update" /\ Outlives(since[w] - RecordTime - DbLatency)
  <2>1. /\ since[w] - RecordTime - DbLatency \in Int
        /\ now - LookAgain <= since[w] - RecordTime - DbLatency
    BY <1>t, <1>s, <1>4 DEF DbAwaits, Ensuring
  <2> QED
    BY <1>k, <1>4, <2>1
<1>5. CASE pc[w] = "body"
  <2>1. row # NoRow /\ row.expires > now + MaxSkew /\ row.expires \in Nat
    BY <1>0, <1>5, ClaimIsFresh, RowFields
  <2> QED
    BY <1>t, <2>1, DurationsAssumption DEF Outlives
<1>6. CASE pc[w] \in Outcome
  <2>1. /\ Outlives(Look(w))
        /\ pc[w] = "record" => now <= since[w] + RecordTime /\ Look(w) = since[w]
        /\ pc[w] = "complete" => since[w] <= Look(w) + RecordTime
    BY <1>6 DEF RecoverInv, OutcomesOutlive, OutcomesAreRecent
  <2>2. now - LookAgain <= Look(w)
    BY <1>t, <1>s, <1>6, <2>1 DEF Outcome, DbAwaits, Ensuring
  <2> QED
    BY <1>t, <1>k, <2>1, <2>2
<1>7. pc[w] \in PCs /\ pc[w] \notin Down
  BY <1>0 DEF TypeOK, Watches
<1>8. pc[w] = "update" => \/ ClaimMatches(w) /\ Outlives(Look(w) - Nap - Slack)
                          \/ Outlives(since[w] - RecordTime - DbLatency)
  BY DEF Watches
<1> QED
  BY <1>1, <1>2, <1>3, <1>4, <1>5, <1>6, <1>7, <1>8 DEF PCs, DbAwaits, Ensuring, Down, Outcome

(* It is kept when nothing is late, and bounds the time to the next claim. *)
LEMMA RecoverInvHolds ==
  ASSUME TTLCoversLostRenewals
  PROVE  /\ Init => RecoverInv
         /\ RecoverInv /\ [Step \/ TimelyTick]_vars => RecoverInv'
         /\ RecoverInv => FiringRecovers
<1>1. Init => RecoverInv
  <2> SUFFICES ASSUME Init PROVE RecoverInv
    OBVIOUS
  <2>1. BodyInv
    BY BodyInit
  <2>2. RenewalsInBody /\ OutcomesAreRecent /\ OwnerIsLatest /\ OutcomesOutlive
    BY DEF Init, RenewalsInBody, OutcomesAreRecent, OwnerIsLatest, OutcomesOutlive, Outcome
  <2>3. \A w \in Workers : Watches(w)
    BY DurationsAssumption DEF Init, Watches, Cancelled, NotShut, Down, Ensuring
  <2>4. Unharmed({})
    BY <2>3, FS_EmptySet DEF Init, Unharmed
  <2> QED
    BY <2>1, <2>2, <2>4 DEF RecoverInv, SomeWatch
<1>2. RecoverInv /\ [Step \/ TimelyTick]_vars => RecoverInv'
  <2> SUFFICES ASSUME RecoverInv, [Step \/ TimelyTick]_vars PROVE RecoverInv'
    OBVIOUS
  <2>1. CASE Step
    BY <2>1, RecoverStep DEF Step
  <2>2. CASE TimelyTick
    BY <2>2, RecoverTick
  <2>3. CASE UNCHANGED vars
    <3>1. BodyInv'
      BY <2>3, BodyIdle DEF RecoverInv
    <3>2. RenewalsInBody' /\ OutcomesAreRecent' /\ OwnerIsLatest' /\ OutcomesOutlive'
      BY <2>3 DEF vars, RecoverInv, RenewalsInBody, OutcomesAreRecent, OwnerIsLatest,
                  OutcomesOutlive, Owns, Look, Outlives
    <3>3. SomeWatch'
      BY <2>3 DEF vars, RecoverInv, SomeWatch, Unharmed, Watches, Cancelled, ClaimMatches,
                  Due, ClaimFresh, Look, Outlives, Nap, Slack
    <3> QED
      BY <3>1, <3>2, <3>3 DEF RecoverInv
  <2> QED
    BY <2>1, <2>2, <2>3
<1>3. RecoverInv => FiringRecovers
  <2> SUFFICES ASSUME RecoverInv, row # NoRow, faults + shutdowns < Cardinality(Workers)
               PROVE  now <= row.next + LookAgain \/ now <= row.expires + LookAgain
    BY DEF FiringRecovers
  <2>1. PICK T \in SUBSET Workers : Unharmed(T)
    BY DEF RecoverInv, SomeWatch
  <2>t. TypeOK /\ faults + shutdowns \in Nat
    BY DurationsAssumption DEF RecoverInv, BodyInv, FiringInv, TypeOK
  <2>2. T # Workers
    <3>1. Cardinality(T) \in Nat /\ Cardinality(T) <= faults + shutdowns
      BY <2>1, FS_CardinalityType DEF Unharmed
    <3>2. T = Workers => Cardinality(T) = Cardinality(Workers)
      OBVIOUS
    <3> QED
      BY <2>t, <3>1, <3>2
  <2>3. PICK w \in Workers \ T : Watches(w)
    BY <2>1, <2>2 DEF Unharmed
  <2>4. Outlives(now - LookAgain)
    BY <2>3, WatchedRow
  <2> QED
    BY <2>t, <2>4, RowFields, TimesAreNumbers DEF Outlives
<1> QED
  BY <1>1, <1>2, <1>3

(* When nothing is late and the TTL covers the renewals that may be lost,  *)
(* a firing that is due, and whose last claim has run out, is taken in     *)
(* hand within LookAgain, as long as one runtime met neither a fault nor a *)
(* shutdown: whichever statement fails, with or without having taken       *)
(* effect, and whoever crashes, none of them leaves the row in a state     *)
(* from which no runtime goes on.                                          *)
THEOREM FiringsRecover ==
  ASSUME TTLCoversLostRenewals
  PROVE  TimelySpec => []FiringRecovers
<1>1. Init => RecoverInv
  BY RecoverInvHolds
<1>2. RecoverInv /\ [Step \/ TimelyTick]_vars => RecoverInv'
  BY RecoverInvHolds
<1>3. RecoverInv => FiringRecovers
  BY RecoverInvHolds
<1> QED
  BY <1>1, <1>2, <1>3, PTL DEF TimelySpec
=============================================================================
