------------------------------- MODULE MCTasks -------------------------------
(***************************************************************************)
(* The two ways a runtime works on rows it claims, for TLC, where nothing  *)
(* is too late: the execution of queued tasks under TaskGuard's            *)
(* promptness, and scheduled tasks under TimelySpec.  They share no state: *)
(* `part` says which of them a behaviour is about; the execution stays in  *)
(* its initial state when the schedule runs, and the variables of the      *)
(* schedule keep the value Unused when the execution does.  Worker slots,  *)
(* or runtimes, are interchangeable.                                       *)
(***************************************************************************)
EXTENDS TaskGuard, TLC

CONSTANTS
  NoOwner, NoRow, Interval, Second, JitterCap, ClaimTTL, MinRenew, Grace, DbLatency,
  RecordTime, TimerLag, MaxSkew, MaxTime, MaxShutdowns,       \* ScheduledTask
  Unused

ASSUME ScheduleAssumption ==
  /\ Interval \in Nat /\ Second \in Nat \ {0} /\ JitterCap \in Nat
  /\ ClaimTTL \in Nat \ {0} /\ MinRenew \in Nat \ {0} /\ Grace \in Nat
  /\ DbLatency \in Nat /\ RecordTime \in Nat /\ TimerLag \in Nat
  /\ MaxSkew \in Nat /\ MaxTime \in Nat /\ MaxShutdowns \in Nat
  /\ NoOwner \notin Workers

VARIABLES
  part,
  now, skew, row, at, since, shutAt, stamp, scheduled, claimedAt,
  renSt, renNow, renDue, misses, shutdowns, recorded, finished   \* ScheduledTask

Schedule == INSTANCE MCScheduledTask WITH pc <- at, faults <- misses

ASSUME NoRowAssumption == NoRow \notin Schedule!Rows

scheduleVars == <<now, skew, row, at, since, shutAt, stamp, scheduled, claimedAt,
                  renSt, renNow, renDue, misses, shutdowns, recorded, finished>>
allVars == <<part, vars, scheduleVars>>

NoSchedule ==
  /\ now = Unused /\ skew = Unused /\ row = Unused /\ at = Unused /\ since = Unused
  /\ shutAt = Unused /\ stamp = Unused /\ scheduled = Unused /\ claimedAt = Unused
  /\ renSt = Unused /\ renNow = Unused /\ renDue = Unused /\ misses = Unused
  /\ shutdowns = Unused /\ recorded = Unused /\ finished = Unused

InitOfPart ==
  /\ Init
  /\ \/ part = "execution" /\ NoSchedule
     \/ part = "schedule" /\ Schedule!Init

InExecution(A) == part = "execution" /\ A /\ UNCHANGED <<part, scheduleVars>>
InSchedule(A) == part = "schedule" /\ A /\ UNCHANGED <<part, vars>>

(* The bound on the clock ends a behaviour of the schedule only here.      *)
NextOfPart ==
  \/ InExecution(TimelyNext)
  \/ InSchedule(Schedule!Step \/ Schedule!TimelyTick)
  \/ InSchedule(now = MaxTime /\ UNCHANGED scheduleVars)

SpecOfPart == InitOfPart /\ [][NextOfPart]_allVars

WorkerSymmetry == Permutations(Workers)

(* States of the execution are told apart by what an action or a property  *)
(* still reads: of a row its lease while it is claimed, its due time until *)
(* it is, a cancellation request until it is settled; of a run its         *)
(* snapshot until it was used, its guard while the body or a heartbeat     *)
(* that may yet fail asks for it, and the age of what it waits for.        *)
LiveRows ==
  [t \in Tasks |->
     <<status[t], procToken[t], attemptCount[t],
       CASE status[t] = "processing" -> <<cancelReq[t], leaseLeft[t]>>
         [] status[t] \in {"pending", "retry"} -> <<cancelReq[t], dueIn[t]>>
         [] OTHER -> <<>> >>]

LiveSnapshot(w) ==
  IF pc[w] = "claimed" THEN <<snapAttempts[w], snapCancel[w]>>
  ELSE IF pc[w] \in {"body", "ackFirst", "retry", "fail"} \/ outcome[w] = "retried"
    THEN <<snapAttempts[w]>>
  ELSE <<>>

LiveGuard(w) ==
  IF pc[w] = "body" \/ (hb[w] \in {"wait", "touch"} /\ faults < MaxFaults)
  THEN <<term[w], IF term[w] = "none" THEN guardAge[w] ELSE 0>>
  ELSE <<>>

LiveBeat(w) ==
  <<hb[w], IF pc[w] = "claimed" \/ hb[w] \in {"wait", "touch"} THEN hbAge[w] ELSE 0>>

LiveRuns ==
  [w \in Workers |->
     <<pc[w], task[w], lease[w], result[w], outcome[w], shutdown[w],
       LiveSnapshot(w), LiveGuard(w), LiveBeat(w)>>]

View ==
  IF part = "schedule" THEN Schedule!TimedView ELSE <<LiveRows, LiveRuns, faults>>

-----------------------------------------------------------------------------
(* Properties of the schedule; those of the execution are in its modules.  *)

(* Two runtimes never run the body at the same time, although a renewal    *)
(* fails and statements take as long as the TTL allows for                 *)
(* (run_scheduled_claim_renewal_loop).                                     *)
OneBodyAtATime == part = "schedule" => Schedule!OneBodyAtATime

(* A due firing is not forgotten: once it is due and the last claim on it  *)
(* has run out, a runtime takes it in hand before long, whichever          *)
(* statement or runner fails (claim_due, run_scheduled_periodic_task).     *)
FiringRecovers == part = "schedule" => Schedule!FiringRecovers
=============================================================================
