---------------------------- MODULE ScheduledTask ----------------------------
(***************************************************************************)
(* One scheduled runtime task that several runtimes fire together: the     *)
(* runner loop of aster_forge_tasks/src/schedule.rs over one catalog row   *)
(* of scheduled_tasks (aster_forge_db/src/scheduled_task.rs).              *)
(*                                                                         *)
(* A runner wakes once per interval, makes sure that the row exists, takes *)
(* a claim on the firing that is due, runs the task body while a renewal   *)
(* loop extends the claim, records the outcome, and completes the claim,   *)
(* which moves next_run_at.  The runners sit in a BackgroundTasks group    *)
(* that is shut down, and aborted after a grace period, when the runtime   *)
(* stops or loses its lease; the same runtime may start a new group later. *)
(*                                                                         *)
(* Every await is a value of pc or of renSt, and a statement takes effect  *)
(* in the step that ends its await.  It may fail, with or without having   *)
(* taken effect.  Timestamps are absolute and read off the runtime's own   *)
(* clock, `now' plus a constant skew.  Timers are never early; TimelySpec  *)
(* adds that they, and the statements, are not late.                       *)
(***************************************************************************)
EXTENDS Integers, FiniteSets

CONSTANTS
  Workers,        \* runtimes, by the owner id of their scheduler
  NoOwner,        \* claim_owner_id is NULL
  NoRow,          \* the catalog has no row for the task
  Interval,       \* interval_fn, 0 included
  Second,         \* one second, the floor of the sleep
  JitterCap,      \* longest jitter added to the sleep
  ClaimTTL,       \* claim_ttl
  MinRenew,       \* ten milliseconds, the floor of the renewal period
  Grace,          \* shutdown_grace of the task group
  DbLatency,      \* longest await of one statement
  RecordTime,     \* longest await of the recorder hook
  TimerLag,       \* longest delay between a timer and the step it wakes
  MaxSkew,        \* how far a runtime's clock runs ahead
  MaxTime,        \* bound: the clock
  MaxFaults,      \* bound: failed statements, recorder panics and crashes
  MaxShutdowns    \* bound: shutdowns of task groups

ASSUME DurationsAssumption ==
  /\ Interval \in Nat /\ Second \in Nat \ {0} /\ JitterCap \in Nat
  /\ ClaimTTL \in Nat \ {0} /\ MinRenew \in Nat \ {0} /\ Grace \in Nat
  /\ DbLatency \in Nat /\ RecordTime \in Nat /\ TimerLag \in Nat
  /\ MaxSkew \in Nat /\ MaxTime \in Nat /\ MaxFaults \in Nat /\ MaxShutdowns \in Nat

ASSUME NoOwnerAssumption == NoOwner \notin Workers

Rows == [next : Nat, owner : Workers \cup {NoOwner}, expires : Nat, claimed : Nat]

ASSUME NoRowAssumption == NoRow \notin Rows

(* periodic_sleep_duration without its jitter, which Tick leaves open, and *)
(* scheduled_claim_renew_interval.                                         *)
Sleep == IF Interval = 0 THEN Second ELSE Interval

RenewInterval == IF ClaimTTL \div 3 < MinRenew THEN MinRenew ELSE ClaimTTL \div 3

NotShut == -1

VARIABLES
  now,        \* real time
  skew,       \* skew[w]: what Utc::now() of runtime w is ahead of it
  row,        \* the catalog row; expires and claimed are 0 while NULL
  pc,         \* pc[w]: the await the runner of w is in
  since,      \* since[w]: when it began, if it has a limit
  shutAt,     \* shutAt[w]: when its shutdown token was cancelled
  stamp,      \* stamp[w]: `now' of the request, later finished_at
  scheduled,  \* scheduled[w]: next_run_at as read, scheduled_at of the claim
  claimedAt,  \* claimedAt[w]: claimed_at of the claim
  renSt,      \* renSt[w]: the renewal loop: off, waiting, or flying
  renNow,     \* renNow[w]: `now' of the renewal in flight
  renDue,     \* renDue[w]: when the ticker fires next
  faults,     \* faults so far
  shutdowns,  \* shutdowns so far
  recorded,   \* history: firings whose outcome was recorded
  finished    \* history: firings whose claim was completed

workData == <<stamp, scheduled, claimedAt>>
workVars == <<pc, since, stamp, scheduled, claimedAt>>
renVars == <<renSt, renNow, renDue>>
history == <<recorded, finished>>
world == <<skew, shutAt, shutdowns>>
vars == <<now, skew, row, pc, since, shutAt, stamp, scheduled, claimedAt,
          renSt, renNow, renDue, faults, shutdowns, recorded, finished>>

Down == {"stopped", "crashed"}
Ensuring == {"ensure", "existing", "rename", "reread"}
DbAwaits == Ensuring \cup {"find", "update", "complete"}
Claiming == {"body", "record", "complete"}   \* the runner holds a claim
PCs == {"start", "idle", "record", "body"} \cup DbAwaits \cup Down

Init ==
  /\ now = 0
  /\ skew \in [Workers -> 0..MaxSkew]
  /\ row = NoRow
  /\ pc = [w \in Workers |-> "start"]
  /\ since = [w \in Workers |-> 0]
  /\ shutAt = [w \in Workers |-> NotShut]
  /\ stamp = [w \in Workers |-> 0]
  /\ scheduled = [w \in Workers |-> 0]
  /\ claimedAt = [w \in Workers |-> 0]
  /\ renSt = [w \in Workers |-> "off"]
  /\ renNow = [w \in Workers |-> 0]
  /\ renDue = [w \in Workers |-> 0]
  /\ faults = 0 /\ shutdowns = 0
  /\ recorded = {} /\ finished = {}

Clock(w) == now + skew[w]
Cancelled(w) == shutAt[w] # NotShut

(* What the statements do to the row.                                      *)

EnsuredRow(w) ==
  IF row = NoRow
  THEN [next |-> stamp[w], owner |-> NoOwner, expires |-> 0, claimed |-> 0]
  ELSE row

(* claim_due reads the row first, and its update repeats the tests.        *)
ClaimFresh(at) == row.owner # NoOwner /\ row.expires > at
Due(w) == row # NoRow /\ row.next <= stamp[w] /\ ~ClaimFresh(stamp[w])

(* Mutant: the update does not compare next_run_at with the value read.    *)
ClaimsWhatIsDue(w) == Due(w)

ClaimMatches(w) == Due(w) /\ row.next = scheduled[w]

ClaimedRow(w) ==
  IF ClaimMatches(w)
  THEN [next |-> row.next, owner |-> w, expires |-> stamp[w] + ClaimTTL,
        claimed |-> stamp[w]]
  ELSE row

(* The predicate of renew_claim and complete_claim: the owner and the time *)
(* of the claim, never its expiry.                                         *)
Owns(w) == row # NoRow /\ row.owner = w /\ row.claimed = claimedAt[w]

RenewedRow(w) ==
  IF Owns(w)
  THEN [next |-> row.next, owner |-> w, expires |-> renNow[w] + ClaimTTL,
        claimed |-> row.claimed]
  ELSE row

NextRun(w) == stamp[w] + Interval

(* Mutant: completion is not fenced by the claim.                          *)
CompletesAnyway(w) == NextRun(w) > scheduled[w] /\ row # NoRow

Completes(w) == NextRun(w) > scheduled[w] /\ Owns(w)

CompletedRow(w) ==
  IF Completes(w)
  THEN [next |-> NextRun(w), owner |-> NoOwner, expires |-> 0,
        claimed |-> row.claimed]
  ELSE row

CompletedFirings(w) ==
  IF Completes(w) THEN finished \cup {scheduled[w]} ELSE finished

Goto(w, l) ==
  /\ pc' = [pc EXCEPT ![w] = l]
  /\ since' = [since EXCEPT ![w] = IF l \in Down \cup {"body"} THEN 0 ELSE now]

(* The iteration is over; what it remembered is dropped.                   *)
Return(w, l) ==
  /\ Goto(w, l)
  /\ stamp' = [stamp EXCEPT ![w] = 0]
  /\ scheduled' = [scheduled EXCEPT ![w] = 0]
  /\ claimedAt' = [claimedAt EXCEPT ![w] = 0]

RenewalOff(w) ==
  /\ renSt' = [renSt EXCEPT ![w] = "off"]
  /\ renNow' = [renNow EXCEPT ![w] = 0]
  /\ renDue' = [renDue EXCEPT ![w] = 0]

Fault == faults < MaxFaults /\ faults' = faults + 1

-----------------------------------------------------------------------------
(* The runner.                                                             *)

(* The first iteration starts at once, the others after a sleep.  The      *)
(* select is biased towards the shutdown.                                  *)
Wake(w) ==
  /\ \/ pc[w] = "start"
     \/ pc[w] = "idle" /\ now >= since[w] + Sleep
  /\ ~Cancelled(w)
  /\ Goto(w, "ensure")
  /\ stamp' = [stamp EXCEPT ![w] = Clock(w)]
  /\ UNCHANGED <<now, row, scheduled, claimedAt, renVars, faults, world, history>>

LeaveLoop(w) ==
  /\ pc[w] \in {"start", "idle"} /\ Cancelled(w)
  /\ Goto(w, "stopped")
  /\ UNCHANGED <<now, row, stamp, scheduled, claimedAt, renVars, faults, world,
                 history>>

(* ensure_task inserts the row.  Some backends then read back what they    *)
(* inserted; on every look but the first the insert is refused, because    *)
(* the row is there, or fails for another reason, and the row is read.     *)
Ensure(w) ==
  /\ pc[w] = "ensure"
  /\ row' = EnsuredRow(w)
  /\ \/ row = NoRow /\ Goto(w, "find")
     \/ row = NoRow /\ Goto(w, "reread")
     \/ row # NoRow /\ Goto(w, "existing")
  /\ UNCHANGED <<now, stamp, scheduled, claimedAt, renVars, faults, world, history>>

EnsureFails(w) ==
  /\ pc[w] = "ensure" /\ Fault
  /\ row' \in {row, EnsuredRow(w)}
  /\ Goto(w, "existing")
  /\ UNCHANGED <<now, stamp, scheduled, claimedAt, renVars, world, history>>

(* Mutant: the refused insert is a failure like any other.                 *)
RefusedInsertFails(w) ==
  /\ pc[w] = "existing" /\ Return(w, "idle")
  /\ UNCHANGED <<now, row, renVars, faults, world, history>>

(* refresh_existing_task goes on with the claim, or first rewrites the     *)
(* display name, which runtimes of two releases set in turn; a row that is *)
(* not there ends the iteration.                                           *)
Refresh(w) ==
  /\ pc[w] = "existing"
  /\ \/ row # NoRow /\ Goto(w, "find") /\ UNCHANGED workData
     \/ row # NoRow /\ Goto(w, "rename") /\ UNCHANGED workData
     \/ row = NoRow /\ Return(w, "idle")
  /\ UNCHANGED <<now, row, renVars, faults, world, history>>

(* Neither the update of the display name nor the read of the row after it *)
(* touches the columns of Rows, and no row is ever deleted.                *)
Rename(w) ==
  /\ pc[w] = "rename" /\ Goto(w, "reread")
  /\ UNCHANGED <<now, row, workData, renVars, faults, world, history>>

Reread(w) ==
  /\ pc[w] = "reread" /\ Goto(w, "find")
  /\ UNCHANGED <<now, row, workData, renVars, faults, world, history>>

Find(w) ==
  /\ pc[w] = "find"
  /\ \/ /\ Due(w)
        /\ Goto(w, "update")
        /\ scheduled' = [scheduled EXCEPT ![w] = row.next]
        /\ UNCHANGED <<stamp, claimedAt>>
     \/ ~Due(w) /\ Return(w, "idle")
  /\ UNCHANGED <<now, row, renVars, faults, world, history>>

(* The claim is taken: the renewal loop is spawned, its first tick spent,  *)
(* and the body starts.                                                    *)
Claim(w) ==
  /\ pc[w] = "update" /\ ClaimMatches(w)
  /\ row' = ClaimedRow(w)
  /\ Goto(w, "body")
  /\ claimedAt' = [claimedAt EXCEPT ![w] = stamp[w]]
  /\ renSt' = [renSt EXCEPT ![w] = "waiting"]
  /\ renDue' = [renDue EXCEPT ![w] = now + RenewInterval]
  /\ UNCHANGED <<now, stamp, scheduled, renNow, faults, world, history>>

LoseClaim(w) ==
  /\ pc[w] = "update" /\ ~ClaimMatches(w)
  /\ Return(w, "idle")
  /\ UNCHANGED <<now, row, renVars, faults, world, history>>

(* The body returns or panics.  The renewal loop is cancelled and joined:  *)
(* a renewal in flight is dropped, whether or not it took effect.          *)
BodyReturns(w) ==
  /\ pc[w] = "body"
  /\ row' \in {row} \cup (IF renSt[w] = "flying" THEN {RenewedRow(w)} ELSE {})
  /\ Goto(w, "record")
  /\ stamp' = [stamp EXCEPT ![w] = Clock(w)]
  /\ RenewalOff(w)
  /\ UNCHANGED <<now, scheduled, claimedAt, faults, world, history>>

Record(w) ==
  /\ pc[w] = "record"
  /\ recorded' = recorded \cup {scheduled[w]}
  /\ Goto(w, "complete")
  /\ UNCHANGED <<now, row, stamp, scheduled, claimedAt, renVars, faults, world,
                 finished>>

(* Mutant: a recorder that panics does not stop the completion.            *)
RecordPanicIgnored(w) ==
  /\ pc[w] = "record" /\ Fault
  /\ Goto(w, "complete")
  /\ UNCHANGED <<now, row, stamp, scheduled, claimedAt, renVars, world, history>>

(* A recorder that panics ends the iteration: the claim is left to expire. *)
RecordPanics(w) ==
  /\ pc[w] = "record" /\ Fault
  /\ Return(w, "idle")
  /\ UNCHANGED <<now, row, renVars, world, history>>

Complete(w) ==
  /\ pc[w] = "complete"
  /\ row' = CompletedRow(w)
  /\ finished' = CompletedFirings(w)
  /\ Return(w, "idle")
  /\ UNCHANGED <<now, renVars, faults, world, recorded>>

-----------------------------------------------------------------------------
(* The renewal loop.                                                       *)

RenewTick(w) ==
  /\ renSt[w] = "waiting" /\ now >= renDue[w]
  /\ renSt' = [renSt EXCEPT ![w] = "flying"]
  /\ renNow' = [renNow EXCEPT ![w] = Clock(w)]
  /\ renDue' = [renDue EXCEPT ![w] = now + RenewInterval]
  /\ UNCHANGED <<now, row, workVars, faults, world, history>>

Renew(w) ==
  /\ renSt[w] = "flying"
  /\ row' = RenewedRow(w)
  /\ \/ /\ Owns(w)
        /\ renSt' = [renSt EXCEPT ![w] = "waiting"]
        /\ renNow' = [renNow EXCEPT ![w] = 0]
        /\ UNCHANGED renDue
     \/ ~Owns(w) /\ RenewalOff(w)
  /\ UNCHANGED <<now, workVars, faults, world, history>>

(* Mutant: a failed renewal ends the loop, like a lost claim.              *)
RenewGivesUp(w) ==
  /\ renSt[w] = "flying" /\ Fault
  /\ row' \in {row, RenewedRow(w)}
  /\ RenewalOff(w)
  /\ UNCHANGED <<now, workVars, world, history>>

RenewFails(w) ==
  /\ renSt[w] = "flying" /\ Fault
  /\ row' \in {row, RenewedRow(w)}
  /\ renSt' = [renSt EXCEPT ![w] = "waiting"]
  /\ renNow' = [renNow EXCEPT ![w] = 0]
  /\ UNCHANGED <<now, workVars, renDue, world, history>>

(* The stop token is a child of the shutdown token: the loop ends with the *)
(* shutdown although the body goes on.                                     *)
RenewStops(w) ==
  /\ renSt[w] # "off" /\ Cancelled(w)
  /\ row' \in {row} \cup (IF renSt[w] = "flying" THEN {RenewedRow(w)} ELSE {})
  /\ RenewalOff(w)
  /\ UNCHANGED <<now, workVars, faults, world, history>>

-----------------------------------------------------------------------------
(* Failures, shutdown and time.                                            *)

(* The row once the statement that runtime w waits for has taken effect.   *)
PendingRow(w) ==
  IF pc[w] = "ensure" THEN EnsuredRow(w)
  ELSE IF pc[w] = "update" THEN ClaimedRow(w)
  ELSE IF pc[w] = "complete" THEN CompletedRow(w)
  ELSE IF renSt[w] = "flying" THEN RenewedRow(w)
  ELSE row

(* The statement w waits for is lost, with or without its effect.          *)
LoseStatement(w) ==
  \/ row' = PendingRow(w)
     /\ finished' = IF pc[w] = "complete" THEN CompletedFirings(w) ELSE finished
  \/ UNCHANGED <<row, finished>>

(* Any other statement that fails ends the iteration: it is logged and the *)
(* loop sleeps.                                                            *)
StatementFails(w) ==
  /\ pc[w] \in DbAwaits \ {"ensure"} /\ Fault
  /\ LoseStatement(w)
  /\ Return(w, "idle")
  /\ UNCHANGED <<now, renVars, world, recorded>>

Crash(w) ==
  /\ pc[w] \notin Down /\ Fault
  /\ LoseStatement(w)
  /\ Return(w, "crashed")
  /\ RenewalOff(w)
  /\ UNCHANGED <<now, world, recorded>>

(* BackgroundTasks::shutdown cancels the token and, when the grace period  *)
(* is over, aborts what still runs.                                        *)
Shutdown(w) ==
  /\ pc[w] \notin Down /\ ~Cancelled(w) /\ shutdowns < MaxShutdowns
  /\ shutAt' = [shutAt EXCEPT ![w] = now]
  /\ shutdowns' = shutdowns + 1
  /\ UNCHANGED <<now, skew, row, workVars, renVars, faults, history>>

Abort(w) ==
  /\ pc[w] \notin Down /\ Cancelled(w) /\ now >= shutAt[w] + Grace
  /\ LoseStatement(w)
  /\ Return(w, "stopped")
  /\ RenewalOff(w)
  /\ UNCHANGED <<now, faults, world, recorded>>

(* The runtime starts a new task group under the same owner id: its lease  *)
(* came back, or the process did.                                          *)
Restart(w) ==
  /\ pc[w] \in Down
  /\ Goto(w, "start")
  /\ shutAt' = [shutAt EXCEPT ![w] = NotShut]
  /\ UNCHANGED <<now, skew, row, stamp, scheduled, claimedAt, renVars, faults,
                 shutdowns, history>>

Tick ==
  /\ now < MaxTime
  /\ now' = now + 1
  /\ UNCHANGED <<row, workVars, renVars, faults, world, history>>

RunnerStep(w) ==
  \/ Wake(w) \/ LeaveLoop(w) \/ Ensure(w) \/ EnsureFails(w) \/ Refresh(w) \/ Rename(w)
  \/ Reread(w) \/ Find(w) \/ Claim(w) \/ LoseClaim(w)
  \/ BodyReturns(w) \/ Record(w) \/ RecordPanics(w) \/ Complete(w)
  \/ RenewTick(w) \/ Renew(w) \/ RenewFails(w) \/ RenewStops(w)
  \/ StatementFails(w) \/ Crash(w) \/ Shutdown(w) \/ Abort(w) \/ Restart(w)

Step == \E w \in Workers : RunnerStep(w)

Next == Step \/ Tick

Spec == Init /\ [][Next]_vars

(* What is not late: the wake-ups by more than the jitter and TimerLag,    *)
(* the statements by more than DbLatency, the recorder by more than        *)
(* RecordTime.  A body may take any time, short of the abort.              *)
OnTime(w) ==
  /\ pc[w] = "start" => now < since[w] + TimerLag
  /\ pc[w] = "idle" =>
       now < (IF Cancelled(w) THEN shutAt[w] ELSE since[w] + Sleep + JitterCap)
             + TimerLag
  /\ pc[w] \in DbAwaits => now < since[w] + DbLatency
  /\ pc[w] = "record" => now < since[w] + RecordTime
  /\ renSt[w] = "waiting" => now < renDue[w] + TimerLag
  /\ renSt[w] = "flying" => Clock(w) < renNow[w] + DbLatency
  /\ Cancelled(w) /\ pc[w] \notin Down =>
       /\ now < shutAt[w] + Grace + TimerLag
       /\ renSt[w] # "off" => now < shutAt[w] + TimerLag

TimelyTick == Tick /\ \A w \in Workers : OnTime(w)

TimelySpec == Init /\ [][Step \/ TimelyTick]_vars

-----------------------------------------------------------------------------
(* Properties.                                                             *)

(* The values each variable of a runner and of its row can take.           *)
TypeOK ==
  /\ now \in 0..MaxTime
  /\ skew \in [Workers -> 0..MaxSkew]
  /\ row \in Rows \cup {NoRow}
  /\ pc \in [Workers -> PCs]
  /\ since \in [Workers -> Nat]
  /\ shutAt \in [Workers -> Nat \cup {NotShut}]
  /\ stamp \in [Workers -> Nat]
  /\ scheduled \in [Workers -> Nat]
  /\ claimedAt \in [Workers -> Nat]
  /\ renSt \in [Workers -> {"off", "waiting", "flying"}]
  /\ renNow \in [Workers -> Nat]
  /\ renDue \in [Workers -> Nat]
  /\ faults \in 0..MaxFaults
  /\ shutdowns \in 0..MaxShutdowns
  /\ recorded \subseteq Nat
  /\ finished \subseteq Nat

(* next_run_at only moves forward, and only past a firing that the         *)
(* completing runtime had claimed: a runtime that lost its claim while its *)
(* body ran cannot move the schedule again with an older time, although    *)
(* the clocks of two runtimes disagree.                                    *)
NextRunAdvances ==
  [][row # NoRow /\ row' # row =>
       /\ row' # NoRow
       /\ row'.next # row.next => row'.next > row.next /\ row.next \in finished']_vars

(* A body never starts for a firing that was already completed: the time a *)
(* claim read from the row may be stale by the time the claim is written.  *)
CompletedNotRerun ==
  [][\A w \in Workers :
       pc[w] = "update" /\ pc'[w] = "body" => scheduled[w] \notin finished]_vars

(* A firing is only given up once its outcome was recorded: what fails, or *)
(* crashes, before that leaves the firing to be claimed again.             *)
FinishedIsRecorded == finished \subseteq recorded

(* Two runtimes never run the body at the same time.                       *)
OneBodyAtATime ==
  \A v, w \in Workers : pc[v] = "body" /\ pc[w] = "body" => v = w

(* The longest from the time a firing is due, or its last claim has run    *)
(* out, to the next claim.  A runtime that did not see it yet finishes its *)
(* look: `now' is five statements old when the row is found not to be due, *)
(* four to ensure the row and one to find it.  (A next_run_at that another *)
(* runtime computed is no older than its recorder and a statement.)  It    *)
(* sleeps, and has the claim by the end of six more statements.            *)
LookAgain == Sleep + JitterCap + TimerLag + RecordTime + 11 * DbLatency

(* A due firing is not forgotten: whichever statement or runner fails, or  *)
(* is shut down, once the firing is due and the last claim on it has run   *)
(* out, a runtime takes it in hand before long, as long as one of them met *)
(* neither a fault nor a shutdown.                                         *)
FiringRecovers ==
  row # NoRow /\ faults + shutdowns < Cardinality(Workers) =>
    \/ now <= row.next + LookAgain
    \/ now <= row.expires + LookAgain
=============================================================================
