---------------------------- MODULE RuntimeLease ----------------------------
(***************************************************************************)
(* The runtime lease: which process instance may run a singleton group of  *)
(* background workers.  Every instance runs run_runtime_lease_supervisor   *)
(* (aster_forge_runtime/src/lease.rs) against one row of the table         *)
(* runtime_leases (aster_forge_db/src/runtime_lease.rs).                   *)
(*                                                                         *)
(* A supervisor is one async task: what it does between two awaits is one  *)
(* step here, and every await (a statement, a sleep, the stop of the       *)
(* workload) is a value of pc.  A statement takes effect and answers in    *)
(* the step that ends its await; it may also fail, with or without having  *)
(* taken effect.  The timestamps a statement carries are read when its     *)
(* await begins.                                                           *)
(***************************************************************************)
EXTENDS Integers

CONSTANTS
  Instances,       \* owner ids; a restarted process has a fresh one
  NoRow,           \* the table holds no row for the lease id
  ConfigTTL,       \* RuntimeLeaseConfig: ttl, renew_interval and
  ConfigRenew,     \*   standby_retry_interval as configured, 0 included
  ConfigRetry,
  DefaultTTL,      \* DEFAULT_RUNTIME_LEASE_TTL
  DefaultRetry,    \* DEFAULT_RUNTIME_LEASE_RETRY_INTERVAL
  Second,          \* one second, in units of time
  DbLatency,       \* longest await of one statement
  StopTime,        \* longest await of stop_workload
  TimerLag,        \* longest delay between a timer and the step it wakes
  MaxSkew,         \* how far an instance's Utc::now() runs ahead
  MaxFaults        \* bound: failed statements and crashes of one behaviour

ASSUME DurationsAssumption ==
  /\ ConfigTTL \in Nat /\ ConfigRenew \in Nat /\ ConfigRetry \in Nat
  /\ DefaultTTL \in Nat \ {0} /\ DefaultRetry \in Nat \ {0}
  /\ Second \in Nat \ {0}
  /\ DbLatency \in Nat /\ StopTime \in Nat /\ TimerLag \in Nat
  /\ MaxSkew \in Nat /\ MaxFaults \in Nat

ASSUME NoRowAssumption == NoRow \notin [owner : Instances, left : Int]

AtLeastSecond(d) == IF d < Second THEN Second ELSE d

(* effective_ttl, effective_renew_interval and                             *)
(* effective_standby_retry_interval.  A renewal interval that is not below *)
(* the TTL is replaced by half of it, but never by less than one second:   *)
(* a TTL of one second or less is renewed too late.                        *)
TTL == IF ConfigTTL = 0 THEN DefaultTTL ELSE ConfigTTL

RenewInterval ==
  IF ConfigRenew = 0 THEN AtLeastSecond(TTL \div 3)
  ELSE IF ConfigRenew >= TTL THEN AtLeastSecond(TTL \div 2)
  ELSE ConfigRenew

RetryInterval == IF ConfigRetry = 0 THEN DefaultRetry ELSE ConfigRetry

VARIABLES
  skew,      \* skew[p]: the constant offset of p's wall clock
  row,       \* the lease row: owner_id, and expires_at as the time left
  pc,        \* pc[p]: the await instance p is in
  age,       \* age[p]: how long p has been in it
  lag,       \* lag[p]: how long ago p read the `now` of its claim or renewal
  shutdown,  \* shutdown[p]: p's shutdown token is cancelled
  faults     \* failures so far

vars == <<skew, row, pc, age, lag, shutdown, faults>>

Rows == [owner : Instances, left : Int]

Acquiring == {"insert", "find", "update", "reread"}
Working   == {"own", "renew", "stop", "stopShutdown"}
Labels    == Acquiring \cup Working
               \cup {"off", "standby", "release", "done", "crashed"}

(* The awaits whose statement carries a timestamp read when they began.    *)
Stamped == {"insert", "find", "update", "renew"}

(* The workload exists from start_workload until stop_workload returns.    *)
WorkloadRuns(p) == pc[p] \in Working

Live(p) == pc[p] \notin {"off", "done", "crashed"}

(* The longest the await a label names may take.                           *)
Limit(label) ==
  IF label \in Acquiring \cup {"renew", "release"} THEN DbLatency
  ELSE IF label \in {"stop", "stopShutdown"} THEN StopTime
  ELSE IF label = "own" THEN RenewInterval + TimerLag
  ELSE RetryInterval + TimerLag

Init ==
  /\ skew \in [Instances -> 0..MaxSkew]
  /\ row = NoRow
  /\ pc = [p \in Instances |-> "off"]
  /\ age = [p \in Instances |-> 0]
  /\ lag = [p \in Instances |-> 0]
  /\ shutdown = [p \in Instances |-> FALSE]
  /\ faults = 0

-----------------------------------------------------------------------------
(* Steps shared by the actions.                                            *)

(* A new await begins; the timestamp of the statement it follows stays in  *)
(* use only while the same claim goes on.                                  *)
Await(p, label) ==
  /\ pc' = [pc EXCEPT ![p] = label]
  /\ age' = [age EXCEPT ![p] = 0]
  /\ lag' = [lag EXCEPT ![p] =
               IF label \in {"find", "update"} THEN @ ELSE 0]

(* The head of the supervisor's while loop: leave it once shutdown was     *)
(* requested, else read the clock and attempt the insert.                  *)
LoopHead(p) == Await(p, IF shutdown[p] THEN "done" ELSE "insert")

Mine(p) == row # NoRow /\ row.owner = p

(* The row with expires_at = now + ttl by p's clock.                       *)
Written(p) == [owner |-> p, left |-> skew[p] - lag[p] + TTL]

(* Mutant: the UPDATE forgets the expiry.                                  *)
TakesAnyRow(p) == row # NoRow

(* The condition of acquire_existing_lease's UPDATE: expires_at <= now.    *)
OwnedOrExpired(p) ==
  row # NoRow /\ (row.owner = p \/ row.left <= skew[p] - lag[p])

NoFault == UNCHANGED faults
Fault   == faults < MaxFaults /\ faults' = faults + 1

(* A statement that writes `new` to the row and returns an error: the      *)
(* connection may have been lost before or after the commit.               *)
FailedWrite(new) == Fault /\ row' \in {row, new}

-----------------------------------------------------------------------------
(* Acquisition.                                                            *)

Start(p) ==
  /\ pc[p] = "off"
  /\ LoopHead(p)
  /\ UNCHANGED <<skew, row, shutdown, faults>>

Inserted(p) ==
  /\ pc[p] = "insert"
  /\ row = NoRow
  /\ row' = Written(p)
  /\ Await(p, "own")
  /\ NoFault
  /\ UNCHANGED <<skew, shutdown>>

(* The insert fails: the primary key is taken, or the store errs.          *)
InsertFailed(p) ==
  /\ pc[p] = "insert"
  /\ \/ row # NoRow /\ NoFault /\ UNCHANGED row
     \/ row = NoRow /\ FailedWrite(Written(p))
  /\ Await(p, "find")
  /\ UNCHANGED <<skew, shutdown>>

(* acquire_existing_lease reads the row: another owner's unexpired lease   *)
(* means standby; no row or an error means the claim returns an error.     *)
FindReturns(p) ==
  /\ pc[p] = "find"
  /\ \/ OwnedOrExpired(p) /\ Await(p, "update") /\ NoFault
     \/ ~OwnedOrExpired(p) /\ Await(p, "standby") /\ NoFault
     \/ Await(p, "standby") /\ Fault
  /\ UNCHANGED <<skew, row, shutdown>>

(* The conditional UPDATE; zero rows affected leads to one more read.      *)
UpdateReturns(p) ==
  /\ pc[p] = "update"
  /\ \/ OwnedOrExpired(p) /\ row' = Written(p) /\ Await(p, "own") /\ NoFault
     \/ ~OwnedOrExpired(p) /\ UNCHANGED row /\ Await(p, "reread") /\ NoFault
     \/ /\ FailedWrite(IF OwnedOrExpired(p) THEN Written(p) ELSE row)
        /\ Await(p, "standby")
  /\ UNCHANGED <<skew, shutdown>>

RereadReturns(p) ==
  /\ pc[p] = "reread"
  /\ Await(p, "standby")
  /\ UNCHANGED <<skew, row, shutdown, faults>>

StandbyWakes(p) ==
  /\ pc[p] = "standby"
  /\ shutdown[p] \/ age[p] >= RetryInterval
  /\ LoopHead(p)
  /\ UNCHANGED <<skew, row, shutdown, faults>>

-----------------------------------------------------------------------------
(* Ownership (run_owned_runtime_lease).                                    *)

(* The select is biased: a requested shutdown is taken before the timer.   *)
OwnerSeesShutdown(p) ==
  /\ pc[p] = "own" /\ shutdown[p]
  /\ Await(p, "stopShutdown")
  /\ UNCHANGED <<skew, row, shutdown, faults>>

OwnerTimer(p) ==
  /\ pc[p] = "own" /\ ~shutdown[p]
  /\ age[p] >= RenewInterval
  /\ Await(p, "renew")
  /\ UNCHANGED <<skew, row, shutdown, faults>>

(* renew_lease matches the row by its owner alone; a miss and an error     *)
(* both cancel and stop the workload.                                      *)
RenewReturns(p) ==
  /\ pc[p] = "renew"
  /\ \/ Mine(p) /\ row' = Written(p) /\ Await(p, "own") /\ NoFault
     \/ ~Mine(p) /\ UNCHANGED row /\ Await(p, "stop") /\ NoFault
     \/ /\ FailedWrite(IF Mine(p) THEN Written(p) ELSE row)
        /\ Await(p, "stop")
  /\ UNCHANGED <<skew, shutdown>>

StopReturns(p) ==
  /\ pc[p] = "stop"
  /\ LoopHead(p)
  /\ UNCHANGED <<skew, row, shutdown, faults>>

(* Mutant: shutdown returns without releasing the lease.                   *)
StopShutdownKeepsLease(p) ==
  /\ pc[p] = "stopShutdown"
  /\ Await(p, "done")
  /\ UNCHANGED <<skew, row, shutdown, faults>>

StopShutdownReturns(p) ==
  /\ pc[p] = "stopShutdown"
  /\ Await(p, "release")
  /\ UNCHANGED <<skew, row, shutdown, faults>>

(* release_lease deletes the row of this owner; its error is only logged,  *)
(* and the supervisor's loop ends because shutdown was requested.          *)
ReleaseReturns(p) ==
  /\ pc[p] = "release"
  /\ LET kept == IF Mine(p) THEN NoRow ELSE row
     IN  \/ row' = kept /\ NoFault
         \/ FailedWrite(kept)
  /\ LoopHead(p)
  /\ UNCHANGED <<skew, shutdown>>

-----------------------------------------------------------------------------
(* The environment.                                                        *)

RequestShutdown(p) ==
  /\ Live(p) /\ ~shutdown[p]
  /\ shutdown' = [shutdown EXCEPT ![p] = TRUE]
  /\ UNCHANGED <<skew, row, pc, age, lag, faults>>

(* The process dies, and its workload with it; the row stays.              *)
Crash(p) ==
  /\ Live(p)
  /\ Fault
  /\ Await(p, "crashed")
  /\ UNCHANGED <<skew, row, shutdown>>

(* Below this, the lease has expired for every timestamp still in use.     *)
Floor == -(3 * DbLatency)

(* One unit of time passes, but never past the end of an await.            *)
Tick ==
  /\ \A p \in Instances : Live(p) => age[p] < Limit(pc[p])
  /\ age' = [p \in Instances |-> IF Live(p) THEN age[p] + 1 ELSE 0]
  /\ lag' = [p \in Instances |-> IF pc[p] \in Stamped THEN lag[p] + 1 ELSE 0]
  /\ row' = IF row # NoRow /\ row.left > Floor
              THEN [owner |-> row.owner, left |-> row.left - 1] ELSE row
  /\ UNCHANGED <<skew, pc, shutdown, faults>>

Supervise(p) ==
  \/ Start(p) \/ Inserted(p) \/ InsertFailed(p) \/ FindReturns(p)
  \/ UpdateReturns(p) \/ RereadReturns(p) \/ StandbyWakes(p)
  \/ OwnerSeesShutdown(p) \/ OwnerTimer(p) \/ RenewReturns(p)
  \/ StopReturns(p) \/ StopShutdownReturns(p) \/ ReleaseReturns(p)

Next ==
  \/ \E p \in Instances : Supervise(p) \/ RequestShutdown(p) \/ Crash(p)
  \/ Tick

Spec == Init /\ [][Next]_vars

(* The runtime polls every task that can make progress, and time goes on.  *)
FairSpec ==
  /\ Spec
  /\ WF_vars(Tick)
  /\ \A p \in Instances : WF_vars(Supervise(p))

-----------------------------------------------------------------------------
(* Every variable has its type.                                            *)
TypeOK ==
  /\ skew \in [Instances -> 0..MaxSkew]
  /\ row \in Rows \cup {NoRow}
  /\ pc \in [Instances -> Labels]
  /\ age \in [Instances -> Nat]
  /\ lag \in [Instances -> Nat]
  /\ shutdown \in [Instances -> BOOLEAN]
  /\ faults \in 0..MaxFaults

(* The group of workers behind the lease runs on at most one instance at   *)
(* a time: no takeover starts a second group while the previous owner has  *)
(* not finished stop_workload.                                             *)
AtMostOneWorkload ==
  \A p, q \in Instances : WorkloadRuns(p) /\ WorkloadRuns(q) => p = q

(* An instance that was shut down leaves no lease behind when no statement *)
(* failed: standby instances need not wait for it to expire.               *)
CleanShutdownFrees ==
  \A p \in Instances : pc[p] = "done" /\ faults = 0 => ~Mine(p)

(* As long as one instance stays up, the worker group keeps running        *)
(* somewhere: an owner that crashed, failed a renewal or shut down is      *)
(* replaced.                                                               *)
WorkloadRecovers ==
  \A p \in Instances :
    <>[](Live(p) /\ ~shutdown[p]) => []<>(\E q \in Instances : WorkloadRuns(q))
=============================================================================
