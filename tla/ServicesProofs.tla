--------------------------- MODULE ServicesProofs ---------------------------
(***************************************************************************)
(* Theorems about the parts of MCServices, for every value of their        *)
(* constants: the worker group behind a runtime lease runs at most once,   *)
(* and a clean shutdown leaves no lease behind; the runtime configuration  *)
(* is current whenever nothing is pending and never goes back; and a       *)
(* refresh token is exchanged at most once.                                *)
(***************************************************************************)
EXTENDS MCServices, SequenceTheorems, FiniteSetTheorems, TLAPS

-----------------------------------------------------------------------------
(* The runtime lease, whose module has the specification Spec.             *)

(* The effective intervals of RuntimeLeaseConfig are natural numbers.      *)
LEMMA IntervalsAreNat ==
  TTL \in Nat /\ RenewInterval \in Nat /\ RetryInterval \in Nat
<1>1. TTL \in Nat
  BY DurationsAssumption DEF TTL
<1>2. TTL \div 3 \in Nat /\ TTL \div 2 \in Nat
  BY <1>1, SMT
<1>3. RenewInterval \in Nat
  BY <1>1, <1>2, DurationsAssumption DEF RenewInterval, AtLeastSecond
<1>4. RetryInterval \in Nat
  BY DurationsAssumption DEF RetryInterval
<1> QED
  BY <1>1, <1>3, <1>4

(* The invariant of the timely lease holds initially.                      *)
LEMMA LeaseInvInit == Init => LeaseInv
BY DurationsAssumption
   DEF Init, LeaseInv, TypeOK, AwaitsAreTimely, LeaseOutlastsWorkload,
       WorkloadRuns, Working, Live, Labels, Acquiring

(* The length of the await each label names, one fact per label.           *)
LEMMA Limits ==
  /\ Limit("insert") = DbLatency /\ Limit("find") = DbLatency
  /\ Limit("update") = DbLatency /\ Limit("renew") = DbLatency
  /\ Limit("stop") = StopTime /\ Limit("stopShutdown") = StopTime
  /\ Limit("own") = RenewInterval + TimerLag
  /\ \A label \in Labels : Limit(label) \in Nat
BY DurationsAssumption, IntervalsAreNat DEF Limit, Acquiring, Labels, Working

(* Every step of the supervisors and of the clock preserves the types,     *)
(* whatever the latencies.                                                 *)
LEMMA TypeNext == TypeOK /\ [Next]_vars => TypeOK'
<1> SUFFICES ASSUME TypeOK, [Next]_vars PROVE TypeOK'
  OBVIOUS
<1> USE DurationsAssumption, NoRowAssumption, IntervalsAreNat
<1> USE DEF TypeOK, Rows, Labels, Acquiring, Working, Await, LoopHead,
            NoFault, Fault, FailedWrite, Written, Mine
<1>1. ASSUME NEW p \in Instances, Supervise(p) PROVE TypeOK'
  <2>1. CASE Start(p) BY <2>1 DEF Start
  <2>2. CASE Inserted(p) BY <2>2 DEF Inserted
  <2>3. CASE InsertFailed(p) BY <2>3 DEF InsertFailed
  <2>4. CASE FindReturns(p) BY <2>4 DEF FindReturns
  <2>5. CASE UpdateReturns(p) BY <2>5 DEF UpdateReturns
  <2>6. CASE RereadReturns(p) BY <2>6 DEF RereadReturns
  <2>7. CASE StandbyWakes(p) BY <2>7 DEF StandbyWakes
  <2>8. CASE OwnerSeesShutdown(p) BY <2>8 DEF OwnerSeesShutdown
  <2>9. CASE OwnerTimer(p) BY <2>9 DEF OwnerTimer
  <2>10. CASE RenewReturns(p) BY <2>10 DEF RenewReturns
  <2>11. CASE StopReturns(p) BY <2>11 DEF StopReturns
  <2>12. CASE StopShutdownReturns(p) BY <2>12 DEF StopShutdownReturns
  <2>13. CASE ReleaseReturns(p) BY <2>13 DEF ReleaseReturns
  <2> QED
    BY <1>1, <2>1, <2>2, <2>3, <2>4, <2>5, <2>6, <2>7, <2>8, <2>9, <2>10,
       <2>11, <2>12, <2>13 DEF Supervise
<1>2. ASSUME NEW p \in Instances, RequestShutdown(p) PROVE TypeOK'
  BY <1>2 DEF RequestShutdown
<1>3. ASSUME NEW p \in Instances, Crash(p) PROVE TypeOK'
  BY <1>3 DEF Crash
<1>4. CASE Tick
  BY <1>4 DEF Tick
<1>5. CASE UNCHANGED vars
  BY <1>5 DEF vars
<1> QED
  BY <1>1, <1>2, <1>3, <1>4, <1>5 DEF Next

(* Every step of the supervisors and of the clock preserves the invariant. *)
LEMMA LeaseInvNext == LeaseInv /\ [Next]_vars => LeaseInv'
<1> SUFFICES ASSUME LeaseInv, [Next]_vars PROVE LeaseInv'
  OBVIOUS
<1> USE DurationsAssumption, NoRowAssumption, TimelyAssumption, IntervalsAreNat, Limits
<1> USE DEF LeaseInv
<1>type. TypeOK'
  BY TypeNext
<1>timely. AwaitsAreTimely'
  <2> USE DEF TypeOK, AwaitsAreTimely, Live, Labels, Acquiring, Working, Await, LoopHead
  <2>1. ASSUME NEW p \in Instances, Supervise(p) PROVE AwaitsAreTimely'
    <3>1. CASE Start(p) BY <3>1 DEF Start
    <3>2. CASE Inserted(p) BY <3>2 DEF Inserted
    <3>3. CASE InsertFailed(p) BY <3>3 DEF InsertFailed
    <3>4. CASE FindReturns(p) BY <3>4 DEF FindReturns
    <3>5. CASE UpdateReturns(p) BY <3>5 DEF UpdateReturns
    <3>6. CASE RereadReturns(p) BY <3>6 DEF RereadReturns
    <3>7. CASE StandbyWakes(p) BY <3>7 DEF StandbyWakes
    <3>8. CASE OwnerSeesShutdown(p) BY <3>8 DEF OwnerSeesShutdown
    <3>9. CASE OwnerTimer(p) BY <3>9 DEF OwnerTimer
    <3>10. CASE RenewReturns(p) BY <3>10 DEF RenewReturns
    <3>11. CASE StopReturns(p) BY <3>11 DEF StopReturns
    <3>12. CASE StopShutdownReturns(p) BY <3>12 DEF StopShutdownReturns
    <3>13. CASE ReleaseReturns(p) BY <3>13 DEF ReleaseReturns
    <3> QED
      BY <2>1, <3>1, <3>2, <3>3, <3>4, <3>5, <3>6, <3>7, <3>8, <3>9, <3>10,
         <3>11, <3>12, <3>13 DEF Supervise
  <2>2. ASSUME NEW p \in Instances, RequestShutdown(p) PROVE AwaitsAreTimely'
    BY <2>2 DEF RequestShutdown
  <2>3. ASSUME NEW p \in Instances, Crash(p) PROVE AwaitsAreTimely'
    BY <2>3 DEF Crash
  <2>4. CASE Tick
    BY <2>4 DEF Tick, Stamped
  <2>5. CASE UNCHANGED vars
    BY <2>5 DEF vars
  <2> QED
    BY <2>1, <2>2, <2>3, <2>4, <2>5 DEF Next
<1>outlasts. LeaseOutlastsWorkload'
  <2> USE DEF TypeOK, AwaitsAreTimely, LeaseOutlastsWorkload, WorkloadRuns, Needs,
              Live, Labels, Acquiring, Working, Rows, Await, LoopHead,
              NoFault, Fault, FailedWrite, Written, Mine, OwnedOrExpired
  <2>1. ASSUME NEW p \in Instances, Supervise(p) PROVE LeaseOutlastsWorkload'
    <3>1. CASE Start(p) BY <3>1 DEF Start
    <3>2. CASE Inserted(p) BY <3>2 DEF Inserted
    <3>3. CASE InsertFailed(p) BY <3>3 DEF InsertFailed
    <3>4. CASE FindReturns(p) BY <3>4 DEF FindReturns
    <3>5. CASE UpdateReturns(p) BY <3>5 DEF UpdateReturns
    <3>6. CASE RereadReturns(p) BY <3>6 DEF RereadReturns
    <3>7. CASE StandbyWakes(p) BY <3>7 DEF StandbyWakes
    <3>8. CASE OwnerSeesShutdown(p) BY <3>8 DEF OwnerSeesShutdown
    <3>9. CASE OwnerTimer(p) BY <3>9 DEF OwnerTimer
    <3>10. CASE RenewReturns(p) BY <3>10 DEF RenewReturns
    <3>11. CASE StopReturns(p) BY <3>11 DEF StopReturns
    <3>12. CASE StopShutdownReturns(p) BY <3>12 DEF StopShutdownReturns
    <3>13. CASE ReleaseReturns(p) BY <3>13 DEF ReleaseReturns
    <3> QED
      BY <2>1, <3>1, <3>2, <3>3, <3>4, <3>5, <3>6, <3>7, <3>8, <3>9, <3>10,
         <3>11, <3>12, <3>13 DEF Supervise
  <2>2. ASSUME NEW p \in Instances, RequestShutdown(p) PROVE LeaseOutlastsWorkload'
    BY <2>2 DEF RequestShutdown
  <2>3. ASSUME NEW p \in Instances, Crash(p) PROVE LeaseOutlastsWorkload'
    BY <2>3 DEF Crash
  <2>4. CASE Tick
    BY <2>4 DEF Tick, Stamped
  <2>5. CASE UNCHANGED vars
    BY <2>5 DEF vars
  <2> QED
    BY <2>1, <2>2, <2>3, <2>4, <2>5 DEF Next
<1> QED
  BY <1>type, <1>timely, <1>outlasts

(* While every latency fits the TTL, a runtime lease keeps its worker      *)
(* group on one instance, across crashes, failed statements and takeovers. *)
THEOREM SingletonWorkload == Spec => []AtMostOneWorkload
<1>1. LeaseInv => AtMostOneWorkload
  BY DEF LeaseInv, LeaseOutlastsWorkload, AtMostOneWorkload, Mine
<1> QED
  BY <1>1, LeaseInvInit, LeaseInvNext, PTL DEF Spec

(* The lease row names the owner of a running workload and outlasts it.    *)
THEOREM OwnerKeepsLease == Spec => []LeaseOutlastsWorkload
<1>1. LeaseInv => LeaseOutlastsWorkload
  BY DEF LeaseInv
<1> QED
  BY <1>1, LeaseInvInit, LeaseInvNext, PTL DEF Spec

-----------------------------------------------------------------------------
(* Without a fault, the row names an instance only while that instance     *)
(* holds its workload or is deleting the row: a claim that wrote the row   *)
(* was answered, and a renewal that stopped the workload found it gone.    *)
FaultlessOwner ==
  faults = 0 => \A p \in Instances :
    Mine(p) => pc[p] \in {"own", "renew", "stopShutdown", "release"}

CleanInv == TypeOK /\ FaultlessOwner

(* No instance owns the row before any has started.                        *)
LEMMA CleanInit == Init => CleanInv
BY DurationsAssumption
   DEF Init, CleanInv, FaultlessOwner, TypeOK, Mine, Labels

(* Every step preserves it, whatever the latencies.                        *)
LEMMA CleanNext == CleanInv /\ [Next]_vars => CleanInv'
<1> SUFFICES ASSUME CleanInv, [Next]_vars PROVE CleanInv'
  OBVIOUS
<1>type. TypeOK'
  BY TypeNext DEF CleanInv
<1> USE DEF CleanInv, FaultlessOwner, Mine
<1>1. ASSUME NEW p \in Instances, Supervise(p) PROVE FaultlessOwner'
  <2> USE NoRowAssumption, DurationsAssumption
      DEF TypeOK, Rows, Await, LoopHead, NoFault, Fault, FailedWrite, Written
  <2>1. CASE Start(p) BY <2>1 DEF Start
  <2>2. CASE Inserted(p) BY <2>2 DEF Inserted
  <2>3. CASE InsertFailed(p) BY <2>3 DEF InsertFailed
  <2>4. CASE FindReturns(p) BY <2>4 DEF FindReturns
  <2>5. CASE UpdateReturns(p) BY <2>5 DEF UpdateReturns
  <2>6. CASE RereadReturns(p) BY <2>6 DEF RereadReturns
  <2>7. CASE StandbyWakes(p) BY <2>7 DEF StandbyWakes
  <2>8. CASE OwnerSeesShutdown(p) BY <2>8 DEF OwnerSeesShutdown
  <2>9. CASE OwnerTimer(p) BY <2>9 DEF OwnerTimer
  <2>10. CASE RenewReturns(p) BY <2>10 DEF RenewReturns
  <2>11. CASE StopReturns(p) BY <2>11 DEF StopReturns
  <2>12. CASE StopShutdownReturns(p) BY <2>12 DEF StopShutdownReturns
  <2>13. CASE ReleaseReturns(p) BY <2>13 DEF ReleaseReturns
  <2> QED
    BY <1>1, <2>1, <2>2, <2>3, <2>4, <2>5, <2>6, <2>7, <2>8, <2>9, <2>10,
       <2>11, <2>12, <2>13 DEF Supervise
<1>2. ASSUME NEW p \in Instances, RequestShutdown(p) PROVE FaultlessOwner'
  BY <1>2 DEF RequestShutdown
<1>3. ASSUME NEW p \in Instances, Crash(p) PROVE FaultlessOwner'
  BY <1>3, DurationsAssumption DEF Crash, Fault, TypeOK
<1>4. CASE Tick
  BY <1>4, NoRowAssumption DEF Tick, TypeOK, Rows
<1>5. CASE UNCHANGED vars
  BY <1>type, <1>5 DEF vars
<1> QED
  BY <1>type, <1>1, <1>2, <1>3, <1>4, <1>5 DEF Next

(* An instance that shut down leaves no lease behind when nothing failed,  *)
(* for all latencies and intervals.                                        *)
THEOREM ShutdownFreesLease == Spec => []CleanShutdownFrees
<1>1. CleanInv => CleanShutdownFrees
  BY DEF CleanInv, FaultlessOwner, CleanShutdownFrees
<1> QED
  BY <1>1, CleanInit, CleanNext, PTL DEF Spec

-----------------------------------------------------------------------------
(* The runtime configuration.                                              *)

Held(k) ==
  \/ \E hint \in unsent : k \in hint
  \/ \E i \in 1 .. Len(buffer) : k \in buffer[i]

(* A load of row k is still to come, whatever happens before it.           *)
Announced(k) ==
  \/ Held(k) \/ lagged
  \/ link \notin {"receive", "item"}
  \/ link = "item" /\ k \in item
  \/ \E i \in 1 .. Len(updates) :
       updates[i].kind = "connected" \/ (updates[i].kind = "item" /\ k \in updates[i].keys)

(* The row a callback is about to publish, or will load.                   *)
Reloading(k) ==
  /\ worker.pc # "select" /\ k \in worker.keys
  /\ worker.pc = "publish" => worker.rows[k] = store[k]

Updates == [kind : {"connected", "item", "down"}, keys : SUBSET Config!Keys]
Works == [pc : {"select", "load", "publish"}, why : {"none", "hint", "connected", "retry"},
          keys : SUBSET Config!Keys, rows : [Config!Keys -> Nat]]

ConfigTypes ==
  /\ mode \in {"reconcile", "hints"}
  /\ store \in [Config!Keys -> Nat] /\ local \in [Config!Keys -> Nat]
  /\ saved \subseteq Config!Keys
  /\ unsent \subseteq SUBSET Config!Keys
  /\ buffer \in Seq(SUBSET Config!Keys) /\ lagged \in BOOLEAN
  /\ link \in {"subscribe", "connected", "receive", "item", "down", "backoff"}
  /\ item \subseteq Config!Keys
  /\ updates = <<>> \/ \E u \in Updates : updates = <<u>>
  /\ worker \in Works
  /\ retry \in [armed : BOOLEAN, keys : SUBSET Config!Keys]

(* What a reload has loaded is current, or a later load is to come.        *)
LoadedIsCurrent ==
  worker.pc = "publish" =>
    \A k \in Config!Keys \ saved : worker.rows[k] = store[k] \/ Announced(k)

(* A row that is not current will be loaded.                               *)
StaleIsCovered ==
  \A k \in Config!Keys \ saved :
    local[k] = store[k] \/ Announced(k) \/ Reloading(k) \/ retry.armed

(* Nothing in the process is newer than the store, and what is about to be *)
(* published is not older than what it replaces.                           *)
VersionsAreOrdered ==
  \A k \in Config!Keys :
    /\ local[k] <= store[k]
    /\ worker.pc = "publish" => local[k] <= worker.rows[k] /\ worker.rows[k] <= store[k]

(* A reconcile, and a retry where there is a reconcile, loads every row.   *)
ReconcilesAll ==
  worker.pc # "select" /\ worker.why # "hint" => worker.keys = Config!Keys

ConfigInv ==
  /\ ConfigTypes
  /\ mode = "reconcile" => LoadedIsCurrent /\ StaleIsCovered /\ ReconcilesAll
  /\ VersionsAreOrdered

(* The fields of the records the select loop works with.                   *)
LEMMA CallRecord ==
  ASSUME NEW why \in {"hint", "connected", "retry"}, NEW keys \in SUBSET Config!Keys,
         Config!Calls(why, keys)
  PROVE  worker' \in Works /\ worker'.pc = "load" /\ worker'.keys = keys /\ worker'.why = why
<1>1. worker' = [pc |-> "load", why |-> why, keys |-> keys,
                 rows |-> [k \in Config!Keys |-> 0]]
  BY DEF Config!Calls, Config!Selecting
<1>2. [k \in Config!Keys |-> 0] \in [Config!Keys -> Nat]
  OBVIOUS
<1> QED
  BY ONLY <1>1, <1>2, why \in {"hint", "connected", "retry"},
          keys \in SUBSET Config!Keys DEF Works

(* The select loop has nothing in hand.                                    *)
LEMMA SelectRecord ==
  Config!Selecting \in Works /\ Config!Selecting.pc = "select"
BY DEF Config!Selecting, Works

(* A load fills in the rows of the callback.                               *)
LEMMA LoadRecord ==
  ASSUME NEW w \in Works, NEW rows \in [Config!Keys -> Nat]
  PROVE  /\ [w EXCEPT !.pc = "publish", !.rows = rows] \in Works
         /\ [w EXCEPT !.pc = "publish", !.rows = rows].pc = "publish"
         /\ [w EXCEPT !.pc = "publish", !.rows = rows].rows = rows
         /\ [w EXCEPT !.pc = "publish", !.rows = rows].keys = w.keys
         /\ [w EXCEPT !.pc = "publish", !.rows = rows].why = w.why
<1>1. PICK a, b, c, d : w = [pc |-> a, why |-> b, keys |-> c, rows |-> d]
  BY Zenon DEF Works
<1> QED
  BY <1>1 DEF Works

(* A retry that is taken is no longer armed.                               *)
LEMMA DisarmRecord ==
  ASSUME NEW r \in [armed : BOOLEAN, keys : SUBSET Config!Keys]
  PROVE  [r EXCEPT !.armed = FALSE] \in [armed : BOOLEAN, keys : SUBSET Config!Keys]
BY Zenon

(* The buffer is a sequence of hints.                                      *)
LEMMA BufferFacts ==
  ASSUME ConfigTypes
  PROVE  /\ Len(buffer) \in Nat
         /\ \A i \in 1 .. Len(buffer) : buffer[i] \in SUBSET Config!Keys
BY DEF ConfigTypes

(* A row that is written is announced before anything else is lost.        *)
LEMMA WriteStep ==
  ASSUME ConfigInv, NEW k \in Config!Keys,
         Config!RemoteWrite(k) \/ Config!LocalWrite(k) \/ Config!Apply(k)
  PROVE  ConfigInv'
<1>0. /\ UNCHANGED <<mode, buffer, lagged, link, item, updates, worker, retry>>
      /\ unsent \subseteq unsent'
  BY DEF Config!RemoteWrite, Config!LocalWrite, Config!Apply, Config!transport
<1>1. ConfigTypes'
  <2>1. unsent' \subseteq SUBSET Config!Keys
    BY DEF ConfigInv, ConfigTypes, Config!RemoteWrite, Config!LocalWrite, Config!Apply,
           Config!transport
  <2>2. saved' \subseteq Config!Keys
    BY DEF ConfigInv, ConfigTypes, Config!RemoteWrite, Config!LocalWrite, Config!Apply
  <2>3. store' \in [Config!Keys -> Nat] /\ local' \in [Config!Keys -> Nat]
    BY DEF ConfigInv, ConfigTypes, Config!RemoteWrite, Config!LocalWrite, Config!Apply,
           Config!Commit, Config!transport
  <2> QED
    BY <1>0, <2>1, <2>2, <2>3 DEF ConfigInv, ConfigTypes
<1>2. \A j : Announced(j) => Announced(j)'
  BY <1>0 DEF Announced, Held
<1>6. \A j \in Config!Keys : local[j] \in Nat /\ store[j] \in Nat /\ worker.rows[j] \in Nat
  BY DEF ConfigInv, ConfigTypes, Works
<1>3. CASE Config!RemoteWrite(k)
  <2>1. /\ UNCHANGED <<local, saved>> /\ store' = [store EXCEPT ![k] = store[k] + 1]
        /\ \E hint \in unsent' : k \in hint
    BY <1>3 DEF Config!RemoteWrite, Config!Commit
  <2>2. Announced(k)'
    BY <2>1 DEF Announced, Held
  <2>3. \A j \in Config!Keys : j # k => store'[j] = store[j]
    BY <2>1 DEF ConfigInv, ConfigTypes
  <2>4. store[k] \in Nat /\ store'[k] = store[k] + 1
    BY <2>1 DEF ConfigInv, ConfigTypes
  <2>5. VersionsAreOrdered'
    BY <1>0, <1>6, <2>1, <2>3, <2>4 DEF ConfigInv, VersionsAreOrdered
  <2>6. mode = "reconcile" => LoadedIsCurrent' /\ StaleIsCovered' /\ ReconcilesAll'
    BY <1>0, <1>2, <2>1, <2>2, <2>3
       DEF ConfigInv, LoadedIsCurrent, StaleIsCovered, ReconcilesAll, Reloading
  <2> QED
    BY <1>0, <1>1, <2>5, <2>6 DEF ConfigInv
<1>4. CASE Config!LocalWrite(k)
  <2>1. /\ UNCHANGED local /\ saved' = saved \cup {k}
        /\ store' = [store EXCEPT ![k] = store[k] + 1]
    BY <1>4 DEF Config!LocalWrite, Config!Commit
  <2>3. \A j \in Config!Keys : j # k => store'[j] = store[j]
    BY <2>1 DEF ConfigInv, ConfigTypes
  <2>4. store[k] \in Nat /\ store'[k] = store[k] + 1
    BY <2>1 DEF ConfigInv, ConfigTypes
  <2>5. VersionsAreOrdered'
    BY <1>0, <1>6, <2>1, <2>3, <2>4 DEF ConfigInv, VersionsAreOrdered
  <2>6. mode = "reconcile" => LoadedIsCurrent' /\ StaleIsCovered' /\ ReconcilesAll'
    BY <1>0, <1>2, <2>1, <2>3
       DEF ConfigInv, LoadedIsCurrent, StaleIsCovered, ReconcilesAll, Reloading
  <2> QED
    BY <1>0, <1>1, <2>5, <2>6 DEF ConfigInv
<1>5. CASE Config!Apply(k)
  <2>1. /\ UNCHANGED store /\ saved' = saved \ {k} /\ worker.pc # "publish"
        /\ local' = [local EXCEPT ![k] = store[k]]
    BY <1>5 DEF Config!Apply, Config!transport
  <2>3. local'[k] = store'[k] /\ \A j \in Config!Keys : j # k => local'[j] = local[j]
    BY <2>1 DEF ConfigInv, ConfigTypes
  <2>5. VersionsAreOrdered'
    BY <1>0, <1>1, <2>1, <2>3 DEF ConfigInv, VersionsAreOrdered, ConfigTypes
  <2>6. mode = "reconcile" => LoadedIsCurrent' /\ StaleIsCovered' /\ ReconcilesAll'
    BY <1>0, <1>2, <2>1, <2>3
       DEF ConfigInv, LoadedIsCurrent, StaleIsCovered, ReconcilesAll, Reloading
  <2> QED
    BY <1>0, <1>1, <2>5, <2>6 DEF ConfigInv
<1> QED
  BY <1>3, <1>4, <1>5

(* The transport moves hints on, loses them by overrunning the buffer, or  *)
(* drops them with the subscription: every one of them announces a load.   *)
LEMMA CarryStep ==
  ASSUME ConfigInv, ConfigTypes',
         UNCHANGED <<mode, store, saved, local, worker, retry>>,
         \A k \in Config!Keys : Announced(k) => Announced(k)'
  PROVE  ConfigInv'
<1>1. VersionsAreOrdered'
  BY DEF ConfigInv, VersionsAreOrdered
<1>2. mode = "reconcile" => LoadedIsCurrent' /\ StaleIsCovered' /\ ReconcilesAll'
  BY DEF ConfigInv, LoadedIsCurrent, StaleIsCovered, ReconcilesAll, Reloading
<1> QED
  BY <1>1, <1>2 DEF ConfigInv

(* A hint goes into the buffer, or is lost with a subscription to come.    *)
LEMMA PublishStep ==
  ASSUME ConfigInv, NEW hint \in unsent, Config!Publish(hint)
  PROVE  ConfigInv'
<1>0. /\ UNCHANGED <<mode, store, saved, local, worker, retry, link, item, updates>>
      /\ unsent' = unsent \ {hint}
  BY DEF Config!Publish
<1>1. CASE ~Config!Subscribed
  <2>1. ConfigTypes'
    BY <1>0, <1>1 DEF Config!Publish, ConfigInv, ConfigTypes
  <2>2. \A k : Announced(k)'
    BY <1>0, <1>1 DEF Announced, Config!Subscribed
  <2> QED
    BY <1>0, <2>1, <2>2, CarryStep
<1>2. CASE Config!Subscribed /\ Len(buffer) < BufferSize
  <2>1. buffer' = Append(buffer, hint) /\ lagged' = lagged
    BY <1>2 DEF Config!Publish
  <2>2. hint \in SUBSET Config!Keys /\ buffer \in Seq(SUBSET Config!Keys)
    BY DEF ConfigInv, ConfigTypes
  <2>3. /\ Len(buffer) \in Nat /\ Len(buffer') = Len(buffer) + 1
        /\ buffer' \in Seq(SUBSET Config!Keys)
        /\ \A i \in 1 .. Len(buffer) : buffer'[i] = buffer[i]
        /\ buffer'[Len(buffer) + 1] = hint
    BY ONLY <2>1, <2>2
  <2>4. ConfigTypes'
    BY <1>0, <2>1, <2>3 DEF ConfigInv, ConfigTypes
  <2>5. \A k : Held(k) => Held(k)'
    BY <1>0, <2>3 DEF Held
  <2>6. \A k : Announced(k) => Announced(k)'
    BY <1>0, <2>1, <2>5 DEF Announced
  <2> QED
    BY <1>0, <2>4, <2>6, CarryStep
<1>3. CASE Config!Subscribed /\ ~(Len(buffer) < BufferSize)
  <2>1. buffer' = Append(Tail(buffer), hint) /\ lagged' = TRUE
    BY <1>3 DEF Config!Publish
  <2>2. hint \in SUBSET Config!Keys /\ buffer \in Seq(SUBSET Config!Keys)
    BY DEF ConfigInv, ConfigTypes
  <2>3. buffer # <<>>
    BY <1>3, <2>2, ServicesAssumption
  <2>4. buffer' \in Seq(SUBSET Config!Keys)
    BY ONLY <2>1, <2>2, <2>3
  <2>5. ConfigTypes'
    BY <1>0, <2>1, <2>4 DEF ConfigInv, ConfigTypes
  <2>6. \A k : Announced(k)'
    BY <2>1 DEF Announced
  <2> QED
    BY <1>0, <2>5, <2>6, CarryStep
<1> QED
  BY <1>1, <1>2, <1>3

(* Every change of the subscription ends in a connection to reconcile.     *)
LEMMA LinkStep ==
  ASSUME ConfigInv,
         Config!Subscribe \/ Config!BackoffEnds \/ Config!SubscribeFails \/ Config!StreamEnds
  PROVE  ConfigInv'
<1>0. /\ UNCHANGED <<mode, store, saved, local, worker, retry, item, updates, unsent>>
      /\ link' \in {"connected", "subscribe", "down"}
      /\ buffer' \in {buffer, <<>>} /\ lagged' \in {lagged, FALSE}
  BY DEF Config!Subscribe, Config!BackoffEnds, Config!SubscribeFails, Config!StreamEnds,
         Config!Breaks, Config!transport
<1>1. ConfigTypes'
  <2>1. buffer' \in Seq(SUBSET Config!Keys) /\ lagged' \in BOOLEAN
    <3>1. /\ buffer \in Seq(SUBSET Config!Keys) /\ lagged \in BOOLEAN
          /\ <<>> \in Seq(SUBSET Config!Keys)
      BY EmptySeq DEF ConfigInv, ConfigTypes
    <3> QED
      BY ONLY <1>0, <3>1, Zenon
  <2> QED
    BY <1>0, <2>1 DEF ConfigInv, ConfigTypes
<1>2. \A k : Announced(k)'
  BY <1>0 DEF Announced
<1> QED
  BY <1>0, <1>1, <1>2, CarryStep

(* The oldest hint becomes the item.                                       *)
LEMMA ReceiveStep ==
  ASSUME ConfigInv, Config!Receive
  PROVE  ConfigInv'
<1>0. /\ UNCHANGED <<mode, store, saved, local, worker, retry, updates, unsent, lagged>>
      /\ buffer # <<>> /\ item' = Head(buffer) /\ buffer' = Tail(buffer)
      /\ link = "receive" /\ link' = "item"
  BY DEF Config!Receive
<1>1. buffer \in Seq(SUBSET Config!Keys)
  BY DEF ConfigInv, ConfigTypes
<1>2. /\ item' = buffer[1] /\ item' \subseteq Config!Keys
      /\ buffer' \in Seq(SUBSET Config!Keys) /\ Len(buffer) \in Nat
      /\ Len(buffer') = Len(buffer) - 1
      /\ \A i \in 1 .. Len(buffer) :
           i # 1 => i - 1 \in 1 .. Len(buffer') /\ buffer'[i - 1] = buffer[i]
  BY ONLY <1>0, <1>1
<1>3. ConfigTypes'
  BY <1>0, <1>2 DEF ConfigInv, ConfigTypes
<1>4. \A k : Held(k) => Held(k)' \/ k \in item'
  BY <1>0, <1>2 DEF Held
<1>5. \A k : Announced(k) => Announced(k)'
  BY <1>0, <1>4 DEF Announced
<1> QED
  BY <1>0, <1>3, <1>5, CarryStep

(* What the subscription supervisor forwards is in the channel.            *)
LEMMA SendStep ==
  ASSUME ConfigInv, Config!SendUpdate
  PROVE  ConfigInv'
<1>0. /\ UNCHANGED <<mode, store, saved, local, worker, retry, unsent, buffer, lagged>>
      /\ updates = <<>> /\ link \in {"connected", "item", "down"}
      /\ updates' = <<[kind |-> link, keys |-> item]>> /\ item' = {}
      /\ link' = IF link = "down" THEN "backoff" ELSE "receive"
  BY DEF Config!SendUpdate, Config!transport
<1>1. [kind |-> link, keys |-> item] \in Updates
  BY <1>0 DEF ConfigInv, ConfigTypes, Updates
<1>2. ConfigTypes'
  BY <1>0, <1>1 DEF ConfigInv, ConfigTypes
<1>3. /\ Len(updates) = 0 /\ Len(updates') = 1
      /\ updates'[1].kind = link /\ updates'[1].keys = item
  BY ONLY <1>0
<1>4. \A k : Announced(k) => Announced(k)'
  <2> SUFFICES ASSUME NEW k, Announced(k) PROVE Announced(k)'
    OBVIOUS
  <2>1. CASE Held(k) \/ lagged
    BY <1>0, <2>1 DEF Announced, Held
  <2>2. CASE link = "down"
    BY <1>0, <2>2 DEF Announced
  <2>3. CASE link = "connected" \/ (link = "item" /\ k \in item)
    BY <1>3, <2>3 DEF Announced
  <2> QED
    BY <1>0, <1>3, <2>1, <2>2, <2>3 DEF Announced
<1> QED
  BY <1>0, <1>2, <1>4, CarryStep

(* A retry reloads.                                                        *)
LEMMA RetryStep ==
  ASSUME ConfigInv, Config!Retries
  PROVE  ConfigInv'
<1>0. /\ UNCHANGED <<mode, store, saved, local, unsent, buffer, lagged, link, item, updates>>
      /\ retry' = [retry EXCEPT !.armed = FALSE]
      /\ Config!Calls("retry", IF mode = "reconcile" THEN Config!Keys ELSE retry.keys)
  BY DEF Config!Retries, Config!transport
<1>1. retry.keys \in SUBSET Config!Keys
  BY DEF ConfigInv, ConfigTypes
<1>2. /\ worker' \in Works /\ worker'.pc = "load"
      /\ worker'.keys = IF mode = "reconcile" THEN Config!Keys ELSE retry.keys
  BY <1>0, <1>1, CallRecord
<1>3. retry' \in [armed : BOOLEAN, keys : SUBSET Config!Keys]
  BY <1>0, DisarmRecord DEF ConfigInv, ConfigTypes
<1>4. ConfigTypes'
  BY <1>0, <1>2, <1>3 DEF ConfigInv, ConfigTypes
<1>5. VersionsAreOrdered'
  BY <1>0, <1>2 DEF ConfigInv, VersionsAreOrdered
<1>6. mode = "reconcile" => LoadedIsCurrent' /\ StaleIsCovered' /\ ReconcilesAll'
  BY <1>0, <1>2 DEF LoadedIsCurrent, StaleIsCovered, ReconcilesAll, Reloading
<1> QED
  BY <1>0, <1>4, <1>5, <1>6 DEF ConfigInv

(* Connections and hints are reloaded in the order they are sent.          *)
LEMMA HandleStep ==
  ASSUME ConfigInv, Config!Handles
  PROVE  ConfigInv'
<1>0. /\ UNCHANGED <<mode, store, saved, local, unsent, buffer, lagged, link, item, retry>>
      /\ worker.pc = "select" /\ updates # <<>> /\ updates' = <<>>
  BY DEF Config!Handles, Config!transport, Config!Polled
<1>1. PICK u \in Updates : updates = <<u>>
  BY <1>0 DEF ConfigInv, ConfigTypes
<1>2. Len(updates) = 1 /\ updates[1] = u /\ Len(updates') = 0
  BY ONLY <1>0, <1>1
<1>3. /\ u.kind = "item" => Config!Calls("hint", u.keys)
      /\ u.kind = "connected" /\ mode = "reconcile" => Config!Calls("connected", Config!Keys)
      /\ ~(u.kind = "item") /\ ~(u.kind = "connected" /\ mode = "reconcile") => worker' = worker
  BY <1>2 DEF Config!Handles
<1>4. u.keys \in SUBSET Config!Keys /\ u.kind \in {"connected", "item", "down"}
  BY DEF Updates
<1>5. /\ u.kind = "item" => worker' \in Works /\ worker'.pc = "load" /\ worker'.keys = u.keys
                              /\ worker'.why = "hint"
      /\ u.kind = "connected" /\ mode = "reconcile" =>
           worker' \in Works /\ worker'.pc = "load" /\ worker'.keys = Config!Keys
  BY <1>3, <1>4, CallRecord
<1>6. ConfigTypes'
  BY <1>0, <1>3, <1>4, <1>5 DEF ConfigInv, ConfigTypes
<1>7. worker'.pc # "publish"
  BY <1>0, <1>3, <1>4, <1>5
<1>8. VersionsAreOrdered'
  BY <1>0, <1>7 DEF ConfigInv, VersionsAreOrdered
<1>9. ASSUME mode = "reconcile", NEW k \in Config!Keys, Announced(k)
      PROVE  Announced(k)' \/ Reloading(k)'
  <2>1. CASE u.kind = "connected" \/ (u.kind = "item" /\ k \in u.keys)
    BY <1>5, <1>9, <2>1 DEF Reloading
  <2>2. CASE Held(k) \/ lagged \/ link \notin {"receive", "item"} \/ (link = "item" /\ k \in item)
    BY <1>0, <2>2 DEF Announced, Held
  <2> QED
    BY <1>2, <1>9, <2>1, <2>2 DEF Announced
<1>10. mode = "reconcile" => LoadedIsCurrent' /\ StaleIsCovered'
  BY <1>0, <1>7, <1>9 DEF ConfigInv, LoadedIsCurrent, StaleIsCovered, Reloading
<1>11. mode = "reconcile" => ReconcilesAll'
  BY <1>0, <1>3, <1>4, <1>5 DEF ReconcilesAll
<1> QED
  BY <1>0, <1>6, <1>8, <1>10, <1>11 DEF ConfigInv

(* The rows are those of the store when they are loaded.                   *)
LEMMA LoadStep ==
  ASSUME ConfigInv, Config!LoadAll
  PROVE  ConfigInv'
<1>0. /\ UNCHANGED <<mode, store, saved, local, unsent, buffer, lagged, link, item, updates, retry>>
      /\ worker.pc = "load" /\ worker' = [worker EXCEPT !.pc = "publish", !.rows = store]
  BY DEF Config!LoadAll, Config!transport
<1>1. /\ worker' \in Works /\ worker'.pc = "publish" /\ worker'.rows = store
      /\ worker'.keys = worker.keys /\ worker'.why = worker.why
  BY <1>0, LoadRecord DEF ConfigInv, ConfigTypes
<1>2. ConfigTypes'
  BY <1>0, <1>1 DEF ConfigInv, ConfigTypes
<1>3. VersionsAreOrdered'
  BY <1>0, <1>1 DEF ConfigInv, ConfigTypes, VersionsAreOrdered
<1>4. \A k : Announced(k) => Announced(k)'
  BY <1>0 DEF Announced, Held
<1>5. mode = "reconcile" => LoadedIsCurrent' /\ StaleIsCovered' /\ ReconcilesAll'
  BY <1>0, <1>1, <1>4 DEF ConfigInv, LoadedIsCurrent, StaleIsCovered, ReconcilesAll, Reloading
<1> QED
  BY <1>0, <1>2, <1>3, <1>5 DEF ConfigInv

(* What is published is what was loaded, and only a reload of all the rows *)
(* clears a retry.                                                         *)
LEMMA ReplaceStep ==
  ASSUME ConfigInv, Config!Replace
  PROVE  ConfigInv'
<1>0. /\ UNCHANGED <<mode, store, saved, unsent, buffer, lagged, link, item, updates>>
      /\ worker.pc = "publish" /\ worker' = Config!Selecting
      /\ local' = [k \in Config!Keys |-> IF k \in worker.keys THEN worker.rows[k] ELSE local[k]]
      /\ retry' = IF worker.why = "hint" THEN retry ELSE Config!NoRetry
  BY DEF Config!Replace, Config!transport
<1>1. worker' \in Works /\ worker'.pc = "select"
  BY <1>0, SelectRecord
<1>2. worker.rows \in [Config!Keys -> Nat]
  BY DEF ConfigInv, ConfigTypes, Works
<1>3. local' \in [Config!Keys -> Nat]
  BY <1>0, <1>2 DEF ConfigInv, ConfigTypes
<1>4. retry' \in [armed : BOOLEAN, keys : SUBSET Config!Keys]
  BY <1>0 DEF ConfigInv, ConfigTypes, Config!NoRetry
<1>5. ConfigTypes'
  BY <1>0, <1>1, <1>3, <1>4 DEF ConfigInv, ConfigTypes
<1>6. \A k : Announced(k) => Announced(k)'
  BY <1>0 DEF Announced, Held
<1>7. \A k \in Config!Keys : local'[k] = IF k \in worker.keys THEN worker.rows[k] ELSE local[k]
  BY <1>0
<1>8. VersionsAreOrdered'
  BY <1>0, <1>1, <1>7 DEF ConfigInv, VersionsAreOrdered
<1>9. mode = "reconcile" => LoadedIsCurrent' /\ StaleIsCovered' /\ ReconcilesAll'
  BY <1>0, <1>1, <1>6, <1>7
     DEF ConfigInv, LoadedIsCurrent, StaleIsCovered, ReconcilesAll, Reloading
<1> QED
  BY <1>0, <1>5, <1>8, <1>9 DEF ConfigInv

(* A failed callback arms the retry.                                       *)
LEMMA FailStep ==
  ASSUME ConfigInv, Config!CallbackFails
  PROVE  ConfigInv'
<1>0. /\ UNCHANGED <<mode, store, saved, local, unsent, buffer, lagged, link, item, updates>>
      /\ worker' = Config!Selecting /\ retry' = Config!AfterFailure
  BY DEF Config!CallbackFails, Config!transport
<1>1. worker' \in Works /\ worker'.pc = "select"
  BY <1>0, SelectRecord
<1>2. retry.keys \in SUBSET Config!Keys /\ worker.keys \in SUBSET Config!Keys
  BY DEF ConfigInv, ConfigTypes, Works
<1>3. PICK keys \in SUBSET Config!Keys : retry' = [armed |-> TRUE, keys |-> keys]
  BY <1>0, <1>2 DEF Config!AfterFailure
<1>4. retry' \in [armed : BOOLEAN, keys : SUBSET Config!Keys] /\ retry'.armed
  BY <1>3
<1>5. ConfigTypes'
  BY <1>0, <1>1, <1>4 DEF ConfigInv, ConfigTypes
<1>6. VersionsAreOrdered'
  BY <1>0, <1>1 DEF ConfigInv, VersionsAreOrdered
<1>7. mode = "reconcile" => LoadedIsCurrent' /\ StaleIsCovered' /\ ReconcilesAll'
  BY <1>0, <1>1, <1>4 DEF LoadedIsCurrent, StaleIsCovered, ReconcilesAll
<1> QED
  BY <1>0, <1>5, <1>6, <1>7 DEF ConfigInv

(* The cache starts with the rows of the store.                            *)
LEMMA ConfigStart ==
  ASSUME Config!Init
  PROVE  ConfigInv
<1>1. worker \in Works /\ worker.pc = "select"
  BY SelectRecord DEF Config!Init
<1>2. ConfigTypes
  <2>1. buffer \in Seq(SUBSET Config!Keys)
    BY EmptySeq DEF Config!Init
  <2>2. retry \in [armed : BOOLEAN, keys : SUBSET Config!Keys]
    BY DEF Config!Init, Config!NoRetry
  <2>3. store \in [Config!Keys -> Nat] /\ local \in [Config!Keys -> Nat]
    BY DEF Config!Init
  <2> QED
    BY <1>1, <2>1, <2>2, <2>3 DEF Config!Init, ConfigTypes
<1>3. \A k \in Config!Keys : local[k] = store[k]
  BY DEF Config!Init
<1>4. VersionsAreOrdered
  BY <1>1, <1>2, <1>3 DEF VersionsAreOrdered, ConfigTypes
<1> QED
  BY <1>1, <1>2, <1>3, <1>4
     DEF ConfigInv, LoadedIsCurrent, StaleIsCovered, ReconcilesAll

(* Every step keeps the invariant of the configuration.                    *)
LEMMA ConfigNext ==
  ASSUME ConfigInv, Config!Next
  PROVE  ConfigInv'
<1>1. ASSUME NEW k \in RemoteKeys, Config!RemoteWrite(k) PROVE ConfigInv'
  BY <1>1, WriteStep DEF Config!Keys
<1>2. ASSUME NEW k \in LocalKeys, Config!LocalWrite(k) \/ Config!Apply(k) PROVE ConfigInv'
  BY <1>2, WriteStep DEF Config!Keys
<1>3. ASSUME NEW hint \in unsent, Config!Publish(hint) PROVE ConfigInv'
  BY <1>3, PublishStep
<1>4. CASE Config!Steps
  BY <1>4, LinkStep, ReceiveStep, SendStep, HandleStep, LoadStep, ReplaceStep DEF Config!Steps
<1> QED
  BY <1>1, <1>2, <1>3, <1>4, RetryStep, LinkStep, FailStep DEF Config!Next

(* Every step that changes the runtime configuration makes rows newer.     *)
LEMMA RowsGetNewer ==
  ASSUME ConfigInv, Config!Next
  PROVE  Config!OnlyNewerRows
<1>1. CASE Config!Replace
  BY <1>1 DEF ConfigInv, ConfigTypes, VersionsAreOrdered, Works, Config!Replace,
              Config!OnlyNewerRows
<1>2. CASE \E k \in LocalKeys : Config!Apply(k)
  BY <1>2 DEF ConfigInv, ConfigTypes, VersionsAreOrdered, Config!Apply, Config!Keys,
              Config!OnlyNewerRows
<1>3. CASE UNCHANGED local
  BY <1>3 DEF ConfigInv, ConfigTypes, Config!OnlyNewerRows
<1> QED
  BY <1>1, <1>2, <1>3
     DEF Config!Next, Config!Steps, Config!RemoteWrite, Config!LocalWrite, Config!Publish,
         Config!Subscribe, Config!Receive, Config!SendUpdate, Config!BackoffEnds,
         Config!StreamEnds, Config!SubscribeFails, Config!Breaks, Config!Handles,
         Config!LoadAll, Config!Retries, Config!CallbackFails

(* Only one part runs.                                                     *)
ConfigPart == part = "config" => ConfigInv

(* It holds in every reachable state.                                      *)
LEMMA ConfigHolds == SpecOfPart => []ConfigPart
<1>1. InitOfPart => ConfigPart
  BY ConfigStart DEF InitOfPart, ConfigPart
<1>2. ConfigPart /\ [NextOfPart]_allVars => ConfigPart'
  <2> SUFFICES ASSUME part' = "config", ConfigPart, [NextOfPart]_allVars PROVE ConfigInv'
    BY DEF ConfigPart
  <2>1. part = "config" /\ ConfigInv
    BY DEF ConfigPart, NextOfPart, allVars, InLease, InConfig, InRefresh, InTasks, InProcess
  <2>2. CASE InConfig(Config!Next)
    BY <2>1, <2>2, ConfigNext DEF InConfig
  <2>3. CASE UNCHANGED configVars
    BY <2>1, <2>3 DEF configVars, ConfigInv, ConfigTypes, LoadedIsCurrent, StaleIsCovered,
                      ReconcilesAll, VersionsAreOrdered, Announced, Held, Reloading
  <2> QED
    BY <2>1, <2>2, <2>3
       DEF NextOfPart, allVars, InLease, InRefresh, InTasks, InProcess
<1> QED
  BY <1>1, <1>2, PTL DEF SpecOfPart

(* The runtime configuration is current whenever nothing is pending.       *)
THEOREM ConfigurationIsCurrent == SpecOfPart => []QuietIsCurrent
<1>1. ConfigPart => QuietIsCurrent
  <2> SUFFICES ASSUME ConfigInv, mode = "reconcile", ~Config!RefreshPending,
                      NEW k \in Config!Keys \ saved
               PROVE  local[k] = store[k]
    BY DEF ConfigPart, QuietIsCurrent, Config!QuietIsCurrent
  <2>1. ~Held(k)
    BY BufferFacts DEF ConfigInv, Config!RefreshPending, Held
  <2>2. ~Announced(k)
    BY <2>1 DEF Config!RefreshPending, Announced
  <2> QED
    BY <2>2 DEF ConfigInv, StaleIsCovered, Reloading, Config!RefreshPending
<1> QED
  BY <1>1, ConfigHolds, PTL

(* A reload never replaces a row by an older one.                          *)
THEOREM RowsNeverRegress == SpecOfPart => ReloadNeverRegresses
<1>1. ConfigPart /\ [NextOfPart]_allVars =>
        [part = "config" => Config!OnlyNewerRows]_allVars
  <2> SUFFICES ASSUME ConfigPart, NextOfPart, part = "config"
               PROVE  Config!OnlyNewerRows
    OBVIOUS
  <2>1. InConfig(Config!Next)
    BY DEF NextOfPart, InLease, InRefresh, InTasks, InProcess
  <2> QED
    BY <2>1, RowsGetNewer DEF ConfigPart, InConfig
<1> QED
  BY <1>1, ConfigHolds, PTL DEF SpecOfPart, ReloadNeverRegresses

-----------------------------------------------------------------------------
(* The rotation of refresh tokens.                                         *)

Holding == {"queued", "locked", "read", "write", "conflict", "drop"}
InStore == {"read", "write", "conflict"}
Results == {"none", "rejected", "rotated", "reuse"}

(* A request, and one that is admitted.                                    *)
Reqs == [pc : Holding \cup {"none", "unmap", "done"}, proc : Instances, token : Nat,
         lock : Nat, guard : BOOLEAN, next : Nat, res : Results]
Present(r) == req[r].pc \in Holding \cup {"unmap"}

Sessions == [current : Nat, previous : Nat, revoked : BOOLEAN, committed : SUBSET Nat]

RefreshTypes ==
  /\ session \in Sessions
  /\ minted \in 1 .. MaxTokens
  /\ session.current \in session.committed /\ session.committed \subseteq 1 .. minted
  /\ map \in [Instances -> [Refresh!Tokens -> Nat]]
  /\ req \in [Refresh!Requests -> Reqs]
  /\ \A r \in Refresh!Requests :
       /\ req[r].token \in 0 .. minted
       /\ Present(r) => req[r].token # 0
       /\ req[r].pc \in InStore => req[r].next # 0

(* A candidate is a credential nobody has seen, and of one request.        *)
CandidatesAreNew ==
  \A r \in Refresh!Requests : req[r].next # 0 =>
    /\ req[r].next \in 2 .. minted
    /\ req[r].next \notin session.committed
    /\ \A q \in Refresh!Requests :
         req[q].token # req[r].next /\ (req[q].next = req[r].next => q = r)

(* A credential that was exchanged is not the current one again.           *)
ExchangedIsPast ==
  /\ \A r \in Refresh!Requests : req[r].res = "rotated" => req[r].token # session.current
  /\ Refresh!OneRotationPerToken

(* A lock that is held is in the entry of its token, no other entry refers *)
(* to it, and an entry has a request that will remove it.                  *)
EntriesAreHeld ==
  /\ \A r \in Refresh!Requests : Refresh!Busy(r) =>
       req[r].pc \in Holding /\ map[req[r].proc][req[r].token] = req[r].lock
  /\ \A q, r \in Refresh!Requests :
       Refresh!Busy(q) /\ Refresh!Busy(r) /\ req[q].guard /\ req[r].guard
         /\ req[q].proc = req[r].proc /\ req[q].token = req[r].token => q = r
  /\ \A p, o \in Instances, t, u \in Refresh!Tokens :
       map[p][t] # 0 /\ map[p][t] = map[o][u] => p = o /\ t = u
  /\ \A p \in Instances, t \in Refresh!Tokens : map[p][t] # 0 =>
       \E r \in Refresh!Requests : req[r].proc = p /\ req[r].token = t /\ Present(r)

RefreshInv == RefreshTypes /\ CandidatesAreNew /\ ExchangedIsPast /\ EntriesAreHeld

(* A request after one of its fields has changed.                          *)
WithPc(f, r, x) == [f EXCEPT ![r].pc = x]
WithNext(f, r, x) == [f EXCEPT ![r].next = x]
WithRes(f, r, x) == [f EXCEPT ![r].res = x]
WithGuard(f, r, x) == [f EXCEPT ![r].guard = x]
WithLock(f, r, x) == [f EXCEPT ![r].lock = x]
Others(f, g, r) == \A q \in Refresh!Requests : q # r => g[q] = f[q]

(* The field pc of a request.                                           *)
LEMMA PutPc ==
  ASSUME NEW f \in [Refresh!Requests -> Reqs], NEW r \in Refresh!Requests,
         NEW x \in Holding \cup {"none", "unmap", "done"},
         NEW g, g = WithPc(f, r, x)
  PROVE  /\ g \in [Refresh!Requests -> Reqs] /\ Others(f, g, r) /\ g[r].pc = x
         /\ g[r].proc = f[r].proc /\ g[r].token = f[r].token
         /\ g[r].lock = f[r].lock /\ g[r].guard = f[r].guard
         /\ g[r].next = f[r].next /\ g[r].res = f[r].res
<1>1. f[r] \in Reqs
  OBVIOUS
<1>2. [f[r] EXCEPT !.pc = x] \in Reqs
  BY <1>1, Zenon DEF Reqs
<1>3. g[r] = [f[r] EXCEPT !.pc = x]
  BY Zenon DEF WithPc
<1>4. g \in [Refresh!Requests -> Reqs] /\ Others(f, g, r)
  BY <1>2, Zenon DEF Others, WithPc
<1> QED
  BY <1>1, <1>3, <1>4, Zenon DEF Reqs

(* The field next of a request.                                         *)
LEMMA PutNext ==
  ASSUME NEW f \in [Refresh!Requests -> Reqs], NEW r \in Refresh!Requests,
         NEW x \in Nat,
         NEW g, g = WithNext(f, r, x)
  PROVE  /\ g \in [Refresh!Requests -> Reqs] /\ Others(f, g, r) /\ g[r].next = x
         /\ g[r].pc = f[r].pc /\ g[r].proc = f[r].proc
         /\ g[r].token = f[r].token /\ g[r].lock = f[r].lock
         /\ g[r].guard = f[r].guard /\ g[r].res = f[r].res
<1>1. f[r] \in Reqs
  OBVIOUS
<1>2. [f[r] EXCEPT !.next = x] \in Reqs
  BY <1>1, Zenon DEF Reqs
<1>3. g[r] = [f[r] EXCEPT !.next = x]
  BY Zenon DEF WithNext
<1>4. g \in [Refresh!Requests -> Reqs] /\ Others(f, g, r)
  BY <1>2, Zenon DEF Others, WithNext
<1> QED
  BY <1>1, <1>3, <1>4, Zenon DEF Reqs

(* The field res of a request.                                          *)
LEMMA PutRes ==
  ASSUME NEW f \in [Refresh!Requests -> Reqs], NEW r \in Refresh!Requests,
         NEW x \in Results,
         NEW g, g = WithRes(f, r, x)
  PROVE  /\ g \in [Refresh!Requests -> Reqs] /\ Others(f, g, r) /\ g[r].res = x
         /\ g[r].pc = f[r].pc /\ g[r].proc = f[r].proc
         /\ g[r].token = f[r].token /\ g[r].lock = f[r].lock
         /\ g[r].guard = f[r].guard /\ g[r].next = f[r].next
<1>1. f[r] \in Reqs
  OBVIOUS
<1>2. [f[r] EXCEPT !.res = x] \in Reqs
  BY <1>1, Zenon DEF Reqs
<1>3. g[r] = [f[r] EXCEPT !.res = x]
  BY Zenon DEF WithRes
<1>4. g \in [Refresh!Requests -> Reqs] /\ Others(f, g, r)
  BY <1>2, Zenon DEF Others, WithRes
<1> QED
  BY <1>1, <1>3, <1>4, Zenon DEF Reqs

(* The field guard of a request.                                        *)
LEMMA PutGuard ==
  ASSUME NEW f \in [Refresh!Requests -> Reqs], NEW r \in Refresh!Requests,
         NEW x \in BOOLEAN,
         NEW g, g = WithGuard(f, r, x)
  PROVE  /\ g \in [Refresh!Requests -> Reqs] /\ Others(f, g, r) /\ g[r].guard = x
         /\ g[r].pc = f[r].pc /\ g[r].proc = f[r].proc
         /\ g[r].token = f[r].token /\ g[r].lock = f[r].lock
         /\ g[r].next = f[r].next /\ g[r].res = f[r].res
<1>1. f[r] \in Reqs
  OBVIOUS
<1>2. [f[r] EXCEPT !.guard = x] \in Reqs
  BY <1>1, Zenon DEF Reqs
<1>3. g[r] = [f[r] EXCEPT !.guard = x]
  BY Zenon DEF WithGuard
<1>4. g \in [Refresh!Requests -> Reqs] /\ Others(f, g, r)
  BY <1>2, Zenon DEF Others, WithGuard
<1> QED
  BY <1>1, <1>3, <1>4, Zenon DEF Reqs

(* The field lock of a request.                                         *)
LEMMA PutLock ==
  ASSUME NEW f \in [Refresh!Requests -> Reqs], NEW r \in Refresh!Requests,
         NEW x \in Nat,
         NEW g, g = WithLock(f, r, x)
  PROVE  /\ g \in [Refresh!Requests -> Reqs] /\ Others(f, g, r) /\ g[r].lock = x
         /\ g[r].pc = f[r].pc /\ g[r].proc = f[r].proc
         /\ g[r].token = f[r].token /\ g[r].guard = f[r].guard
         /\ g[r].next = f[r].next /\ g[r].res = f[r].res
<1>1. f[r] \in Reqs
  OBVIOUS
<1>2. [f[r] EXCEPT !.lock = x] \in Reqs
  BY <1>1, Zenon DEF Reqs
<1>3. g[r] = [f[r] EXCEPT !.lock = x]
  BY Zenon DEF WithLock
<1>4. g \in [Refresh!Requests -> Reqs] /\ Others(f, g, r)
  BY <1>2, Zenon DEF Others, WithLock
<1> QED
  BY <1>1, <1>3, <1>4, Zenon DEF Reqs

(* A request that is on its way out.                                       *)
LEMMA DropsEffect ==
  ASSUME req \in [Refresh!Requests -> Reqs], NEW r \in Refresh!Requests, NEW res,
         Refresh!Drops(r, res)
  PROVE  /\ req' \in [Refresh!Requests -> Reqs] /\ Others(req, req', r)
         /\ req'[r].pc = "drop" /\ req'[r].next = 0
         /\ req'[r].res = IF res \in {"rotated", "reuse"} THEN res ELSE "rejected"
         /\ req'[r].proc = req[r].proc /\ req'[r].token = req[r].token
         /\ req'[r].lock = req[r].lock /\ req'[r].guard = req[r].guard
<1> DEFINE x == IF res \in {"rotated", "reuse"} THEN res ELSE "rejected"
<1>0. x \in Results /\ "drop" \in Holding \cup {"none", "unmap", "done"}
  BY DEF Results, Holding
<1>1. req' = WithRes(WithNext(WithPc(req, r, "drop"), r, 0), r, x)
  BY Zenon DEF Refresh!Drops, WithRes, WithNext, WithPc
<1> HIDE DEF x
<1>f. PICK f : f = WithPc(req, r, "drop")
  OBVIOUS
<1>g. PICK g : g = WithNext(f, r, 0)
  OBVIOUS
<1>2. /\ f \in [Refresh!Requests -> Reqs] /\ Others(req, f, r) /\ f[r].pc = "drop"
      /\ f[r].proc = req[r].proc /\ f[r].token = req[r].token
      /\ f[r].lock = req[r].lock /\ f[r].guard = req[r].guard
  BY ONLY <1>0, <1>f, PutPc, req \in [Refresh!Requests -> Reqs], r \in Refresh!Requests
<1>3. /\ g \in [Refresh!Requests -> Reqs] /\ Others(f, g, r) /\ g[r].next = 0
      /\ g[r].pc = "drop"
      /\ g[r].proc = f[r].proc /\ g[r].token = f[r].token
      /\ g[r].lock = f[r].lock /\ g[r].guard = f[r].guard
  BY ONLY <1>2, <1>g, PutNext, r \in Refresh!Requests
<1>4. /\ req' \in [Refresh!Requests -> Reqs] /\ Others(g, req', r) /\ req'[r].res = x
      /\ req'[r].pc = "drop" /\ req'[r].next = 0
      /\ req'[r].proc = g[r].proc /\ req'[r].token = g[r].token
      /\ req'[r].lock = g[r].lock /\ req'[r].guard = g[r].guard
  BY ONLY <1>0, <1>1, <1>3, <1>f, <1>g, PutRes, r \in Refresh!Requests
<1> QED
  BY <1>2, <1>3, <1>4, Zenon DEF Others, x

(* A step that leaves the locks and the map alone.                         *)
LEMMA LocksKept ==
  ASSUME RefreshInv, map' = map,
         \A q \in Refresh!Requests :
           /\ req'[q].proc = req[q].proc /\ req'[q].token = req[q].token
           /\ req'[q].lock = req[q].lock /\ req'[q].guard = req[q].guard
           /\ Present(q) => Present(q)'
           /\ req[q].pc \in Holding => req'[q].pc \in Holding
  PROVE  EntriesAreHeld'
BY DEF RefreshInv, EntriesAreHeld, Refresh!Busy, Refresh!NoLock

(* A step that issues and exchanges no credential.                         *)
LEMMA CredentialsKept ==
  ASSUME RefreshInv, minted' = minted, session' = session,
         \A q \in Refresh!Requests :
           /\ req'[q].next \in {0, req[q].next}
           /\ req'[q].token \in {0, req[q].token}
           /\ req'[q].res = "rotated" => req[q].res = "rotated" /\ req'[q].token = req[q].token
           /\ req'[q].res = "reuse" => req[q].res = "reuse"
  PROVE  CandidatesAreNew' /\ ExchangedIsPast'
<1>1. CandidatesAreNew'
  BY DEF RefreshInv, CandidatesAreNew
<1>2. ExchangedIsPast'
  BY DEF RefreshInv, ExchangedIsPast, Refresh!OneRotationPerToken
<1> QED
  BY <1>1, <1>2

(* A request that is refused leaves nothing behind.                        *)
LEMMA RefuseStep ==
  ASSUME RefreshInv, NEW r \in Refresh!Requests, NEW p \in Instances, Refresh!Refuse(r, p)
  PROVE  RefreshInv'
<1>0. /\ req[r].pc = "none"
      /\ UNCHANGED <<session, minted, map>> /\ req \in [Refresh!Requests -> Reqs]
  BY DEF Refresh!Refuse, Refresh!Fresh, RefreshInv, RefreshTypes
<1>f. PICK f : f = WithPc(req, r, "done") /\ req' = WithRes(f, r, "rejected")
  BY Zenon DEF Refresh!Refuse, WithPc, WithRes
<1>2. "rejected" \in Results /\ "done" \in Holding \cup {"none", "unmap", "done"}
  BY DEF Results
<1>1. /\ f \in [Refresh!Requests -> Reqs] /\ Others(req, f, r) /\ f[r].pc = "done"
      /\ f[r].proc = req[r].proc /\ f[r].token = req[r].token
      /\ f[r].lock = req[r].lock /\ f[r].guard = req[r].guard /\ f[r].next = req[r].next
  BY ONLY <1>0, <1>2, <1>f, PutPc, r \in Refresh!Requests
<1>3. /\ req' \in [Refresh!Requests -> Reqs] /\ Others(f, req', r) /\ req'[r].pc = "done"
      /\ req'[r].proc = f[r].proc /\ req'[r].token = f[r].token /\ req'[r].res = "rejected"
      /\ req'[r].lock = f[r].lock /\ req'[r].guard = f[r].guard /\ req'[r].next = f[r].next
  BY ONLY <1>1, <1>2, <1>f, PutRes, r \in Refresh!Requests
<1>4. RefreshTypes'
  BY <1>0, <1>1, <1>3 DEF RefreshInv, RefreshTypes, Present, Others, Holding, InStore
<1>5. EntriesAreHeld'
  BY <1>0, <1>1, <1>3, LocksKept DEF Others, Present, Holding
<1>6. CandidatesAreNew' /\ ExchangedIsPast'
  BY <1>0, <1>1, <1>3, CredentialsKept DEF Others
<1> QED
  BY <1>4, <1>5, <1>6 DEF RefreshInv

(* A request ends without a new credential: the session is as it was, or   *)
(* revoked, and a reuse that is reported has revoked it.                   *)
LEMMA RejectStep ==
  ASSUME RefreshInv, NEW r \in Refresh!Requests, NEW res, res # "rotated",
         req[r].pc \in Holding, Refresh!Drops(r, res), UNCHANGED <<minted, map>>,
         session' \in {session, Refresh!Revoked}, res = "reuse" => session' = Refresh!Revoked
  PROVE  RefreshInv'
<1>0. req \in [Refresh!Requests -> Reqs]
  BY DEF RefreshInv, RefreshTypes
<1>1. /\ req' \in [Refresh!Requests -> Reqs] /\ Others(req, req', r)
      /\ req'[r].pc = "drop" /\ req'[r].next = 0
      /\ req'[r].res = IF res \in {"rotated", "reuse"} THEN res ELSE "rejected"
      /\ req'[r].proc = req[r].proc /\ req'[r].token = req[r].token
      /\ req'[r].lock = req[r].lock /\ req'[r].guard = req[r].guard
  BY <1>0, DropsEffect
<1>2. session \in Sessions
  BY DEF RefreshInv, RefreshTypes
<1>3. /\ Refresh!Revoked \in Sessions /\ Refresh!Revoked.revoked
      /\ Refresh!Revoked.current = session.current
      /\ Refresh!Revoked.committed = session.committed
  BY ONLY <1>2, Zenon DEF Refresh!Revoked, Sessions
<1>4. /\ session' \in Sessions
      /\ session'.current = session.current /\ session'.committed = session.committed
      /\ session.revoked => session'.revoked
      /\ res = "reuse" => session'.revoked
  BY <1>2, <1>3, Zenon
<1>5. RefreshTypes'
  BY <1>1, <1>4 DEF RefreshInv, RefreshTypes, Present, Others, Holding, InStore
<1>6. EntriesAreHeld'
  BY <1>1, LocksKept DEF Others, Present, Holding
<1>7. CandidatesAreNew'
  BY <1>1, <1>4 DEF RefreshInv, CandidatesAreNew, Others
<1>8. \A q \in Refresh!Requests :
        /\ req'[q].token = req[q].token
        /\ req'[q].res = "rotated" => req[q].res = "rotated"
        /\ req'[q].res = "reuse" => req[q].res = "reuse" \/ session'.revoked
  BY <1>1, <1>4 DEF Others
<1>9. ExchangedIsPast'
  BY <1>4, <1>8 DEF RefreshInv, ExchangedIsPast, Refresh!OneRotationPerToken
<1> QED
  BY <1>5, <1>6, <1>7, <1>9 DEF RefreshInv

(* The conditional update commits, whether or not the request is told.     *)
LEMMA CommitStep ==
  ASSUME RefreshInv, NEW r \in Refresh!Requests, NEW res \in {"rotated", "failed"},
         req[r].pc = "write", Refresh!Unchanged(r), session' = Refresh!Rotated(r),
         Refresh!Drops(r, res), UNCHANGED <<minted, map>>
  PROVE  RefreshInv'
<1>0. req \in [Refresh!Requests -> Reqs]
  BY DEF RefreshInv, RefreshTypes
<1>1. /\ req' \in [Refresh!Requests -> Reqs] /\ Others(req, req', r)
      /\ req'[r].pc = "drop" /\ req'[r].next = 0
      /\ req'[r].res \in {"rotated", "rejected"}
      /\ req'[r].proc = req[r].proc /\ req'[r].token = req[r].token
      /\ req'[r].lock = req[r].lock /\ req'[r].guard = req[r].guard
  BY <1>0, DropsEffect
<1>2. PICK n, t : n = req[r].next /\ t = req[r].token
  OBVIOUS
<1>3. /\ n # 0 /\ n \in 2 .. minted /\ n \notin session.committed
      /\ session.committed \subseteq 1 .. minted /\ t \in session.committed
      /\ \A q \in Refresh!Requests : req[q].token # n /\ (req[q].next = n => q = r)
      /\ t \in 1 .. minted /\ session.current = t /\ ~session.revoked
      /\ minted \in Nat
  BY <1>2 DEF RefreshInv, RefreshTypes, CandidatesAreNew, InStore, Present, Holding,
              Refresh!Unchanged
<1>4. session' = [current |-> n, previous |-> t, revoked |-> FALSE,
                  committed |-> session.committed \cup {n}]
  BY <1>2 DEF Refresh!Rotated
<1>5. /\ session' \in Sessions /\ session'.current = n
      /\ session'.committed = session.committed \cup {n}
  BY ONLY <1>3, <1>4 DEF Sessions
<1>6. RefreshTypes'
  BY <1>1, <1>3, <1>5 DEF RefreshInv, RefreshTypes, Present, Others, Holding, InStore
<1>7. EntriesAreHeld'
  BY <1>1, LocksKept DEF Others, Present, Holding
<1>8. CandidatesAreNew'
  <2> SUFFICES ASSUME NEW q \in Refresh!Requests, req'[q].next # 0
               PROVE  /\ req'[q].next \in 2 .. minted
                      /\ req'[q].next \notin session.committed \cup {n}
                      /\ \A o \in Refresh!Requests :
                           req'[o].token # req'[q].next /\ (req'[o].next = req'[q].next => o = q)
    BY <1>5 DEF CandidatesAreNew
  <2>1. q # r /\ req'[q] = req[q]
    BY <1>1 DEF Others
  <2>2. /\ req[q].next \in 2 .. minted /\ req[q].next \notin session.committed
        /\ \A o \in Refresh!Requests :
             req[o].token # req[q].next /\ (req[o].next = req[q].next => o = q)
    BY <2>1 DEF RefreshInv, CandidatesAreNew
  <2> QED
    BY <1>1, <1>2, <1>3, <2>1, <2>2 DEF Others
<1>9. \A q \in Refresh!Requests : req[q].res # "reuse"
  BY <1>3 DEF RefreshInv, ExchangedIsPast, Refresh!OneRotationPerToken
<1>10. \A q \in Refresh!Requests :
         /\ req'[q].token = req[q].token /\ req'[q].res # "reuse"
         /\ q # r => req'[q].res = req[q].res
  BY <1>1, <1>9 DEF Others
<1>11. \A q \in Refresh!Requests : req[q].res = "rotated" => req[q].token # t
  BY <1>3 DEF RefreshInv, ExchangedIsPast
<1>12. ExchangedIsPast'
  BY <1>2, <1>3, <1>5, <1>10, <1>11 DEF RefreshInv, ExchangedIsPast, Refresh!OneRotationPerToken
<1> QED
  BY <1>6, <1>7, <1>8, <1>12 DEF RefreshInv

(* A lock is taken only when no request with the same lock has it.         *)
LEMMA LockStep ==
  ASSUME RefreshInv, NEW r \in Refresh!Requests, Refresh!Lock(r)
  PROVE  RefreshInv'
<1>0. /\ UNCHANGED <<session, minted, map>> /\ req[r].pc = "queued"
      /\ req \in [Refresh!Requests -> Reqs]
      /\ \A q \in Refresh!Requests : req[q].lock = req[r].lock => ~req[q].guard
  BY DEF Refresh!Lock, Refresh!Holders, RefreshInv, RefreshTypes
<1>9. PICK yes \in BOOLEAN : yes = TRUE
  OBVIOUS
<1>1. PICK f : f = WithPc(req, r, "locked") /\ req' = WithGuard(f, r, yes)
  BY <1>9, Zenon DEF Refresh!Lock, WithPc, WithGuard
<1>2. "locked" \in Holding \cup {"none", "unmap", "done"}
  BY DEF Holding
<1>3. /\ f \in [Refresh!Requests -> Reqs] /\ Others(req, f, r) /\ f[r].pc = "locked"
      /\ f[r].proc = req[r].proc /\ f[r].token = req[r].token /\ f[r].lock = req[r].lock
      /\ f[r].next = req[r].next /\ f[r].res = req[r].res
  BY ONLY <1>0, <1>1, <1>2, PutPc, r \in Refresh!Requests
<1>4. /\ req' \in [Refresh!Requests -> Reqs] /\ Others(f, req', r) /\ req'[r].pc = f[r].pc
      /\ req'[r].proc = f[r].proc /\ req'[r].token = f[r].token /\ req'[r].lock = f[r].lock
      /\ req'[r].next = f[r].next /\ req'[r].res = f[r].res
  BY ONLY <1>1, <1>3, PutGuard, r \in Refresh!Requests
<1>5. /\ Others(req, req', r) /\ req'[r].pc = "locked"
      /\ req'[r].proc = req[r].proc /\ req'[r].token = req[r].token
      /\ req'[r].lock = req[r].lock
      /\ req'[r].next = req[r].next /\ req'[r].res = req[r].res
  BY ONLY <1>3, <1>4 DEF Others
<1>6. RefreshTypes'
  BY <1>0, <1>4, <1>5 DEF RefreshInv, RefreshTypes, Present, Others, Holding, InStore
<1>7. CandidatesAreNew' /\ ExchangedIsPast'
  BY <1>0, <1>5, CredentialsKept DEF Others
<1>8. EntriesAreHeld'
  <2>1. \A q \in Refresh!Requests :
          /\ req'[q].proc = req[q].proc /\ req'[q].token = req[q].token
          /\ req'[q].lock = req[q].lock
          /\ Present(q) => Present(q)'
          /\ req[q].pc \in Holding => req'[q].pc \in Holding
    BY <1>0, <1>5 DEF Others, Present, Holding
  <2>6. \A q \in Refresh!Requests : q # r => req'[q].guard = req[q].guard
    BY <1>5 DEF Others
  <2>2. ASSUME NEW q \in Refresh!Requests, q # r, Refresh!Busy(q), Refresh!Busy(r),
               req[q].proc = req[r].proc, req[q].token = req[r].token
        PROVE  ~req[q].guard
    BY <1>0, <2>2 DEF RefreshInv, EntriesAreHeld
  <2>3. \A q \in Refresh!Requests : Refresh!Busy(q)' =>
          req'[q].pc \in Holding /\ map'[req'[q].proc][req'[q].token] = req'[q].lock
    <3> SUFFICES ASSUME NEW q \in Refresh!Requests, Refresh!Busy(q)'
                 PROVE  req'[q].pc \in Holding
                        /\ map'[req'[q].proc][req'[q].token] = req'[q].lock
      OBVIOUS
    <3>1. Refresh!Busy(q)
      BY <2>1 DEF Refresh!Busy, Refresh!NoLock
    <3>2. req[q].pc \in Holding /\ map[req[q].proc][req[q].token] = req[q].lock
      BY <3>1 DEF RefreshInv, EntriesAreHeld
    <3>3. /\ req'[q].proc = req[q].proc /\ req'[q].token = req[q].token
          /\ req'[q].lock = req[q].lock /\ req'[q].pc \in Holding
      BY <2>1, <3>2
    <3>4. map' = map
      BY <1>0
    <3> QED
      BY ONLY <3>2, <3>3, <3>4, Zenon
  <2>4. ASSUME NEW q \in Refresh!Requests, NEW o \in Refresh!Requests,
               Refresh!Busy(q)', Refresh!Busy(o)', req'[q].guard, req'[o].guard,
               req'[q].proc = req'[o].proc, req'[q].token = req'[o].token
        PROVE  q = o
    <3>1. /\ Refresh!Busy(q) /\ Refresh!Busy(o)
          /\ req[q].proc = req[o].proc /\ req[q].token = req[o].token
      BY <2>1, <2>4 DEF Refresh!Busy, Refresh!NoLock
    <3>2. CASE q = r \/ o = r
      BY <2>6, <2>2, <2>4, <3>1, <3>2
    <3>3. CASE q # r /\ o # r
      <4>1. req[q].guard /\ req[o].guard
        BY <2>6, <2>4, <3>3
      <4> QED
        BY <3>1, <4>1 DEF RefreshInv, EntriesAreHeld
    <3> QED
      BY <3>2, <3>3
  <2>5. \A p \in Instances, t \in Refresh!Tokens : map'[p][t] # 0 =>
          \E q \in Refresh!Requests : req'[q].proc = p /\ req'[q].token = t /\ Present(q)'
    BY <1>0, <2>1 DEF RefreshInv, EntriesAreHeld
  <2> QED
    BY <1>0, <2>3, <2>4, <2>5 DEF RefreshInv, EntriesAreHeld
<1> QED
  BY <1>6, <1>7, <1>8 DEF RefreshInv

(* A request goes on in the store.                                         *)
LEMMA AdvanceStep ==
  ASSUME RefreshInv, NEW r \in Refresh!Requests, NEW to \in {"write", "conflict"},
         req[r].pc \in {"read", "write"}, req' = [req EXCEPT ![r].pc = to],
         UNCHANGED <<session, minted, map>>
  PROVE  RefreshInv'
<1>0. req \in [Refresh!Requests -> Reqs]
  BY DEF RefreshInv, RefreshTypes
<1>1. req' = WithPc(req, r, to)
  BY Zenon DEF WithPc
<1>2. to \in Holding \cup {"none", "unmap", "done"}
  BY DEF Holding
<1>3. /\ req' \in [Refresh!Requests -> Reqs] /\ Others(req, req', r) /\ req'[r].pc = to
      /\ req'[r].proc = req[r].proc /\ req'[r].token = req[r].token
      /\ req'[r].lock = req[r].lock /\ req'[r].guard = req[r].guard
      /\ req'[r].next = req[r].next /\ req'[r].res = req[r].res
  BY ONLY <1>0, <1>1, <1>2, PutPc, r \in Refresh!Requests
<1>4. RefreshTypes'
  BY ONLY <1>3, RefreshInv, UNCHANGED <<session, minted, map>>, req[r].pc \in {"read", "write"},
          to \in {"write", "conflict"}
     DEF RefreshInv, RefreshTypes, Present, Others, Holding, InStore
<1>5. EntriesAreHeld'
  BY <1>3, LocksKept DEF Others, Present, Holding
<1>6. CandidatesAreNew' /\ ExchangedIsPast'
  BY <1>3, CredentialsKept DEF Others
<1> QED
  BY <1>4, <1>5, <1>6 DEF RefreshInv

(* A candidate is a credential nobody has.                                 *)
LEMMA MintStep ==
  ASSUME RefreshInv, NEW r \in Refresh!Requests, req[r].pc = "locked", minted < MaxTokens,
         minted' = minted + 1, req' = [req EXCEPT ![r].pc = "read", ![r].next = minted + 1],
         UNCHANGED <<session, map>>
  PROVE  RefreshInv'
<1>0. req \in [Refresh!Requests -> Reqs] /\ minted \in Nat /\ MaxTokens \in Nat
  BY ServicesAssumption DEF RefreshInv, RefreshTypes
<1>1. PICK f : f = WithPc(req, r, "read") /\ req' = WithNext(f, r, minted + 1)
  BY Zenon DEF WithPc, WithNext
<1>2. "read" \in Holding \cup {"none", "unmap", "done"}
  BY DEF Holding
<1>3. /\ f \in [Refresh!Requests -> Reqs] /\ Others(req, f, r) /\ f[r].pc = "read"
      /\ f[r].proc = req[r].proc /\ f[r].token = req[r].token /\ f[r].lock = req[r].lock
      /\ f[r].guard = req[r].guard /\ f[r].res = req[r].res
  BY ONLY <1>0, <1>1, <1>2, PutPc, r \in Refresh!Requests
<1>9. PICK n \in Nat : n = minted + 1
  BY <1>0
<1>4. /\ req' \in [Refresh!Requests -> Reqs] /\ Others(f, req', r) /\ req'[r].pc = f[r].pc
      /\ req'[r].proc = f[r].proc /\ req'[r].token = f[r].token /\ req'[r].lock = f[r].lock
      /\ req'[r].guard = f[r].guard /\ req'[r].res = f[r].res /\ req'[r].next = n
  BY ONLY <1>1, <1>3, <1>9, PutNext, r \in Refresh!Requests
<1>5. /\ Others(req, req', r) /\ req'[r].pc = "read"
      /\ req'[r].proc = req[r].proc /\ req'[r].token = req[r].token
      /\ req'[r].lock = req[r].lock /\ req'[r].guard = req[r].guard
      /\ req'[r].res = req[r].res
  BY ONLY <1>3, <1>4 DEF Others
<1>6. RefreshTypes'
  <2>1. \A q \in Refresh!Requests :
          /\ req'[q].token = req[q].token /\ Present(q)' => Present(q)
          /\ req'[q].pc \in InStore => req'[q].next # 0
    BY <1>0, <1>4, <1>5, <1>9 DEF RefreshInv, RefreshTypes, Present, Others, Holding, InStore
  <2> QED
    BY <1>0, <1>4, <1>5, <2>1
       DEF RefreshInv, RefreshTypes, Present, Others, Holding, InStore
<1>7. EntriesAreHeld'
  BY <1>5, LocksKept DEF Others, Present, Holding
<1>8. CandidatesAreNew'
  <2> SUFFICES ASSUME NEW q \in Refresh!Requests, req'[q].next # 0
               PROVE  /\ req'[q].next \in 2 .. n
                      /\ req'[q].next \notin session.committed
                      /\ \A o \in Refresh!Requests :
                           req'[o].token # req'[q].next /\ (req'[o].next = req'[q].next => o = q)
    BY <1>9 DEF CandidatesAreNew
  <2>1. /\ \A o \in Refresh!Requests : req[o].token \in 0 .. minted /\ req[o].next \in 0 .. minted
        /\ session.committed \subseteq 1 .. minted /\ minted \in Nat \ {0}
    BY DEF RefreshInv, RefreshTypes, CandidatesAreNew
  <2>2. \A o \in Refresh!Requests :
          req'[o].token = req[o].token /\ (o # r => req'[o].next = req[o].next)
    BY <1>5 DEF Others
  <2>3. CASE q = r
    BY <1>0, <1>4, <1>9, <2>1, <2>2, <2>3
  <2>4. CASE q # r
    BY <1>0, <1>4, <1>9, <2>1, <2>2, <2>4 DEF RefreshInv, CandidatesAreNew
  <2> QED
    BY <2>3, <2>4
<1>11. \A q \in Refresh!Requests : req'[q].token = req[q].token /\ req'[q].res = req[q].res
  BY <1>5 DEF Others
<1>12. session' = session
  OBVIOUS
<1>10. ExchangedIsPast'
  BY ONLY <1>11, <1>12, RefreshInv DEF RefreshInv, ExchangedIsPast, Refresh!OneRotationPerToken
<1> QED
  BY <1>6, <1>7, <1>8, <1>10 DEF RefreshInv

(* The lock goes before the entry.                                         *)
LEMMA DropGuardStep ==
  ASSUME RefreshInv, NEW r \in Refresh!Requests, Refresh!DropGuard(r)
  PROVE  RefreshInv'
<1>0. /\ UNCHANGED <<session, minted, map>> /\ req[r].pc = "drop"
      /\ req \in [Refresh!Requests -> Reqs]
  BY DEF Refresh!DropGuard, RefreshInv, RefreshTypes
<1>9. PICK no \in BOOLEAN : no = FALSE
  OBVIOUS
<1>1. PICK f, g : /\ f = WithPc(req, r, "unmap") /\ g = WithGuard(f, r, no)
                  /\ req' = WithLock(g, r, 0)
  BY <1>9, Zenon DEF Refresh!DropGuard, Refresh!NoLock, WithPc, WithGuard, WithLock
<1>2. "unmap" \in Holding \cup {"none", "unmap", "done"}
  BY DEF Holding
<1>3. /\ f \in [Refresh!Requests -> Reqs] /\ Others(req, f, r) /\ f[r].pc = "unmap"
      /\ f[r].proc = req[r].proc /\ f[r].token = req[r].token
      /\ f[r].next = req[r].next /\ f[r].res = req[r].res
  BY ONLY <1>0, <1>1, <1>2, PutPc, r \in Refresh!Requests
<1>4. /\ g \in [Refresh!Requests -> Reqs] /\ Others(f, g, r) /\ g[r].pc = "unmap"
      /\ g[r].proc = f[r].proc /\ g[r].token = f[r].token
      /\ g[r].next = f[r].next /\ g[r].res = f[r].res
  BY ONLY <1>1, <1>3, PutGuard, r \in Refresh!Requests
<1>5. /\ req' \in [Refresh!Requests -> Reqs] /\ Others(g, req', r) /\ req'[r].pc = "unmap"
      /\ req'[r].proc = g[r].proc /\ req'[r].token = g[r].token /\ req'[r].lock = 0
      /\ req'[r].next = g[r].next /\ req'[r].res = g[r].res
  BY ONLY <1>1, <1>4, PutLock, r \in Refresh!Requests
<1>6. /\ Others(req, req', r) /\ req'[r].pc = "unmap" /\ req'[r].lock = 0
      /\ req'[r].proc = req[r].proc /\ req'[r].token = req[r].token
      /\ req'[r].next = req[r].next /\ req'[r].res = req[r].res
  BY ONLY <1>3, <1>4, <1>5 DEF Others
<1>7. RefreshTypes'
  BY <1>0, <1>5, <1>6 DEF RefreshInv, RefreshTypes, Present, Others, Holding, InStore
<1>8. CandidatesAreNew' /\ ExchangedIsPast'
  BY <1>0, <1>6, CredentialsKept DEF Others
<1>10. \A q \in Refresh!Requests :
         /\ q # r => req'[q] = req[q]
         /\ req'[q].proc = req[q].proc /\ req'[q].token = req[q].token
         /\ Refresh!Busy(q)' => q # r /\ Refresh!Busy(q)
         /\ Present(q) => Present(q)'
  BY <1>6 DEF Others, Present, Refresh!Busy, Refresh!NoLock, Holding
<1>11. EntriesAreHeld'
  BY <1>0, <1>10 DEF RefreshInv, EntriesAreHeld
<1> QED
  BY <1>7, <1>8, <1>11 DEF RefreshInv

(* A request that is present has a place in the map.                       *)
LEMMA PresentPlace ==
  ASSUME RefreshInv, NEW q \in Refresh!Requests, Present(q)
  PROVE  req[q].proc \in Instances /\ req[q].token \in Refresh!Tokens
<1>1. req[q] \in Reqs /\ req[q].token \in 0 .. minted /\ req[q].token # 0
  BY DEF RefreshInv, RefreshTypes
<1>2. minted \in 1 .. MaxTokens /\ MaxTokens \in Nat
  BY ServicesAssumption DEF RefreshInv, RefreshTypes
<1> QED
  BY ONLY <1>1, <1>2 DEF Reqs, Refresh!Tokens

(* An entry is forgotten with the last request that holds its lock.        *)
LEMMA DropEntryStep ==
  ASSUME RefreshInv, NEW r \in Refresh!Requests, Refresh!DropEntry(r)
  PROVE  RefreshInv'
<1>0. /\ UNCHANGED <<session, minted>> /\ req[r].pc = "unmap"
      /\ req \in [Refresh!Requests -> Reqs] /\ map \in [Instances -> [Refresh!Tokens -> Nat]]
  BY DEF Refresh!DropEntry, RefreshInv, RefreshTypes
<1>1. PICK p, t, x : /\ p = req[r].proc /\ t = req[r].token /\ x = req[r].res
  OBVIOUS
<1>2. p \in Instances /\ t \in Refresh!Tokens /\ t \in 0 .. minted /\ x \in Results
  <2>1. t \in 0 .. minted /\ req[r] \in Reqs
    BY <1>1 DEF RefreshInv, RefreshTypes
  <2>2. req[r].proc \in Instances /\ req[r].token \in Refresh!Tokens
    BY <1>0, PresentPlace DEF Present
  <2>3. req[r].res \in Results
    BY ONLY <2>1 DEF Reqs
  <2> QED
    BY ONLY <1>1, <2>1, <2>2, <2>3
<1>3. PICK u : u = IF x = "rotated" THEN t ELSE 0
  OBVIOUS
<1>4. req' = [req EXCEPT ![r] =
        [pc |-> "done", proc |-> CHOOSE o \in Instances : TRUE, token |-> u, lock |-> 0,
         guard |-> FALSE, next |-> 0, res |-> x]]
  <2>1. req' = [req EXCEPT ![r] = Refresh!Ended(req[r])]
    BY DEF Refresh!DropEntry
  <2>2. Refresh!Ended(req[r]) =
        [pc |-> "done", proc |-> CHOOSE o \in Instances : TRUE, token |-> u, lock |-> 0,
         guard |-> FALSE, next |-> 0, res |-> x]
    <3>1. Refresh!Ended(req[r]) =
            [Refresh!NoRequest EXCEPT !.pc = "done", !.res = x, !.token = u]
      BY <1>1, <1>3, Zenon DEF Refresh!Ended
    <3> QED
      BY <3>1 DEF Refresh!NoRequest, Refresh!NoLock
  <2> QED
    BY <2>1, <2>2
<1>5. (CHOOSE o \in Instances : TRUE) \in Instances
  BY ServicesAssumption
<1>6. u \in Nat /\ u \in {0, t} /\ u \in 0 .. minted
  BY <1>2, <1>3 DEF RefreshInv, RefreshTypes
<1>7. [pc |-> "done", proc |-> CHOOSE o \in Instances : TRUE, token |-> u, lock |-> 0,
       guard |-> FALSE, next |-> 0, res |-> x] \in Reqs
  BY <1>2, <1>5, <1>6 DEF Reqs
<1>8. /\ req' \in [Refresh!Requests -> Reqs] /\ Others(req, req', r)
      /\ req'[r].pc = "done" /\ req'[r].token = u /\ req'[r].lock = 0 /\ req'[r].next = 0
      /\ req'[r].res = x
  BY ONLY <1>0, <1>4, <1>7, r \in Refresh!Requests DEF Others
<1>9. PICK l \in Nat : /\ map' = [map EXCEPT ![p] = [map[p] EXCEPT ![t] = l]]
                       /\ l = IF Refresh!Live(map[p][t]) THEN map[p][t] ELSE 0
  BY <1>0, <1>1, <1>2 DEF Refresh!DropEntry, Refresh!NoLock
<1>10. /\ map' \in [Instances -> [Refresh!Tokens -> Nat]] /\ map'[p][t] = l
       /\ \A o \in Instances, v \in Refresh!Tokens : o # p \/ v # t => map'[o][v] = map[o][v]
  BY ONLY <1>0, <1>2, <1>9
<1>11. RefreshTypes'
  BY <1>0, <1>6, <1>8, <1>10 DEF RefreshInv, RefreshTypes, Present, Others, Holding, InStore
<1>12. CandidatesAreNew' /\ ExchangedIsPast'
  BY <1>0, <1>1, <1>3, <1>6, <1>8, CredentialsKept DEF Others
<1>13. ASSUME Refresh!Live(map[p][t])
       PROVE  \E q \in Refresh!Requests : /\ q # r /\ req[q].proc = p /\ req[q].token = t
                                          /\ req[q].pc \in Holding
  <2>1. PICK q \in Refresh!Requests : req[q].lock = map[p][t] /\ map[p][t] # 0
    BY <1>13 DEF Refresh!Live, Refresh!Holders, Refresh!NoLock
  <2>2. req[q].pc \in Holding /\ map[req[q].proc][req[q].token] = map[p][t]
    BY <2>1 DEF RefreshInv, EntriesAreHeld, Refresh!Busy, Refresh!NoLock
  <2>3. req[q].proc \in Instances /\ req[q].token \in Refresh!Tokens
    BY <2>2, PresentPlace DEF Present
  <2>4. req[q].proc = p /\ req[q].token = t
    <3>1. \A o, v \in Instances, u1, u2 \in Refresh!Tokens :
            map[o][u1] # 0 /\ map[o][u1] = map[v][u2] => o = v /\ u1 = u2
      BY DEF RefreshInv, EntriesAreHeld
    <3>2. PICK o \in Instances, v \in Refresh!Tokens : o = req[q].proc /\ v = req[q].token
      BY <2>3
    <3>3. map[o][v] = map[p][t] /\ map[o][v] # 0
      BY <2>1, <2>2, <3>2
    <3>4. o = p /\ v = t
      BY ONLY <1>2, <3>1, <3>3, o \in Instances, v \in Refresh!Tokens
    <3> QED
      BY ONLY <3>2, <3>4
  <2> QED
    BY <1>0, <2>2, <2>4 DEF Holding
<1>14. \A q \in Refresh!Requests : Refresh!Busy(q)' =>
         q # r /\ req'[q] = req[q] /\ Refresh!Busy(q)
  BY <1>8 DEF Others, Refresh!Busy, Refresh!NoLock
<1>15. \A q \in Refresh!Requests : Refresh!Busy(q)' =>
         req'[q].pc \in Holding /\ map'[req'[q].proc][req'[q].token] = req'[q].lock
  <2> SUFFICES ASSUME NEW q \in Refresh!Requests, Refresh!Busy(q)'
               PROVE  req'[q].pc \in Holding /\ map'[req'[q].proc][req'[q].token] = req'[q].lock
    OBVIOUS
  <2>1. /\ req'[q] = req[q] /\ req[q].pc \in Holding /\ req[q].lock # 0
        /\ map[req[q].proc][req[q].token] = req[q].lock
    BY <1>14 DEF RefreshInv, EntriesAreHeld, Refresh!Busy, Refresh!NoLock
  <2>2. req[q].proc \in Instances /\ req[q].token \in Refresh!Tokens
    BY <2>1, PresentPlace DEF Present
  <2>3. CASE req[q].proc = p /\ req[q].token = t
    <3>1. Refresh!Live(map[p][t])
      BY <2>1, <2>3 DEF Refresh!Live, Refresh!Holders, Refresh!NoLock
    <3> QED
      BY <1>9, <1>10, <2>1, <2>3, <3>1
  <2>4. CASE ~(req[q].proc = p /\ req[q].token = t)
    BY <1>10, <2>1, <2>2, <2>4
  <2> QED
    BY <2>3, <2>4
<1>16. \A q, o \in Refresh!Requests :
         Refresh!Busy(q)' /\ Refresh!Busy(o)' /\ req'[q].guard /\ req'[o].guard
           /\ req'[q].proc = req'[o].proc /\ req'[q].token = req'[o].token => q = o
  BY <1>14 DEF RefreshInv, EntriesAreHeld
<1>17. \A o, q \in Instances, v, w \in Refresh!Tokens :
         map'[o][v] # 0 /\ map'[o][v] = map'[q][w] => o = q /\ v = w
  BY <1>2, <1>9, <1>10 DEF RefreshInv, EntriesAreHeld
<1>18. ASSUME NEW o \in Instances, NEW v \in Refresh!Tokens, map'[o][v] # 0
       PROVE  \E q \in Refresh!Requests : req'[q].proc = o /\ req'[q].token = v /\ Present(q)'
  <2>1. CASE o = p /\ v = t
    <3>1. Refresh!Live(map[p][t])
      BY <1>9, <1>10, <1>18, <2>1
    <3> QED
      BY <1>8, <1>13, <2>1, <3>1 DEF Others, Present
  <2>2. CASE ~(o = p /\ v = t)
    <3>1. PICK q \in Refresh!Requests : req[q].proc = o /\ req[q].token = v /\ Present(q)
      BY <1>10, <1>18, <2>2 DEF RefreshInv, EntriesAreHeld
    <3>2. q # r
      BY <1>1, <2>2, <3>1
    <3> QED
      BY <1>8, <3>1, <3>2 DEF Others, Present
  <2> QED
    BY <2>1, <2>2
<1>19. EntriesAreHeld'
  BY <1>15, <1>16, <1>17, <1>18 DEF EntriesAreHeld
<1> QED
  BY <1>11, <1>12, <1>19 DEF RefreshInv

(* There is always a lock that nobody refers to: those that are referred   *)
(* to are in entries, and every entry has a request of its own.            *)
LEMMA LocksSuffice ==
  ASSUME RefreshInv, NEW r \in Refresh!Requests
  PROVE  /\ Refresh!NewLock \in Nat \ {0}
         /\ \A q \in Refresh!Requests : req[q].lock # Refresh!NewLock
         /\ \A p \in Instances, t \in Refresh!Tokens : map[p][t] # Refresh!NewLock
<1>1. NumRequests \in Nat \ {0}
  BY ServicesAssumption DEF Refresh!Requests
<1>2. \E l \in 1 .. 2 * NumRequests : Refresh!Unreferenced(l)
  <2> SUFFICES ASSUME \A l \in 1 .. 2 * NumRequests : ~Refresh!Unreferenced(l) PROVE FALSE
    OBVIOUS
  <2>1. ASSUME NEW l \in 1 .. 2 * NumRequests
        PROVE  \E q \in Refresh!Requests : map[req[q].proc][req[q].token] = l
    <3>1. CASE \E q \in Refresh!Requests : req[q].lock = l
      BY <3>1 DEF RefreshInv, EntriesAreHeld, Refresh!Busy, Refresh!NoLock
    <3>2. CASE \E p \in Instances, t \in Refresh!Tokens : map[p][t] = l
      BY <3>2 DEF RefreshInv, EntriesAreHeld
    <3> QED
      BY <3>1, <3>2 DEF Refresh!Unreferenced, Refresh!Holders
  <2> DEFINE f == [l \in 1 .. 2 * NumRequests |->
                     CHOOSE q \in Refresh!Requests : map[req[q].proc][req[q].token] = l]
  <2>2. /\ f \in [1 .. 2 * NumRequests -> Refresh!Requests]
        /\ \A l \in 1 .. 2 * NumRequests : map[req[f[l]].proc][req[f[l]].token] = l
    BY <2>1
  <2>3. /\ IsFiniteSet(1 .. NumRequests) /\ IsFiniteSet(1 .. 2 * NumRequests)
        /\ Cardinality(1 .. NumRequests) = NumRequests
        /\ Cardinality(1 .. 2 * NumRequests) = 2 * NumRequests
    BY <1>1, FS_Interval
  <2>4. Cardinality(Refresh!Requests) < Cardinality(1 .. 2 * NumRequests)
    BY <1>1, <2>3 DEF Refresh!Requests
  <2>5. IsFiniteSet(Refresh!Requests)
    BY <2>3 DEF Refresh!Requests
  <2> HIDE DEF f
  <2>6. \E k, l \in 1 .. 2 * NumRequests : k # l /\ f[k] = f[l]
    BY ONLY <2>2, <2>3, <2>4, <2>5, FS_PigeonHole
  <2> QED
    BY <2>2, <2>6
<1>3. Refresh!NewLock \in 1 .. 2 * NumRequests /\ Refresh!Unreferenced(Refresh!NewLock)
  BY <1>2 DEF Refresh!NewLock
<1> QED
  BY <1>1, <1>3 DEF Refresh!Unreferenced, Refresh!Holders

(* A new request, field by field.                                          *)
Queued(q, w, x, y, z) == [q EXCEPT !.pc = w, !.proc = x, !.token = y, !.lock = z]

(* Every field of it that does not change is as it was.                    *)
LEMMA QueuedRecord ==
  ASSUME NEW a, NEW b, NEW c, NEW d, NEW e, NEW f, NEW g, NEW w, NEW x, NEW y, NEW z, NEW q,
         q = [pc |-> a, proc |-> b, token |-> c, lock |-> d, guard |-> e, next |-> f, res |-> g]
  PROVE  Queued(q, w, x, y, z) =
         [pc |-> w, proc |-> x, token |-> y, lock |-> z, guard |-> e, next |-> f, res |-> g]
<1>1. [[pc |-> a, proc |-> b, token |-> c, lock |-> d, guard |-> e, next |-> f,
        res |-> g] EXCEPT !.pc = w] =
      [pc |-> w, proc |-> b, token |-> c, lock |-> d, guard |-> e, next |-> f, res |-> g]
  BY ONLY TRUE
<1>2. [[pc |-> w, proc |-> b, token |-> c, lock |-> d, guard |-> e, next |-> f,
        res |-> g] EXCEPT !.proc = x] =
      [pc |-> w, proc |-> x, token |-> c, lock |-> d, guard |-> e, next |-> f, res |-> g]
  BY ONLY TRUE
<1>3. [[pc |-> w, proc |-> x, token |-> c, lock |-> d, guard |-> e, next |-> f,
        res |-> g] EXCEPT !.token = y] =
      [pc |-> w, proc |-> x, token |-> y, lock |-> d, guard |-> e, next |-> f, res |-> g]
  BY ONLY TRUE
<1>4. [[pc |-> w, proc |-> x, token |-> y, lock |-> d, guard |-> e, next |-> f,
        res |-> g] EXCEPT !.lock = z] =
      [pc |-> w, proc |-> x, token |-> y, lock |-> z, guard |-> e, next |-> f, res |-> g]
  BY ONLY TRUE
<1> QED
  BY <1>1, <1>2, <1>3, <1>4, Zenon DEF Queued

(* A request that is admitted finds the lock of those before it.           *)
LEMMA RegisterStep ==
  ASSUME RefreshInv, NEW r \in Refresh!Requests, NEW p \in Instances,
         NEW t \in session.committed, Refresh!Register(r, p, t)
  PROVE  RefreshInv'
<1>0. /\ UNCHANGED <<session, minted>> /\ req[r].pc = "none"
      /\ req \in [Refresh!Requests -> Reqs] /\ map \in [Instances -> [Refresh!Tokens -> Nat]]
  BY DEF Refresh!Register, Refresh!Fresh, RefreshInv, RefreshTypes
<1>1. t \in Refresh!Tokens /\ t \in 1 .. minted /\ t \in Nat
  BY ServicesAssumption DEF RefreshInv, RefreshTypes, Refresh!Tokens
<1>2. PICK l : l = IF Refresh!Live(map[p][t]) THEN map[p][t] ELSE Refresh!NewLock
  OBVIOUS
<1>3. /\ l \in Nat \ {0}
      /\ l # map[p][t] => \A o \in Instances, v \in Refresh!Tokens : map[o][v] # l
  <2>1. CASE Refresh!Live(map[p][t])
    BY <1>0, <1>1, <1>2, <2>1 DEF Refresh!Live, Refresh!NoLock
  <2>2. CASE ~Refresh!Live(map[p][t])
    BY <1>2, <2>2, LocksSuffice
  <2> QED
    BY <2>1, <2>2
<1>4. /\ map' = [map EXCEPT ![p] = [map[p] EXCEPT ![t] = l]]
      /\ req' = [req EXCEPT ![r] = [Refresh!NoRequest EXCEPT !.pc = "queued", !.proc = p,
                                      !.token = t, !.lock = l]]
  BY <1>2, Zenon DEF Refresh!Register
<1>no. PICK no \in BOOLEAN : no = FALSE
  OBVIOUS
<1>5. req' = [req EXCEPT ![r] = [pc |-> "queued", proc |-> p, token |-> t, lock |-> l,
                                 guard |-> no, next |-> 0, res |-> "none"]]
  <2>1. Queued(Refresh!NoRequest, "queued", p, t, l) =
        [pc |-> "queued", proc |-> p, token |-> t, lock |-> l, guard |-> no, next |-> 0,
         res |-> "none"]
    <3>1. PICK x : Refresh!NoRequest = [pc |-> "none", proc |-> x, token |-> 0, lock |-> 0,
                                        guard |-> no, next |-> 0, res |-> "none"]
      BY <1>no, Zenon DEF Refresh!NoRequest, Refresh!NoLock
    <3> QED
      BY ONLY <3>1, QueuedRecord
  <2>2. req' = [req EXCEPT ![r] = Queued(Refresh!NoRequest, "queued", p, t, l)]
    BY ONLY <1>4, Zenon DEF Queued
  <2> QED
    BY ONLY <2>1, <2>2
<1>6. [pc |-> "queued", proc |-> p, token |-> t, lock |-> l, guard |-> no, next |-> 0,
       res |-> "none"] \in Reqs
  BY ONLY <1>1, <1>3, no \in BOOLEAN, p \in Instances DEF Reqs, Holding, Results
<1>7. /\ req' \in [Refresh!Requests -> Reqs] /\ Others(req, req', r)
      /\ req'[r].pc = "queued" /\ req'[r].proc = p /\ req'[r].token = t
      /\ req'[r].lock = l /\ req'[r].next = 0 /\ req'[r].res = "none"
  BY ONLY <1>0, <1>5, <1>6, r \in Refresh!Requests DEF Others
<1>8. /\ map' \in [Instances -> [Refresh!Tokens -> Nat]] /\ map'[p][t] = l
      /\ \A o \in Instances, v \in Refresh!Tokens : o # p \/ v # t => map'[o][v] = map[o][v]
  BY ONLY <1>0, <1>1, <1>3, <1>4, p \in Instances
<1>9. ~req'[r].guard
  <2>1. req'[r].guard = no
    BY ONLY <1>0, <1>5, r \in Refresh!Requests
  <2> QED
    BY <1>no, <2>1
<1>10. RefreshTypes'
  <2>1. \A q \in Refresh!Requests :
          /\ req'[q].token \in 0 .. minted /\ (Present(q)' => req'[q].token # 0)
          /\ req'[q].pc \in InStore => req'[q].next # 0
    BY <1>1, <1>7 DEF RefreshInv, RefreshTypes, Present, Others, InStore
  <2> QED
    BY <1>0, <1>7, <1>8, <2>1 DEF RefreshInv, RefreshTypes
<1>11. CandidatesAreNew'
  <2> SUFFICES ASSUME NEW q \in Refresh!Requests, req'[q].next # 0
               PROVE  /\ req'[q].next \in 2 .. minted
                      /\ req'[q].next \notin session.committed
                      /\ \A o \in Refresh!Requests :
                           req'[o].token # req'[q].next /\ (req'[o].next = req'[q].next => o = q)
    BY <1>0 DEF CandidatesAreNew
  <2>1. q # r /\ req'[q] = req[q]
    BY <1>7 DEF Others
  <2>2. /\ req[q].next \in 2 .. minted
        /\ req[q].next \notin session.committed
        /\ \A o \in Refresh!Requests :
             req[o].token # req[q].next /\ (req[o].next = req[q].next => o = q)
    BY <2>1 DEF RefreshInv, CandidatesAreNew
  <2>3. req[q].next # t /\ req[q].next # 0
    BY <1>1, <2>2 DEF RefreshInv, RefreshTypes
  <2> QED
    BY <1>7, <2>1, <2>2, <2>3 DEF Others
<1>12. \A q \in Refresh!Requests :
         /\ req'[q].res = "rotated" => req[q].res = "rotated" /\ req'[q].token = req[q].token
         /\ req'[q].res = "reuse" => req[q].res = "reuse"
  BY <1>7 DEF Others
<1>13. ExchangedIsPast'
  BY <1>0, <1>12 DEF RefreshInv, ExchangedIsPast, Refresh!OneRotationPerToken
<1>14. ASSUME NEW q \in Refresh!Requests, Refresh!Busy(q), q # r
       PROVE  /\ req'[q] = req[q] /\ req[q].pc \in Holding /\ req[q].lock # 0
              /\ map'[req[q].proc][req[q].token] = req[q].lock
  <2>1. /\ req'[q] = req[q] /\ req[q].pc \in Holding /\ req[q].lock # 0
        /\ map[req[q].proc][req[q].token] = req[q].lock
    BY <1>7, <1>14 DEF Others, RefreshInv, EntriesAreHeld, Refresh!Busy, Refresh!NoLock
  <2>2. req[q].proc \in Instances /\ req[q].token \in Refresh!Tokens
    BY <2>1, PresentPlace DEF Present
  <2>3. CASE req[q].proc = p /\ req[q].token = t
    <3>1. Refresh!Live(map[p][t])
      BY <2>1, <2>3 DEF Refresh!Live, Refresh!Holders, Refresh!NoLock
    <3> QED
      BY <1>2, <1>8, <2>1, <2>3, <3>1
  <2>4. CASE ~(req[q].proc = p /\ req[q].token = t)
    BY <1>8, <2>1, <2>2, <2>4
  <2> QED
    BY <2>1, <2>3, <2>4
<1>15. \A q \in Refresh!Requests : Refresh!Busy(q)' =>
         req'[q].pc \in Holding /\ map'[req'[q].proc][req'[q].token] = req'[q].lock
  <2> SUFFICES ASSUME NEW q \in Refresh!Requests, Refresh!Busy(q)'
               PROVE  req'[q].pc \in Holding /\ map'[req'[q].proc][req'[q].token] = req'[q].lock
    OBVIOUS
  <2>1. CASE q = r
    BY <1>7, <1>8, <2>1 DEF Holding
  <2>2. CASE q # r
    <3>1. Refresh!Busy(q)
      BY <1>7, <2>2 DEF Others, Refresh!Busy, Refresh!NoLock
    <3> QED
      BY <1>14, <2>2, <3>1
  <2> QED
    BY <2>1, <2>2
<1>16. ASSUME NEW q \in Refresh!Requests, NEW o \in Refresh!Requests,
              Refresh!Busy(q)', Refresh!Busy(o)', req'[q].guard, req'[o].guard,
              req'[q].proc = req'[o].proc, req'[q].token = req'[o].token
       PROVE  q = o
  <2>1. q # r /\ o # r
    BY <1>9, <1>16
  <2>2. req'[q] = req[q] /\ req'[o] = req[o]
    BY <1>7, <2>1 DEF Others
  <2>3. Refresh!Busy(q) /\ Refresh!Busy(o)
    BY <1>16, <2>2 DEF Refresh!Busy, Refresh!NoLock
  <2> QED
    BY <1>16, <2>2, <2>3 DEF RefreshInv, EntriesAreHeld
<1>17. ASSUME NEW o \in Instances, NEW q \in Instances, NEW v \in Refresh!Tokens,
              NEW w \in Refresh!Tokens, map'[o][v] # 0, map'[o][v] = map'[q][w]
       PROVE  o = q /\ v = w
  <2>1. \A a, b \in Instances, x, y \in Refresh!Tokens :
          map[a][x] # 0 /\ map[a][x] = map[b][y] => a = b /\ x = y
    BY DEF RefreshInv, EntriesAreHeld
  <2>2. CASE l = map[p][t]
    <3>1. map'[o][v] = map[o][v] /\ map'[q][w] = map[q][w]
      BY <1>8, <2>2
    <3>2. map[o][v] # 0 /\ map[o][v] = map[q][w]
      BY <1>17, <3>1
    <3> QED
      BY ONLY <2>1, <3>2, o \in Instances, q \in Instances, v \in Refresh!Tokens,
              w \in Refresh!Tokens
  <2>3. CASE l # map[p][t]
    <3>1. CASE (o = p /\ v = t) \/ (q = p /\ w = t)
      BY <1>3, <1>8, <1>17, <2>3, <3>1
    <3>2. CASE ~(o = p /\ v = t) /\ ~(q = p /\ w = t)
      <4>1. map'[o][v] = map[o][v] /\ map'[q][w] = map[q][w]
        BY <1>8, <3>2
      <4>2. map[o][v] # 0 /\ map[o][v] = map[q][w]
        BY <1>17, <4>1
      <4> QED
        BY ONLY <2>1, <4>2, o \in Instances, q \in Instances, v \in Refresh!Tokens,
                w \in Refresh!Tokens
    <3> QED
      BY <3>1, <3>2
  <2> QED
    BY <2>2, <2>3
<1>18. ASSUME NEW o \in Instances, NEW v \in Refresh!Tokens, map'[o][v] # 0
       PROVE  \E q \in Refresh!Requests : req'[q].proc = o /\ req'[q].token = v /\ Present(q)'
  <2>1. CASE o = p /\ v = t
    BY <1>7, <2>1 DEF Present, Holding
  <2>2. CASE ~(o = p /\ v = t)
    <3>1. PICK q \in Refresh!Requests : req[q].proc = o /\ req[q].token = v /\ Present(q)
      BY <1>8, <1>18, <2>2 DEF RefreshInv, EntriesAreHeld
    <3>2. q # r
      BY <1>0, <3>1 DEF Present, Holding
    <3> QED
      BY <1>7, <3>1, <3>2 DEF Others, Present
  <2> QED
    BY <2>1, <2>2
<1>19. EntriesAreHeld'
  BY <1>15, <1>16, <1>17, <1>18 DEF EntriesAreHeld
<1> QED
  BY <1>10, <1>11, <1>13, <1>19 DEF RefreshInv

(* Nobody has asked for anything.                                          *)
LEMMA RefreshStart ==
  ASSUME Refresh!Init
  PROVE  RefreshInv
<1>1. /\ session = [current |-> 1, previous |-> 0, revoked |-> FALSE, committed |-> {1}]
      /\ minted = 1
      /\ map = [p \in Instances |-> [t \in Refresh!Tokens |-> 0]]
      /\ req = [r \in Refresh!Requests |-> Refresh!NoRequest]
  BY DEF Refresh!Init, Refresh!NoLock
<1>2. /\ Refresh!NoRequest \in Reqs /\ Refresh!NoRequest.pc = "none"
      /\ Refresh!NoRequest.token = 0 /\ Refresh!NoRequest.lock = 0
      /\ Refresh!NoRequest.next = 0 /\ Refresh!NoRequest.res = "none"
  <2>1. (CHOOSE p \in Instances : TRUE) \in Instances
    BY ServicesAssumption
  <2> QED
    BY <2>1 DEF Refresh!NoRequest, Refresh!NoLock, Reqs, Results
<1>3. \A r \in Refresh!Requests : req[r] = Refresh!NoRequest
  BY <1>1
<1>4. RefreshTypes
  <2>1. session \in Sessions /\ session.current = 1 /\ session.committed = {1}
    BY <1>1 DEF Sessions
  <2>2. minted \in 1 .. MaxTokens
    BY <1>1, ServicesAssumption
  <2>3. map \in [Instances -> [Refresh!Tokens -> Nat]] /\ req \in [Refresh!Requests -> Reqs]
    BY <1>1, <1>2
  <2> QED
    BY <1>1, <1>2, <1>3, <2>1, <2>2, <2>3 DEF RefreshTypes, Present, Holding, InStore
<1>5. CandidatesAreNew /\ ExchangedIsPast
  BY <1>2, <1>3 DEF CandidatesAreNew, ExchangedIsPast, Refresh!OneRotationPerToken
<1>6. EntriesAreHeld
  BY <1>1, <1>2, <1>3 DEF EntriesAreHeld, Refresh!Busy, Refresh!NoLock
<1> QED
  BY <1>4, <1>5, <1>6 DEF RefreshInv

(* Every step of a request keeps the invariant.                            *)
LEMMA RequestStepKeeps ==
  ASSUME RefreshInv, NEW r \in Refresh!Requests,
         Refresh!RequestStep(r) \/ Refresh!CancelQueued(r) \/ Refresh!StoreFails(r)
  PROVE  RefreshInv'
<1>1. CASE Refresh!CancelQueued(r)
  BY <1>1, RejectStep DEF Refresh!CancelQueued, Holding
<1>2. CASE Refresh!Prepare(r)
  BY <1>2, RejectStep, MintStep DEF Refresh!Prepare, Holding
<1>3. CASE Refresh!ReadSession(r)
  <2>1. /\ req[r].pc = "read" /\ UNCHANGED <<minted, map>>
    BY <1>3 DEF Refresh!ReadSession
  <2>2. PICK d \in Refresh!Classify(session, req[r].token) :
          IF d = "rotate"
          THEN req' = [req EXCEPT ![r].pc = "write"] /\ UNCHANGED session
          ELSE /\ Refresh!Drops(r, d)
               /\ session' = IF d = "reuse" THEN Refresh!Revoked ELSE session
    BY <1>3, Zenon DEF Refresh!ReadSession
  <2>3. d # "rotated"
    BY DEF Refresh!Classify
  <2>4. CASE d = "rotate"
    BY <2>1, <2>2, <2>4, AdvanceStep
  <2>5. CASE d # "rotate"
    <3>1. Refresh!Drops(r, d) /\ session' \in {session, Refresh!Revoked}
          /\ (d = "reuse" => session' = Refresh!Revoked)
      BY <2>2, <2>5, Zenon
    <3> QED
      BY <2>1, <2>3, <3>1, RejectStep DEF Holding
  <2> QED
    BY <2>4, <2>5
<1>4. CASE Refresh!Rotate(r)
  BY <1>4, CommitStep, AdvanceStep DEF Refresh!Rotate
<1>5. CASE Refresh!ResolveConflict(r)
  <2>1. /\ req[r].pc = "conflict" /\ UNCHANGED <<minted, map>>
    BY <1>5 DEF Refresh!ResolveConflict
  <2>2. PICK d \in Refresh!Classify(session, req[r].token) :
          /\ Refresh!Drops(r, d)
          /\ session' = IF d = "reuse" THEN Refresh!Revoked ELSE session
    BY <1>5, Zenon DEF Refresh!ResolveConflict
  <2>3. d # "rotated"
    BY DEF Refresh!Classify
  <2> QED
    BY <2>1, <2>2, <2>3, RejectStep DEF Holding
<1>6. CASE Refresh!StoreFails(r)
  <2>1. /\ req[r].pc \in {"read", "write", "conflict"} /\ Refresh!Drops(r, "failed")
        /\ UNCHANGED <<minted, map>>
    BY <1>6 DEF Refresh!StoreFails
  <2>2. \/ session' = session
        \/ session' = Refresh!Revoked
        \/ req[r].pc = "write" /\ Refresh!Unchanged(r) /\ session' = Refresh!Rotated(r)
    BY <1>6 DEF Refresh!StoreFails, Refresh!Commits
  <2>3. CASE session' \in {session, Refresh!Revoked}
    BY <2>1, <2>3, RejectStep DEF Holding
  <2>4. CASE req[r].pc = "write" /\ Refresh!Unchanged(r) /\ session' = Refresh!Rotated(r)
    BY <2>1, <2>4, CommitStep
  <2> QED
    BY <2>2, <2>3, <2>4
<1> QED
  BY <1>1, <1>2, <1>3, <1>4, <1>5, <1>6, LockStep, DropGuardStep, DropEntryStep
     DEF Refresh!RequestStep

(* Only one part runs.                                                     *)
RefreshPart == part = "refresh" => RefreshInv

(* The invariant of the rotation holds in every reachable state.           *)
LEMMA RefreshHolds == SpecOfPart => []RefreshPart
<1>1. InitOfPart => RefreshPart
  BY RefreshStart DEF InitOfPart, RefreshPart
<1>2. RefreshPart /\ [NextOfPart]_allVars => RefreshPart'
  <2> SUFFICES ASSUME part' = "refresh", RefreshPart, [NextOfPart]_allVars PROVE RefreshInv'
    BY DEF RefreshPart
  <2>1. part = "refresh" /\ RefreshInv
    BY DEF RefreshPart, NextOfPart, allVars, InLease, InConfig, InRefresh, InTasks, InProcess
  <2>2. CASE Refresh!Next
    <3>1. CASE \E r \in Refresh!Requests, p \in Instances :
                 Refresh!Refuse(r, p) \/ \E t \in session.committed : Refresh!Register(r, p, t)
      BY <2>1, <3>1, RefuseStep, RegisterStep
    <3>2. CASE \E r \in Refresh!Requests :
                 Refresh!RequestStep(r) \/ Refresh!CancelQueued(r) \/ Refresh!StoreFails(r)
      BY <2>1, <3>2, RequestStepKeeps
    <3>3. CASE UNCHANGED <<session, minted, map, req>>
      BY <2>1, <3>3 DEF RefreshInv, RefreshTypes, CandidatesAreNew, ExchangedIsPast, EntriesAreHeld,
                        Present, Refresh!OneRotationPerToken, Refresh!Busy
    <3> QED
      BY <2>2, <3>1, <3>2, <3>3 DEF Refresh!Next, Refresh!Close
  <2>3. CASE UNCHANGED refreshVars
    BY <2>1, <2>3 DEF refreshVars, RefreshInv, RefreshTypes, CandidatesAreNew, ExchangedIsPast,
                      EntriesAreHeld, Present, Refresh!OneRotationPerToken, Refresh!Busy
  <2> QED
    BY <2>1, <2>2, <2>3
       DEF NextOfPart, allVars, InLease, InConfig, InRefresh, InTasks, InProcess
<1> QED
  BY <1>1, <1>2, PTL DEF SpecOfPart

(* A refresh token is exchanged at most once over all processes, a reuse   *)
(* that was reported has revoked the session, and in one process the       *)
(* requests for a token share one lock that lives as long as they do       *)
(* (refresh_with_cancellation, acquire and the reservation's Drop).        *)
THEOREM RotationsAreExclusive == SpecOfPart => []RotationIsExclusive
<1>1. RefreshInv => Refresh!OneRotationPerToken
  BY DEF RefreshInv, ExchangedIsPast
<1>2. RefreshInv => Refresh!LocksAreShared
  <2> SUFFICES ASSUME RefreshInv PROVE Refresh!LocksAreShared
    OBVIOUS
  <2>1. \A q, r \in Refresh!Requests :
          Refresh!Busy(q) /\ Refresh!Busy(r) /\ req[q].proc = req[r].proc
            /\ req[q].token = req[r].token
            => req[q].lock = req[r].lock /\ (req[q].guard /\ req[r].guard => q = r)
    BY DEF RefreshInv, EntriesAreHeld
  <2>2. \A r \in Refresh!Requests :
          Refresh!Busy(r) => map[req[r].proc][req[r].token] = req[r].lock
    BY DEF RefreshInv, EntriesAreHeld
  <2>3. \A p \in Instances, t \in Refresh!Tokens : map[p][t] # 0 =>
          \E r \in Refresh!Requests : req[r].proc = p /\ req[r].token = t
                                      /\ req[r].pc \notin {"none", "done"}
    BY DEF RefreshInv, EntriesAreHeld, Present, Holding
  <2> QED
    BY <2>1, <2>2, <2>3 DEF Refresh!LocksAreShared, Refresh!NoLock
<1>3. RefreshPart => RotationIsExclusive
  BY <1>1, <1>2 DEF RefreshPart, RotationIsExclusive
<1> QED
  BY <1>3, RefreshHolds, PTL

=============================================================================
