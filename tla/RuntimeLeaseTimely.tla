------------------------- MODULE RuntimeLeaseTimely -------------------------
(***************************************************************************)
(* RuntimeLease in a deployment whose latencies fit into the TTL: what     *)
(* keeps the worker group on one instance is then an invariant about how   *)
(* much of the lease is left at every await of the owner.                  *)
(***************************************************************************)
EXTENDS RuntimeLease

(* From reading `now` to the end of stop_workload: up to three statements  *)
(* of the claim (or one of the renewal), the renewal interval, the renewal *)
(* that fails, the stop of the workload, and the skew of another clock.    *)
ASSUME TimelyAssumption ==
  RenewInterval + TimerLag + 4 * DbLatency + StopTime + MaxSkew < TTL

(* How long p may still need its lease in the await it is in.              *)
Needs(p) ==
  IF pc[p] = "own" THEN RenewInterval + TimerLag + DbLatency + StopTime - age[p]
  ELSE IF pc[p] = "renew" THEN DbLatency + StopTime - age[p]
  ELSE StopTime - age[p]

(* The owner's lease outlasts its workload on every other instance's       *)
(* clock: while the workload runs the row names its owner and will not     *)
(* expire before run_owned_runtime_lease has stopped it.                   *)
LeaseOutlastsWorkload ==
  \A p \in Instances :
    WorkloadRuns(p) => Mine(p) /\ row.left > Needs(p) + MaxSkew

(* No await outlasts its limit, and the timestamp of a claim or renewal is *)
(* no older than the awaits since it was read.                             *)
AwaitsAreTimely ==
  \A p \in Instances :
    /\ Live(p) => age[p] <= Limit(pc[p])
    /\ pc[p] \in {"insert", "renew"} => lag[p] <= age[p]
    /\ pc[p] = "find" => lag[p] <= age[p] + DbLatency
    /\ pc[p] = "update" => lag[p] <= age[p] + 2 * DbLatency

LeaseInv == TypeOK /\ AwaitsAreTimely /\ LeaseOutlastsWorkload
=============================================================================
