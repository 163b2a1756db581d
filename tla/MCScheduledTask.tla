--------------------------- MODULE MCScheduledTask ---------------------------
(* ScheduledTask for TLC: the runtimes are interchangeable, and states are *)
(* told apart without what neither the actions nor the properties of the   *)
(* run read.                                                               *)
EXTENDS ScheduledTask, TLC

WorkerSymmetry == Permutations(Workers)

(* The timed runs, where the clocks agree (MaxSkew is 0), tell times apart *)
(* as far as they are still compared with anything.                        *)
(*   - claimed and claimed_at are compared with each other, and differ for *)
(*     ever once they differ: a runtime claims again only after it dropped *)
(*     its old claim.                                                      *)
(*   - scheduled_at is compared with next_run_at, which never comes back   *)
(*     to an old value, and with a later time.                             *)
(*   - next_run_at of a claimed row is before its expiry, which the bound  *)
(*     of FiringRecovers then counts from; it is compared with the stamps  *)
(*     of the looks that had begun.                                        *)
(*   - a stamp is read while the row is looked at or the outcome written.  *)
(*   - what is recorded and finished is never read.                        *)
Looking(w) == pc[w] \in Ensuring \cup {"find", "update"}

LiveRow ==
  IF row = NoRow THEN NoRow
  ELSE <<row.owner, row.expires,
         IF row.owner = NoOwner THEN row.next
         ELSE {w \in Workers : Looking(w) /\ stamp[w] >= row.next}>>

LiveClaims ==
  <<{w \in Workers : pc[w] \in Claiming /\ Owns(w)},
    {w \in Workers : pc[w] = "update" /\ row.next = scheduled[w]}>>

LiveStamps ==
  [w \in Workers |-> IF Looking(w) \/ pc[w] \in {"record", "complete"} THEN stamp[w] ELSE 0]

TimedView ==
  <<now, LiveRow, pc, since, shutAt, LiveStamps, LiveClaims,
    renSt, renNow, renDue, faults, shutdowns>>

(* The untimed run, where nothing is ever late: an await has no age but    *)
(* the sleep, and the grace period is over as soon as it starts.           *)
UntimedView ==
  <<now, skew, row, pc, [w \in Workers |-> IF pc[w] = "idle" THEN since[w] ELSE 0],
    [w \in Workers |-> Cancelled(w)], stamp, scheduled, claimedAt,
    renSt, renNow, renDue, faults, shutdowns, recorded, finished>>
=============================================================================
