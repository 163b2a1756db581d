----------------------------- MODULE TaskGuard -----------------------------
(***************************************************************************)
(* TaskExecution where neither the way from a claim's `now` to the start   *)
(* of the run nor a heartbeat statement takes longer than one heartbeat    *)
(* interval: the in-memory guard (lease.rs) then never outlives the lease. *)
(***************************************************************************)
EXTENDS TaskExecution

ASSUME TimelyAssumption ==
  HeartbeatSecs < Lease /\ ClaimDelay <= HeartbeatSecs

(* Nobody waiting for its run or its heartbeat is kept any longer.         *)
Prompt ==
  \A w \in Workers :
    pc[w] = "claimed" \/ hb[w] = "touch" => hbAge[w] < HeartbeatSecs

TimelyNext == Work \/ (Prompt /\ Tick)

TimelySpec == Init /\ [][TimelyNext]_vars

GuardOpen(w) == term[w] = "none" /\ guardAge[w] < RenewalTimeout

(* A claim that waits for its run, and a heartbeat under way, are recent.  *)
WaitIsShort(w) ==
  pc[w] = "claimed" \/ hb[w] = "touch" => hbAge[w] <= HeartbeatSecs

(* A run that has not begun holds its lease.                               *)
ClaimedHoldsLease(w) ==
  pc[w] = "claimed" =>
    /\ Executable(w)
    /\ leaseLeft[task[w]] + hbAge[w] >= Lease

(* A slot that has not begun its run has neither guard nor heartbeat.      *)
UnstartedIsClean(w) ==
  pc[w] \in {"idle", "claimed"} => term[w] = "none" /\ hb[w] = "off"

(* What is left of the lease of a run whose guard is open: the lease was   *)
(* extended at most one interval before the guard was restarted.           *)
GuardWithinLease(w) ==
  pc[w] \in Running /\ GuardOpen(w) /\ Executable(w) =>
    leaseLeft[task[w]] + guardAge[w] + HeartbeatSecs >= Lease

(* An open guard's body has not lost its row.                              *)
BodyHoldsRow(w) ==
  pc[w] = "body" /\ GuardOpen(w) =>
    /\ procToken[task[w]] = lease[w]
    /\ status[task[w]] \in {"processing", "succeeded"}

RunIsSafe(w) ==
  /\ WaitIsShort(w)
  /\ ClaimedHoldsLease(w)
  /\ UnstartedIsClean(w)
  /\ GuardWithinLease(w)
  /\ BodyHoldsRow(w)

GuardInv == FenceInv /\ \A w \in Workers : RunIsSafe(w)
=============================================================================
