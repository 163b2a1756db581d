----------------------------- MODULE ConfigSync -----------------------------
(***************************************************************************)
(* Configuration synchronisation of one process: the reload supervisor     *)
(* (aster_forge_config/src/notification/supervisor.rs), the subscription   *)
(* supervisor it polls (aster_forge_events/src/supervisor.rs) and the      *)
(* runtime cache both refresh (aster_forge_config/src/runtime.rs).  Hints  *)
(* carry keys, never values; those that are published while no             *)
(* subscription is open, or overrun its buffer, are lost.  Values are      *)
(* abstracted to versions of the rows in the authoritative store.          *)
(***************************************************************************)
EXTENDS Naturals, Sequences, FiniteSets

CONSTANTS
  RemoteKeys,  \* rows other processes write
  LocalKeys,   \* rows this process writes
  MaxVersion,  \* bound: writes of a row
  BufferSize,  \* capacity of the subscription's buffer
  MaxPending,  \* MAX_PENDING_KEYS of the coalesced retry
  MaxFaults    \* bound: failed subscribes, broken streams, failed callbacks

VARIABLES
  mode,     \* "reconcile": with a reconcile callback; "hints": without
  store,    \* external: row -> committed version
  local,    \* row -> version in the runtime cache
  owed,     \* history: row -> version a received hint announced
  saved,    \* rows this process has committed and not applied
  unsent,   \* hints that are not published yet, sets of rows
  buffer,   \* the open subscription: hints, oldest first
  lagged,   \* it was overrun
  link,     \* the subscription supervisor
  item,     \* the hint it wants to forward
  updates,  \* the channel of capacity one
  worker,   \* [pc, why, keys, rows]: select loop and callback
  retry,    \* [armed, keys]: a pending retry and its coalesced hint
  faults

transport == <<store, unsent, buffer, lagged>>
vars == <<mode, transport, local, owed, saved, link, item, updates, worker, retry, faults>>

Keys == RemoteKeys \cup LocalKeys
NoRetry == [armed |-> FALSE, keys |-> {}]
Selecting == [pc |-> "select", why |-> "none", keys |-> {}, rows |-> [k \in Keys |-> 0]]

Init ==
  /\ mode \in {"reconcile", "hints"}
  /\ store = [k \in Keys |-> 0] /\ local = store /\ owed = store
  /\ saved = {} /\ unsent = {}
  /\ buffer = <<>> /\ lagged = FALSE
  /\ link = "subscribe" /\ item = {} /\ updates = <<>>
  /\ worker = Selecting
  /\ retry = NoRetry
  /\ faults = 0

-----------------------------------------------------------------------------
(* Writers, external: a row is committed, then announced; a full change    *)
(* names no key and means all of them.                                     *)

Commit(k) == store[k] < MaxVersion /\ store' = [store EXCEPT ![k] = @ + 1]

RemoteWrite(k) ==
  /\ Commit(k)
  /\ \E hint \in {{k}, Keys} : unsent' = unsent \cup {hint}
  /\ UNCHANGED <<mode, buffer, lagged, local, owed, saved, link, item, updates,
                 worker, retry, faults>>

LocalWrite(k) ==
  /\ k \notin saved
  /\ Commit(k)
  /\ saved' = saved \cup {k}
  /\ UNCHANGED <<mode, unsent, buffer, lagged, local, owed, link, item, updates,
                 worker, retry, faults>>

(* Mutant: apply does not wait for a reload that is under way.             *)
ApplyUnlocked(k) ==
  /\ k \in saved
  /\ local' = [local EXCEPT ![k] = store[k]]
  /\ saved' = saved \ {k}
  /\ UNCHANGED <<mode, transport, owed, link, item, updates, worker, retry, faults>>

(* apply: the writer's own row, under the update lock.  Its hint would     *)
(* come back as of local origin and be ignored; none is modelled.          *)
Apply(k) ==
  /\ k \in saved /\ worker.pc # "publish"
  /\ local' = [local EXCEPT ![k] = store[k]]
  /\ saved' = saved \ {k}
  /\ UNCHANGED <<mode, transport, owed, link, item, updates, worker, retry, faults>>

Subscribed == link \in {"connected", "receive", "item"}

(* A full buffer loses its oldest hint.                                    *)
Publish(hint) ==
  /\ hint \in unsent
  /\ unsent' = unsent \ {hint}
  /\ IF ~Subscribed THEN UNCHANGED <<buffer, lagged>>
     ELSE IF Len(buffer) < BufferSize
     THEN buffer' = Append(buffer, hint) /\ UNCHANGED lagged
     ELSE buffer' = Append(Tail(buffer), hint) /\ lagged' = TRUE
  /\ UNCHANGED <<mode, store, local, owed, saved, link, item, updates, worker,
                 retry, faults>>

-----------------------------------------------------------------------------
(* supervise_event_subscription.  It is polled by the select loop, so it   *)
(* stands still while a callback runs.                                     *)

Polled == worker.pc = "select"

Subscribe ==
  /\ Polled /\ link = "subscribe"
  /\ link' = "connected"
  /\ UNCHANGED <<mode, transport, local, owed, saved, item, updates, worker, retry, faults>>

(* Drops the subscription with what is in its buffer.                      *)
Breaks ==
  /\ link' = "down"
  /\ buffer' = <<>> /\ lagged' = FALSE
  /\ UNCHANGED <<mode, store, unsent, local, owed, saved, item, updates, worker, retry>>

SubscribeFails ==
  /\ Polled /\ link = "subscribe" /\ faults < MaxFaults
  /\ Breaks
  /\ faults' = faults + 1

(* An overrun buffer is an error of receive, too.                          *)
StreamEnds ==
  /\ Polled /\ link = "receive"
  /\ \/ lagged /\ UNCHANGED faults
     \/ ~lagged /\ faults < MaxFaults /\ faults' = faults + 1
  /\ Breaks

Receive ==
  /\ Polled /\ link = "receive" /\ ~lagged /\ buffer # <<>>
  /\ item' = Head(buffer)
  /\ buffer' = Tail(buffer)
  /\ owed' = [k \in Keys |-> IF k \in item' THEN store[k] ELSE owed[k]]
  /\ link' = "item"
  /\ UNCHANGED <<mode, store, unsent, lagged, local, saved, updates, worker, retry, faults>>

(* One update at a time fits the channel; Disconnected and Reconnecting    *)
(* stand for one update here.                                              *)
SendUpdate ==
  /\ Polled /\ updates = <<>>
  /\ link \in {"connected", "item", "down"}
  /\ updates' = <<[kind |-> link, keys |-> item]>>
  /\ link' = IF link = "down" THEN "backoff" ELSE "receive"
  /\ item' = {}
  /\ UNCHANGED <<mode, transport, local, owed, saved, worker, retry, faults>>

BackoffEnds ==
  /\ Polled /\ link = "backoff"
  /\ link' = "subscribe"
  /\ UNCHANGED <<mode, transport, local, owed, saved, item, updates, worker, retry, faults>>

-----------------------------------------------------------------------------
(* The select loop.                                                        *)

Calls(why, keys) == worker' = [Selecting EXCEPT !.pc = "load", !.why = why, !.keys = keys]

(* The retry's deadline has passed.                                        *)
Retries ==
  /\ Polled /\ retry.armed
  /\ retry' = [retry EXCEPT !.armed = FALSE]
  /\ Calls("retry", IF mode = "reconcile" THEN Keys ELSE retry.keys)
  /\ UNCHANGED <<mode, transport, local, owed, saved, link, item, updates, faults>>

(* A connection is reconciled before its first hint is handled.            *)
Handles ==
  /\ Polled /\ updates # <<>>
  /\ updates' = <<>>
  /\ CASE updates[1].kind = "item" -> Calls("hint", updates[1].keys)
       [] updates[1].kind = "connected" /\ mode = "reconcile" -> Calls("connected", Keys)
       [] OTHER -> UNCHANGED worker
  /\ UNCHANGED <<mode, transport, local, owed, saved, link, item, retry, faults>>

(* reload and reconcile, in the product: rows are loaded and published     *)
(* under the update lock.                                                  *)
LoadAll ==
  /\ worker.pc = "load"
  /\ worker' = [worker EXCEPT !.pc = "publish", !.rows = store]
  /\ UNCHANGED <<mode, transport, local, owed, saved, link, item, updates, retry, faults>>

(* Only a reconcile, or the retry itself, clears what is pending.          *)
Replace ==
  /\ worker.pc = "publish"
  /\ local' = [k \in Keys |-> IF k \in worker.keys THEN worker.rows[k] ELSE local[k]]
  /\ worker' = Selecting
  /\ retry' = IF worker.why = "hint" THEN retry ELSE NoRetry
  /\ UNCHANGED <<mode, transport, owed, saved, link, item, updates, faults>>

(* Mutant: a failed retry is not scheduled again.                          *)
AfterFailureOnce ==
  IF worker.why = "retry" THEN retry
  ELSE [armed |-> TRUE,
        keys |-> IF mode = "reconcile" \/ worker.why = "retry" THEN retry.keys
                 ELSE retry.keys \cup worker.keys]

(* schedule and merge_message: too many keys become all keys.              *)
AfterFailure ==
  [armed |-> TRUE,
   keys |-> IF mode = "reconcile" \/ worker.why = "retry" THEN retry.keys
            ELSE LET merged == retry.keys \cup worker.keys IN
                 IF Cardinality(merged) > MaxPending THEN Keys ELSE merged]

CallbackFails ==
  /\ worker.pc \in {"load", "publish"} /\ faults < MaxFaults
  /\ worker' = Selecting
  /\ retry' = AfterFailure
  /\ faults' = faults + 1
  /\ UNCHANGED <<mode, transport, local, owed, saved, link, item, updates>>

-----------------------------------------------------------------------------
Steps ==
  \/ Subscribe \/ Receive \/ SendUpdate \/ BackoffEnds \/ (lagged /\ StreamEnds)
  \/ Handles \/ LoadAll \/ Replace

Next ==
  \/ \E k \in RemoteKeys : RemoteWrite(k)
  \/ \E k \in LocalKeys : LocalWrite(k) \/ Apply(k)
  \/ \E hint \in unsent : Publish(hint)
  \/ Steps \/ Retries \/ SubscribeFails \/ StreamEnds \/ CallbackFails

Spec == Init /\ [][Next]_vars

(* The task is polled, delays pass, writers finish what they began.        *)
Fairness ==
  /\ WF_vars(Steps) /\ WF_vars(Retries)
  /\ WF_vars(\E k \in LocalKeys : Apply(k))
  /\ WF_vars(\E hint \in unsent : Publish(hint))

FairSpec == Spec /\ Fairness

-----------------------------------------------------------------------------
(* Properties.                                                             *)

(* Something will still bring the cache up to date.                        *)
RefreshPending ==
  \/ unsent # {} \/ buffer # <<>> \/ lagged
  \/ link # "receive" \/ updates # <<>>
  \/ worker.pc # "select" \/ retry.armed

(* With a reconcile callback, the cache is current whenever nothing is     *)
(* pending: no lost hint, overrun buffer, failed callback or change in the *)
(* middle of a callback is forgotten (the order of Connected and items,    *)
(* schedule, and when retry is reset).                                     *)
QuietIsCurrent ==
  mode = "reconcile" /\ ~RefreshPending =>
    \A k \in Keys \ saved : local[k] = store[k]

(* A reload never replaces a row by an older one: what it loaded cannot    *)
(* have been overtaken when it is published (AsyncRuntimeConfig::reload's  *)
(* update lock).                                                           *)
OnlyNewerRows == \A k \in Keys : local'[k] >= local[k]

(* The cache catches up with the store; without a reconcile callback, with *)
(* every hint that was received, although callbacks fail.                  *)
CaughtUp ==
  \A k \in Keys :
    /\ local[k] >= owed[k]
    /\ mode = "reconcile" => local[k] = store[k]
=============================================================================
