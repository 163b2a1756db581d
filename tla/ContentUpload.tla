---------------------------- MODULE ContentUpload ----------------------------
(***************************************************************************)
(* Uploads of local changes (core/src/upload.rs, content_storage.rs): an   *)
(* entry's dirty generation and upload leases, and the journal a runner    *)
(* drives through session, chunks, conditional commit, reconciliation and  *)
(* the acknowledgement that clears the dirty generation.  The user may     *)
(* edit again at any time; an eviction may want the entry.                 *)
(***************************************************************************)
EXTENDS Naturals

CONSTANTS
  NumUploads, \* bound: upload operations, each with its lease
  NumRunners, \* concurrent invocations of ContentUploadRunner
  Size,       \* chunks in a snapshot
  MaxEdits,   \* bound: local generations
  MaxGen,     \* bound: session generations
  MaxFaults   \* bound: crashes, backend errors and lost answers

VARIABLES
  active,     \* the active session generation
  latest,     \* the last local generation that was recorded
  dirty,      \* generation of the entry's dirty snapshot, 0 if none
  leases,     \* uploads that hold a lease on the entry
  reserved,   \* an eviction reserves the entry
  rec,        \* upload -> [state, snap, offset, outcome]
  run,        \* runner -> [pc, op, gen, seen, status, ack, answer]
  remote,     \* external: [open, moved, done]; see below
  late,       \* external: uploads with a commit still under way
  faults

vars == <<active, latest, dirty, leases, reserved, rec, run, remote, late, faults>>
entry == <<latest, dirty, leases, reserved>>

Uploads == 1 .. NumUploads
Runners == 1 .. NumRunners
NoSession == Size + 1
NoRecord == [state |-> "none", snap |-> 0, offset |-> NoSession, outcome |-> "none"]
Idle == [pc |-> "idle", op |-> 0, gen |-> 0,
         seen |-> NoRecord, status |-> "none", ack |-> 0, answer |-> "none"]

(* The remote knows the chunks accepted for each upload, whether the item  *)
(* has left the revision the entry belongs to, and which uploads did that. *)
Init ==
  /\ active = 1
  /\ latest = 0 /\ dirty = 0 /\ leases = {} /\ reserved = FALSE
  /\ rec = [u \in Uploads |-> NoRecord]
  /\ run = [x \in Runners |-> Idle]
  /\ remote = [open |-> [u \in Uploads |-> NoSession], moved |-> FALSE, done |-> {}]
  /\ late = {}
  /\ faults = 0

States == <<"none", "intent", "uploading", "committing", "unknown", "known",
            "reconciled", "completed">>
Rank(s) == CHOOSE i \in 1 .. 8 : States[i] = s
Decided(s) == Rank(s) >= Rank("known")
Committed(o) == o \in {"committed", "already"}

-----------------------------------------------------------------------------
(* The entry.                                                              *)

(* A new generation, or the retry of the last one.                         *)
MarkDirty(g) ==
  /\ ~reserved
  /\ g \in {latest, latest + 1} \ {0} /\ g <= MaxEdits
  /\ dirty' = IF dirty < g THEN g ELSE dirty
  /\ latest' = g
  /\ UNCHANGED <<active, leases, reserved, rec, run, remote, late, faults>>

BeginEviction ==
  /\ dirty = 0 /\ leases = {} /\ ~reserved
  /\ reserved' = TRUE
  /\ UNCHANGED <<active, latest, dirty, leases, rec, run, remote, late, faults>>

CompleteEviction ==
  /\ reserved
  /\ reserved' = FALSE
  /\ UNCHANGED <<active, latest, dirty, leases, rec, run, remote, late, faults>>

ActivateGeneration ==
  /\ active < MaxGen
  /\ active' = active + 1
  /\ UNCHANGED <<entry, rec, run, remote, late, faults>>

(* Mutant: a committed upload clears whatever is dirty.                    *)
ClearDirtyAny(g) == 0

(* clear_dirty: only the generation that was uploaded.                     *)
ClearDirty(g) == IF dirty = g THEN 0 ELSE dirty

-----------------------------------------------------------------------------
(* Transitions of a record: new record and status.                         *)

Applied(r) == [rec |-> r, status |-> "applied"]
Already(r) == [rec |-> r, status |-> "already"]
Refused(r) == [rec |-> r, status |-> "error"]

RecordSession(r, offset) ==
  IF r.state \notin {"intent", "uploading"}
  THEN IF r.offset = offset THEN Already(r) ELSE Refused(r)
  ELSE IF r.offset = NoSession
  THEN Applied([r EXCEPT !.state = "uploading", !.offset = offset])
  ELSE IF offset < r.offset THEN [rec |-> r, status |-> "fenced"]
  ELSE IF offset = r.offset THEN Already(r)
  ELSE Applied([r EXCEPT !.offset = offset])

BeginRemoteCommit(r) ==
  IF r.state = "uploading"
  THEN IF r.offset = Size THEN Applied([r EXCEPT !.state = "committing"]) ELSE Refused(r)
  ELSE IF r.state = "intent" THEN Refused(r) ELSE Already(r)

(* Unlike a mutation's, "committed" and "already" are two outcomes here.   *)
RecordRemoteOutcome(r, o) ==
  IF r.outcome = o THEN Already(r)
  ELSE IF r.state \notin {"committing", "unknown"} THEN Refused(r)
  ELSE Applied([r EXCEPT !.state = IF o = "unknown" THEN "unknown" ELSE "known",
                         !.outcome = o])

MarkMetadataReconciled(r) ==
  IF r.state = "known" THEN Applied([r EXCEPT !.state = "reconciled"])
  ELSE IF Rank(r.state) > Rank("known") THEN Already(r) ELSE Refused(r)

Complete(r) ==
  IF r.state = "reconciled" THEN Applied([r EXCEPT !.state = "completed"])
  ELSE IF r.state = "completed" THEN Already(r) ELSE Refused(r)

-----------------------------------------------------------------------------
(* The runner.                                                             *)

Ends(x) == run' = [run EXCEPT ![x] = Idle]

(* The loop reads the record and takes the arm of its state.               *)
Looks(u, g, r) ==
  IF r.state = "completed" THEN Idle
  ELSE [pc |-> "act", op |-> u, gen |-> g, seen |-> r, status |-> "none",
        ack |-> 0, answer |-> "none"]

(* Operations are numbered as they are submitted, and a new invocation     *)
(* takes the first free slot.                                              *)
Fresh(u) == rec[u].state = "none" /\ \A v \in Uploads : v < u => rec[v].state # "none"
Free(x) == run[x].pc = "idle" /\ \A y \in Runners : y < x => run[y].pc # "idle"

(* submit: dirty generation, lease and intent in one transaction.          *)
Submit(x, u) ==
  /\ Free(x) /\ Fresh(u)
  /\ dirty # 0 /\ ~reserved
  /\ leases' = leases \cup {u}
  /\ rec' = [rec EXCEPT ![u] = [NoRecord EXCEPT !.state = "intent", !.snap = dirty]]
  /\ run' = [run EXCEPT ![x] = Looks(u, active, rec'[u])]
  /\ UNCHANGED <<active, latest, dirty, reserved, remote, late, faults>>

Resume(x, u) ==
  /\ Free(x)
  /\ rec[u].state \notin {"none", "completed"}
  /\ run' = [run EXCEPT ![x] = Looks(u, active, rec[u])]
  /\ UNCHANGED <<active, entry, rec, remote, late, faults>>

(* One call of the store with transition t; the generation is compared in  *)
(* the same transaction.                                                   *)
StoreCall(x, t) ==
  IF run[x].gen # active
  THEN /\ run' = [run EXCEPT ![x].pc = "observe", ![x].status = "fenced"]
       /\ UNCHANGED rec
  ELSE IF t.status = "error"
  THEN Ends(x) /\ UNCHANGED rec
  ELSE /\ rec' = [rec EXCEPT ![run[x].op] = t.rec]
       /\ run' = [run EXCEPT ![x].pc = "observe", ![x].status = t.status]

Asks(x, s) == run[x].pc = "act" /\ run[x].seen.state = s

Record(x) ==
  LET r == rec[run[x].op] IN
  /\ run[x].pc = "answered"
  /\ StoreCall(x, IF run[x].seen.state \in {"intent", "uploading"}
                  THEN RecordSession(r, run[x].ack)
                  ELSE RecordRemoteOutcome(r, run[x].answer))
  /\ UNCHANGED <<active, entry, remote, late, faults>>

BeginCommit(x) ==
  /\ Asks(x, "uploading") /\ run[x].seen.offset = Size
  /\ StoreCall(x, BeginRemoteCommit(rec[run[x].op]))
  /\ UNCHANGED <<active, entry, remote, late, faults>>

(* The outcome is acknowledged and the dirty generation cleared with it.   *)
ReconcileMetadata(x) ==
  LET u == run[x].op IN
  /\ Asks(x, "known")
  /\ StoreCall(x, MarkMetadataReconciled(rec[u]))
  /\ dirty' = IF rec'[u] # rec[u] /\ Committed(rec[u].outcome)
              THEN ClearDirty(rec[u].snap) ELSE dirty
  /\ UNCHANGED <<active, latest, leases, reserved, remote, late, faults>>

CompleteUpload(x) ==
  LET u == run[x].op IN
  /\ Asks(x, "reconciled")
  /\ StoreCall(x, Complete(rec[u]))
  /\ leases' = IF rec'[u] # rec[u] THEN leases \ {u} ELSE leases
  /\ UNCHANGED <<active, latest, dirty, reserved, remote, late, faults>>

(* observe_transition: somebody's progress, a fence, a commit whose        *)
(* outcome stays unknown, or a store that does not make progress.          *)
Observe(x) ==
  /\ run[x].pc = "observe"
  /\ LET r == run[x]
         cur == rec[r.op]
         reconciling == r.seen.state = "unknown" IN
     run' = [run EXCEPT ![x] =
       IF reconciling /\ r.status = "fenced" THEN Idle
       ELSE IF cur # r.seen
       THEN IF r.answer = "unknown" /\ ~reconciling THEN Idle
            ELSE Looks(r.op, r.gen, cur)
       ELSE IF r.status = "fenced" THEN Idle
       ELSE IF reconciling /\ r.answer = "unknown" /\ r.status = "already" THEN Idle
       ELSE [@ EXCEPT !.pc = "stalled"]]
  /\ UNCHANGED <<active, entry, rec, remote, late, faults>>

-----------------------------------------------------------------------------
(* The remote, external: sessions by idempotency key, chunks in strict     *)
(* order, and a commit conditional on the entry's revision.                *)

Answered(x, a) == run' = [run EXCEPT ![x].pc = "answered", ![x].answer = a]
Accepted(x, n) == run' = [run EXCEPT ![x].pc = "answered", ![x].ack = n]

StartUpload(x) ==
  LET u == run[x].op
      opened == IF remote.open[u] = NoSession THEN 0 ELSE remote.open[u] IN
  /\ Asks(x, "intent")
  /\ remote' = [remote EXCEPT !.open[u] = opened]
  /\ Accepted(x, opened)
  /\ UNCHANGED <<active, entry, rec, late, faults>>

(* A chunk out of order is refused; the runner then asks whether exactly   *)
(* this chunk was accepted before.                                         *)
UploadChunk(x) ==
  LET u == run[x].op
      at == run[x].seen.offset IN
  /\ Asks(x, "uploading") /\ at < Size
  /\ IF remote.open[u] = at
     THEN remote' = [remote EXCEPT !.open[u] = at + 1] /\ Accepted(x, at + 1)
     ELSE /\ UNCHANGED remote
          /\ IF remote.open[u] > at THEN Accepted(x, at + 1) ELSE Ends(x)
  /\ UNCHANGED <<active, entry, rec, late, faults>>

(* All chunks are there, the revision still holds, and it is the first.    *)
Commit(u) ==
  IF u \notin remote.done /\ remote.open[u] = Size /\ ~remote.moved
  THEN [remote EXCEPT !.moved = TRUE, !.done = @ \cup {u}] ELSE remote

Verdict(u, r) ==
  IF u \in r.done THEN "already" ELSE IF r.moved THEN "precondition" ELSE "unknown"

CommitUpload(x) ==
  /\ Asks(x, "committing")
  /\ remote' = Commit(run[x].op)
  /\ Answered(x, IF run[x].op \in remote'.done \ remote.done THEN "committed"
                 ELSE Verdict(run[x].op, remote))
  /\ UNCHANGED <<active, entry, rec, late, faults>>

CommitUnanswered(x) ==
  /\ Asks(x, "committing") /\ faults < MaxFaults
  /\ late' = late \cup {run[x].op}
  /\ Answered(x, "unknown")
  /\ faults' = faults + 1
  /\ UNCHANGED <<active, entry, rec, remote>>

ReconcileUpload(x) ==
  /\ Asks(x, "unknown")
  /\ Answered(x, Verdict(run[x].op, remote))
  /\ UNCHANGED <<active, entry, rec, remote, late, faults>>

(* The process dies, or an answer turns into a plain error.                *)
Crash(x) ==
  /\ run[x].pc \in {"act", "answered", "observe"} /\ faults < MaxFaults
  /\ \/ UNCHANGED late
     \/ Asks(x, "committing") /\ late' = late \cup {run[x].op}
  /\ Ends(x)
  /\ faults' = faults + 1
  /\ UNCHANGED <<active, entry, rec, remote>>

Arrive(u) ==
  /\ u \in late
  /\ remote' = Commit(u)
  /\ late' = late \ {u}
  /\ UNCHANGED <<active, entry, rec, run, faults>>

OtherWriter ==
  /\ ~remote.moved
  /\ remote' = [remote EXCEPT !.moved = TRUE]
  /\ UNCHANGED <<active, entry, rec, run, late, faults>>

-----------------------------------------------------------------------------
RunnerStep(x) ==
  \/ StartUpload(x) \/ UploadChunk(x) \/ BeginCommit(x) \/ CommitUpload(x)
  \/ ReconcileUpload(x) \/ Record(x) \/ ReconcileMetadata(x) \/ CompleteUpload(x)
  \/ Observe(x)

Next ==
  \/ \E g \in 1 .. MaxEdits : MarkDirty(g)
  \/ BeginEviction \/ CompleteEviction \/ ActivateGeneration
  \/ \E x \in Runners :
       \/ RunnerStep(x) \/ CommitUnanswered(x) \/ Crash(x)
       \/ \E u \in Uploads : Submit(x, u) \/ Resume(x, u)
  \/ \E u \in Uploads : Arrive(u)
  \/ OtherWriter

Spec == Init /\ [][Next]_vars

(* An invocation goes on until it ends, and the session's worker keeps     *)
(* resuming what is not completed.  A commit whose answer was lost need    *)
(* never arrive.                                                           *)
Fairness ==
  /\ \A x \in Runners : WF_vars(RunnerStep(x))
  /\ \A u \in Uploads : WF_vars(\E x \in Runners : Resume(x, u))

FairSpec == Spec /\ Fairness

-----------------------------------------------------------------------------
(* Properties.                                                             *)

(* No local change is lost: the entry counts as clean only once the latest *)
(* generation is committed remotely, and only a clean entry without an     *)
(* upload can be reserved for eviction (reconcile_content_upload_metadata, *)
(* clear_dirty, mark_dirty, reserve_eviction).                             *)
NoChangeIsLost ==
  /\ dirty = 0 /\ latest > 0 =>
       \E u \in Uploads : rec[u].snap = latest /\ u \in remote.done
  /\ reserved => dirty = 0 /\ leases = {}

(* A decided upload tells the truth: committed means that all chunks of    *)
(* the snapshot were accepted and committed, a failed precondition that    *)
(* they never are; and the recorded offset never runs ahead of the remote. *)
UploadIsTrue ==
  \A u \in Uploads :
    /\ Decided(rec[u].state) =>
         \/ Committed(rec[u].outcome) /\ u \in remote.done
         \/ rec[u].outcome = "precondition" /\ u \notin remote.done
    /\ u \in remote.done => remote.open[u] = Size
    /\ rec[u].offset # NoSession => rec[u].offset <= remote.open[u]

(* Runners that work on one upload never take each other's progress for a  *)
(* store that is stuck (observe_transition).                               *)
NoFalseStall == \A x \in Runners : run[x].pc # "stalled"

(* The remote can still commit the upload, and has not said otherwise.     *)
Unanswered(u) == rec[u].state = "unknown" /\ u \in late

(* Every accepted upload is completed and gives its lease back, so that    *)
(* the entry can be evicted again, unless the remote keeps its outcome     *)
(* unknown for ever.                                                       *)
UploadsDone ==
  \A u \in Uploads :
    Unanswered(u) \/ (rec[u].state \in {"none", "completed"} /\ u \notin leases)
=============================================================================
