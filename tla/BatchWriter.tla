----------------------------- MODULE BatchWriter -----------------------------
(***************************************************************************)
(* The managed batch writer (aster_forge_runtime/src/buffered.rs) with the *)
(* audit writer's sink (aster_forge_audit/src/db_writer.rs): a bounded     *)
(* queue written in batches by one worker, a lane for one overflow record, *)
(* flushes that wait for watermarks, explicit retry, drain and stop.       *)
(* Instants are abstracted: `oldest` says whether delayed_flush_after has  *)
(* passed, and a caller's deadline may pass whenever the code looks.       *)
(***************************************************************************)
EXTENDS Integers, Sequences

CONSTANTS
  N,            \* records submitted, numbered in the order of submission
  Capacity,     \* queue_capacity, after normalisation
  BatchSize,    \* batch_size, after normalisation
  DirectWrite,  \* the overflow policy is DirectWrite, not Reject
  Flushers,     \* callers of flush
  Stoppers,     \* callers of stop
  MaxFaults     \* bound: failed or panicking sink calls and worker panics

ASSUME SizeAssumption ==
  /\ N \in Nat
  /\ Capacity \in Nat \ {0} /\ BatchSize \in Nat \ {0}
  /\ DirectWrite \in BOOLEAN
  /\ Flushers \cap Stoppers = {}
  /\ MaxFaults \in Nat

Records == 1 .. N
Callers == Flushers \cup Stoppers
NoRecord == 0

VARIABLES
  lifecycle,       \* BufferedWriterState
  queue,           \* unacknowledged batch records, those being written too
  oldest,          \* arrival of the oldest: "none", "fresh" or "due"
  direct,          \* the overflow record: [item, failure], item NoRecord if none
  failure,         \* class of the failure blocking the front of the queue
  failureRecords,  \* how many front records it affects
  flushThrough,    \* highest batch acknowledgement asked for
  persisted,       \* records acknowledged
  directPersisted, \* those of the overflow lane
  cancelled,       \* the cancellation token
  wake,            \* a stored permit of the worker's Notify
  worker,          \* "none", "looking", "parked", "writing", "failing", "gone"
  job,             \* what the sink was called with: [direct, count]
  preferBatch,     \* the last write was of the overflow lane
  outcome,         \* record -> what its submitter knows
  call,            \* caller -> [pc, res, batchTarget, directTarget]
  scope,           \* history: records admitted when the flush captured them
  stored,          \* external: record -> how often the store holds it
  faults           \* faults so far

core == <<lifecycle, queue, oldest, direct, failure, failureRecords,
          flushThrough, persisted, directPersisted>>
loop == <<cancelled, worker, job, preferBatch>>
vars == <<core, loop, wake, outcome, call, scope, stored, faults>>

Classes == {"retryable", "permanent", "unknown"}
NoDirect == [item |-> NoRecord, failure |-> "none"]

Init ==
  /\ lifecycle = "Created"
  /\ queue = <<>> /\ oldest = "none"
  /\ direct = NoDirect
  /\ failure = "none" /\ failureRecords = 0
  /\ flushThrough = 0 /\ persisted = 0 /\ directPersisted = 0
  /\ cancelled = FALSE /\ wake = FALSE
  /\ worker = "none" /\ job = [direct |-> FALSE, count |-> 0]
  /\ preferBatch = FALSE
  /\ outcome = [r \in Records |-> "new"]
  /\ call = [c \in Callers |->
       [pc |-> "idle", res |-> "none", batchTarget |-> 0, directTarget |-> 0]]
  /\ scope = [c \in Callers |-> {}]
  /\ stored = [r \in Records |-> 0]
  /\ faults = 0

BatchPersisted == persisted - directPersisted
BatchWatermark == BatchPersisted + Len(queue)
Queued == {queue[i] : i \in 1 .. Len(queue)}
HasDirect == direct.item # NoRecord
Larger(a, b) == IF a < b THEN b ELSE a
Smaller(a, b) == IF a < b THEN a ELSE b

(* unconfirmed: what the writer has taken and not seen acknowledged.       *)
Unconfirmed == Queued \cup (IF HasDirect THEN {direct.item} ELSE {})

-----------------------------------------------------------------------------
(* Startup and admission.                                                  *)

Start ==
  /\ lifecycle = "Created"
  /\ lifecycle' = "Running"
  /\ worker' = "looking"
  /\ UNCHANGED <<queue, oldest, direct, failure, failureRecords, flushThrough,
                 persisted, directPersisted, cancelled, job, preferBatch,
                 wake, outcome, call, scope, stored, faults>>

Submits(r) == outcome[r] = "new" /\ \A q \in Records : q < r => outcome[q] # "new"

Reject(r) ==
  /\ Submits(r)
  /\ \/ lifecycle # "Running"
     \/ Len(queue) >= Capacity /\ (~DirectWrite \/ HasDirect)
  /\ outcome' = [outcome EXCEPT ![r] = "refused"]
  /\ UNCHANGED <<core, loop, wake, call, scope, stored, faults>>

Enqueue(r) ==
  /\ Submits(r)
  /\ lifecycle = "Running" /\ Len(queue) < Capacity
  /\ queue' = Append(queue, r)
  /\ oldest' = IF queue = <<>> THEN "fresh" ELSE oldest
  /\ wake' = TRUE
  /\ outcome' = [outcome EXCEPT ![r] = "queued"]
  /\ UNCHANGED <<lifecycle, direct, failure, failureRecords, flushThrough,
                 persisted, directPersisted, loop, call, scope, stored, faults>>

Overflow(r) ==
  /\ Submits(r)
  /\ lifecycle = "Running" /\ Len(queue) >= Capacity
  /\ DirectWrite /\ ~HasDirect
  /\ direct' = [item |-> r, failure |-> "none"]
  /\ wake' = TRUE
  /\ outcome' = [outcome EXCEPT ![r] = "waiting"]
  /\ UNCHANGED <<lifecycle, queue, oldest, failure, failureRecords, flushThrough,
                 persisted, directPersisted, loop, call, scope, stored, faults>>

Record(r) == Reject(r) \/ Enqueue(r) \/ Overflow(r)

(* Time: delayed_flush_after has passed since the oldest record came.      *)
DelayElapses ==
  /\ oldest = "fresh"
  /\ oldest' = "due"
  /\ UNCHANGED <<lifecycle, queue, direct, failure, failureRecords,
                 flushThrough, persisted, directPersisted, loop, wake,
                 outcome, call, scope, stored, faults>>

Draining == IF lifecycle = "Stopped" THEN "Stopped" ELSE "Draining"

BeginDrain ==
  /\ lifecycle' = Draining
  /\ wake' = TRUE
  /\ UNCHANGED <<queue, oldest, direct, failure, failureRecords, flushThrough,
                 persisted, directPersisted, loop, outcome, call, scope,
                 stored, faults>>

RetryFailed ==
  /\ lifecycle # "Stopped"
  /\ IF failure = "retryable"
     THEN /\ failure' = "none" /\ failureRecords' = 0
          /\ flushThrough' = Larger(flushThrough, BatchWatermark)
     ELSE UNCHANGED <<failure, failureRecords, flushThrough>>
  /\ direct' = IF direct.failure = "retryable"
               THEN [direct EXCEPT !.failure = "none"] ELSE direct
  /\ wake' = TRUE
  /\ UNCHANGED <<lifecycle, queue, oldest, persisted, directPersisted, loop,
                 outcome, call, scope, stored, faults>>

-----------------------------------------------------------------------------
(* Flush and stop.                                                         *)

(* changed.notify_waiters: every flush waiting for a change looks again.   *)
Notified == [c \in Callers |->
              IF call[c].pc = "wait" THEN [call[c] EXCEPT !.pc = "check"]
              ELSE call[c]]

Moves(c, from, to) ==
  /\ call[c].pc = from
  /\ call' = [call EXCEPT ![c].pc = to]

StopDrains(c) ==
  /\ c \in Stoppers /\ Moves(c, "idle", "drained")
  /\ lifecycle' = Draining
  /\ wake' = TRUE
  /\ UNCHANGED <<queue, oldest, direct, failure, failureRecords, flushThrough,
                 persisted, directPersisted, loop, outcome, scope, stored,
                 faults>>

(* The first poll of flush: the watermarks of both lanes are captured.     *)
Capture(c) ==
  /\ call[c].pc = (IF c \in Stoppers THEN "drained" ELSE "idle")
  /\ lifecycle # "Created"
  /\ call' = [call EXCEPT ![c] =
       [pc |-> "check", res |-> "none", batchTarget |-> BatchWatermark,
        directTarget |-> directPersisted + (IF HasDirect THEN 1 ELSE 0)]]
  /\ scope' = [scope EXCEPT ![c] = Unconfirmed]
  /\ UNCHANGED <<core, loop, wake, outcome, stored, faults>>

(* A flush ends with res; a stop goes on to cancel the worker.             *)
Returns(c, res) ==
  /\ call' = [call EXCEPT ![c].res = res,
                          ![c].pc = IF c \in Stoppers THEN "cancel" ELSE "done"]
  /\ UNCHANGED <<core, wake>>

NotStarted(c) ==
  /\ c \in Flushers /\ call[c].pc = "idle"
  /\ lifecycle = "Created"
  /\ Returns(c, "failed")
  /\ UNCHANGED <<loop, outcome, scope, stored, faults>>

(* Mutant: records of the overflow lane count for the batch watermark.     *)
BatchPendingAnyLane(c) == persisted < call[c].batchTarget

BatchPending(c) == BatchPersisted < call[c].batchTarget
DirectPending(c) == directPersisted < call[c].directTarget

WorkPending(c) ==
  \/ BatchPending(c) /\ failure = "none"
  \/ DirectPending(c) /\ HasDirect /\ direct.failure = "none"

FailureInScope(c) ==
  \/ BatchPending(c) /\ failure # "none"
  \/ DirectPending(c) /\ direct.failure # "none"

Hopeless(c) ==
  \/ ~WorkPending(c) /\ FailureInScope(c)
  \/ lifecycle = "Stopped"

FlushOk(c) ==
  /\ call[c].pc = "check"
  /\ ~BatchPending(c) /\ ~DirectPending(c)
  /\ Returns(c, "ok")
  /\ UNCHANGED <<loop, outcome, scope, stored, faults>>

FlushFails(c) ==
  /\ call[c].pc = "check"
  /\ BatchPending(c) \/ DirectPending(c)
  /\ Hopeless(c)
  /\ Returns(c, "failed")
  /\ UNCHANGED <<loop, outcome, scope, stored, faults>>

FlushWaits(c) ==
  /\ call[c].pc = "check"
  /\ BatchPending(c) \/ DirectPending(c)
  /\ ~Hopeless(c)
  /\ call' = [call EXCEPT ![c].pc = "wait"]
  /\ flushThrough' = IF BatchPending(c)
                     THEN Larger(flushThrough, call[c].batchTarget)
                     ELSE flushThrough
  /\ wake' = TRUE
  /\ UNCHANGED <<lifecycle, queue, oldest, direct, failure, failureRecords,
                 persisted, directPersisted, loop, outcome, scope, stored,
                 faults>>

(* The deadline has passed: seen before the wait, or ending it.            *)
Deadline(c) ==
  /\ \/ call[c].pc = "wait"
     \/ /\ call[c].pc = "check"
        /\ BatchPending(c) \/ DirectPending(c)
        /\ ~Hopeless(c)
  /\ Returns(c, "failed")
  /\ UNCHANGED <<loop, outcome, scope, stored, faults>>

StopCancels(c) ==
  /\ Moves(c, "cancel", "join")
  /\ cancelled' = TRUE
  /\ UNCHANGED <<core, worker, job, preferBatch, wake, outcome, scope, stored,
                 faults>>

StopJoins(c) ==
  /\ Moves(c, "join", "stopped")
  /\ worker \in {"none", "gone"}
  /\ lifecycle' = "Stopped"
  /\ UNCHANGED <<queue, oldest, direct, failure, failureRecords, flushThrough,
                 persisted, directPersisted, loop, wake, outcome, scope,
                 stored, faults>>

(* The caller drops the future of its flush or stop while it waits.        *)
Abandon(c) ==
  /\ call[c].pc \in {"wait", "join"}
  /\ call' = [call EXCEPT ![c].pc = "done",
                          ![c].res = IF @ = "none" THEN "failed" ELSE @]
  /\ UNCHANGED <<core, loop, wake, outcome, scope, stored, faults>>

CallStep(c) ==
  \/ Capture(c) \/ NotStarted(c)
  \/ FlushOk(c) \/ FlushFails(c) \/ FlushWaits(c)
  \/ StopCancels(c) \/ StopJoins(c)

Call(c) == StopDrains(c) \/ CallStep(c) \/ Deadline(c) \/ Abandon(c)

-----------------------------------------------------------------------------
(* The worker.                                                             *)

BatchReady ==
  /\ queue # <<>> /\ failure = "none"
  /\ \/ BatchPersisted < flushThrough
     \/ lifecycle = "Draining"
     \/ Len(queue) >= BatchSize
     \/ oldest = "due"

DirectReady ==
  /\ HasDirect /\ direct.failure = "none"
  /\ ~(preferBatch /\ BatchReady)

NextBatchSize ==
  IF flushThrough <= BatchPersisted THEN BatchSize
  ELSE Smaller(BatchSize, flushThrough - BatchPersisted)

(* What the sink is called with next; the originals stay where they are.   *)
ChosenJob ==
  [direct |-> DirectReady,
   count |-> IF DirectReady THEN 1 ELSE Smaller(NextBatchSize, Len(queue))]

Look ==
  /\ worker = "looking" /\ ~cancelled
  /\ IF DirectReady \/ BatchReady
     THEN /\ worker' = "writing"
          /\ job' = ChosenJob
          /\ preferBatch' = DirectReady
     ELSE worker' = "parked" /\ UNCHANGED <<job, preferBatch>>
  /\ UNCHANGED <<core, cancelled, wake, outcome, call, scope, stored, faults>>

Unpark ==
  /\ worker = "parked" /\ ~cancelled
  /\ wake \/ (oldest = "due" /\ failure = "none")
  /\ wake' = FALSE
  /\ worker' = "looking"
  /\ UNCHANGED <<core, cancelled, job, preferBatch, outcome, call, scope,
                 stored, faults>>

JobRecords ==
  IF job.direct THEN {direct.item} ELSE {queue[i] : i \in 1 .. job.count}

(* The store takes the records of S.                                       *)
Write(S) ==
  stored' = [r \in Records |-> IF r \in S THEN stored[r] + 1 ELSE stored[r]]

(* The submitter of the overflow record is answered, unless it was before. *)
Answer(r, answer) ==
  outcome' = IF r # NoRecord /\ outcome[r] = "waiting"
             THEN [outcome EXCEPT ![r] = answer] ELSE outcome

(* complete, for a write that was acknowledged.                            *)
Acknowledge ==
  IF job.direct
  THEN /\ Answer(direct.item, "persisted")
       /\ direct' = NoDirect
       /\ persisted' = persisted + 1
       /\ directPersisted' = directPersisted + 1
       /\ UNCHANGED <<queue, oldest, failure, failureRecords>>
  ELSE /\ queue' = SubSeq(queue, job.count + 1, Len(queue))
       /\ persisted' = persisted + job.count
       /\ oldest' = IF queue' = <<>> THEN "none" ELSE oldest
       /\ UNCHANGED <<outcome, direct, directPersisted, failure, failureRecords>>

(* complete, for a write that failed with the class.                       *)
Retain(class) ==
  /\ IF job.direct
     THEN /\ Answer(direct.item, "failed")
          /\ direct' = [direct EXCEPT !.failure = class]
          /\ UNCHANGED <<failure, failureRecords>>
     ELSE /\ failure' = class /\ failureRecords' = job.count
          /\ UNCHANGED <<outcome, direct>>
  /\ UNCHANGED <<queue, oldest, persisted, directPersisted>>

Completes ==
  /\ worker' = "looking"
  /\ call' = Notified
  /\ UNCHANGED <<lifecycle, flushThrough, cancelled, job, preferBatch, wake,
                 scope>>

SinkStores ==
  /\ ~cancelled
  /\ Completes
  /\ Write(JobRecords)
  /\ Acknowledge
  /\ UNCHANGED faults

(* The transaction fails: by the sink's word nothing was committed.        *)
SinkRejects(class) ==
  /\ ~cancelled /\ faults < MaxFaults
  /\ Completes
  /\ Retain(class)
  /\ faults' = faults + 1
  /\ UNCHANGED stored

(* The sink fails without knowing, or panics: any part may be committed.   *)
SinkUnsure(S) ==
  /\ ~cancelled /\ faults < MaxFaults
  /\ Completes
  /\ Write(S)
  /\ Retain("unknown")
  /\ faults' = faults + 1

(* Mutant: an interrupted write counts as one that did not happen.         *)
SinkInterruptedRetryable(S) ==
  /\ cancelled
  /\ Completes
  /\ Write(S)
  /\ Retain("retryable")
  /\ UNCHANGED faults

(* The stop drops the sink's future in the middle of the call.             *)
SinkInterrupted(S) ==
  /\ cancelled
  /\ Completes
  /\ Write(S)
  /\ Retain("unknown")
  /\ UNCHANGED faults

Sink ==
  /\ worker = "writing"
  /\ \/ SinkStores
     \/ \E class \in {"retryable", "permanent"} : SinkRejects(class)
     \/ \E S \in SUBSET JobRecords : SinkUnsure(S) \/ SinkInterrupted(S)

(* A panic outside the sink, in a record's Clone for one.  Whatever is     *)
(* held is marked; only then, under another lock, is the writer stopped.   *)
FailWorker ==
  /\ worker = "looking" /\ ~cancelled /\ faults < MaxFaults
  /\ queue # <<>> \/ HasDirect
  /\ worker' = "failing"
  /\ IF queue # <<>> /\ failure = "none"
     THEN failure' = "unknown" /\ failureRecords' = Len(queue)
     ELSE UNCHANGED <<failure, failureRecords>>
  /\ direct' = IF HasDirect /\ direct.failure = "none"
               THEN [direct EXCEPT !.failure = "unknown"] ELSE direct
  /\ Answer(direct.item, "failed")
  /\ faults' = faults + 1
  /\ UNCHANGED <<lifecycle, queue, oldest, flushThrough, persisted,
                 directPersisted, cancelled, job, preferBatch, wake, call,
                 scope, stored>>

(* Mutant: the flushes that wait are not woken.                            *)
FinishQuietly ==
  /\ \/ worker \in {"looking", "parked"} /\ cancelled
     \/ worker = "failing"
  /\ worker' = "gone"
  /\ lifecycle' = "Stopped"
  /\ IF HasDirect /\ direct.failure = "none"
     THEN /\ direct' = [direct EXCEPT !.failure = "retryable"]
          /\ Answer(direct.item, "failed")
     ELSE UNCHANGED <<direct, outcome>>
  /\ UNCHANGED <<queue, oldest, failure, failureRecords, flushThrough, persisted,
                 directPersisted, cancelled, job, preferBatch, wake, scope,
                 stored, faults, call>>

(* finish: nothing more is written; what was never attempted stays         *)
(* retryable, and everybody who waits is told.                             *)
Finish ==
  /\ \/ worker \in {"looking", "parked"} /\ cancelled
     \/ worker = "failing"
  /\ worker' = "gone"
  /\ lifecycle' = "Stopped"
  /\ IF HasDirect /\ direct.failure = "none"
     THEN /\ direct' = [direct EXCEPT !.failure = "retryable"]
          /\ Answer(direct.item, "failed")
     ELSE UNCHANGED <<direct, outcome>>
  /\ call' = Notified
  /\ UNCHANGED <<queue, oldest, failure, failureRecords, flushThrough, persisted,
                 directPersisted, cancelled, job, preferBatch, wake, scope,
                 stored, faults>>

WorkerStep == Look \/ Unpark \/ Sink \/ Finish

Next ==
  \/ Start \/ BeginDrain \/ RetryFailed \/ DelayElapses
  \/ \E r \in Records : Record(r)
  \/ \E c \in Callers : Call(c)
  \/ WorkerStep \/ FailWorker

Spec == Init /\ [][Next]_vars

(* The runtime polls whoever can go on, a sink call comes back, and the    *)
(* delay of a partial batch passes.  No deadline has to pass.              *)
FairSpec ==
  /\ Spec
  /\ WF_vars(WorkerStep) /\ WF_vars(DelayElapses)
  /\ \A c \in Callers : WF_vars(CallStep(c))

-----------------------------------------------------------------------------
(* Properties.                                                             *)

(* The values the writer's fields and its callers' views can take.         *)
TypeOK ==
  /\ lifecycle \in {"Created", "Running", "Draining", "Stopped"}
  /\ queue \in Seq(Records) /\ Len(queue) <= Capacity
  /\ oldest \in {"none", "fresh", "due"} /\ cancelled \in BOOLEAN /\ wake \in BOOLEAN
  /\ preferBatch \in BOOLEAN
  /\ direct \in [item : Records \cup {NoRecord}, failure : Classes \cup {"none"}]
  /\ failure \in Classes \cup {"none"} /\ failureRecords \in Nat
  /\ flushThrough \in Nat /\ persisted \in Nat /\ directPersisted \in Nat
  /\ worker \in {"none", "looking", "parked", "writing", "failing", "gone"}
  /\ job \in [direct : BOOLEAN, count : Nat]
  /\ outcome \in [Records ->
       {"new", "refused", "queued", "waiting", "persisted", "failed"}]
  /\ call \in [Callers ->
       [pc : {"idle", "drained", "check", "wait", "cancel", "join", "stopped",
              "done"},
        res : {"none", "ok", "failed"}, batchTarget : Nat, directTarget : Nat]]
  /\ scope \in [Callers -> SUBSET Records]
  /\ stored \in [Records -> Nat]
  /\ faults \in 0 .. MaxFaults

(* The refinement mapping.  A record that has left the writer's custody    *)
(* counts as confirmed; a stop that came back closes the buffer.           *)
Status ==
  [r \in Records |->
    IF r \in Unconfirmed THEN "held"
    ELSE IF outcome[r] \in {"new", "refused"} THEN outcome[r]
    ELSE "confirmed"]

Reply ==
  [c \in Callers |->
    IF call[c].pc \in {"check", "wait"} THEN "open" ELSE call[c].res]

Closed == \E c \in Stoppers : call[c].pc = "stopped"

Buffer == INSTANCE DurableBuffer WITH
  status <- Status, reply <- Reply, closed <- Closed

(* The batch writer implements the durable buffer: through overflow lane,  *)
(* failed, unknown and interrupted writes, retries and worker panics no    *)
(* record is lost or written twice, a flush that succeeds has confirmed    *)
(* what was admitted before it, and nothing is written after a stop came   *)
(* back (flush's watermarks, retry_failed, complete, finish).              *)
IsDurableBuffer == Buffer!Spec

(* A record the store may hold without the writer knowing is marked as of  *)
(* unknown outcome, in the batch failure's front part or in the overflow   *)
(* slot, or is being written: reconciling exactly what snapshot calls      *)
(* unknown is enough, and everything else may be written again.            *)
DoubtIsMarked ==
  /\ \A i \in 1 .. Len(queue) :
       stored[queue[i]] > 0 => failure = "unknown" /\ i <= failureRecords
  /\ HasDirect /\ stored[direct.item] > 0 => direct.failure = "unknown"

(* Every flush and stop returns and the submitter of every overflow record *)
(* is answered, without any help of a deadline: neither the worker's nor   *)
(* the waiters' Notify loses a wake-up.  (Each caller calls once.)         *)
CallsReturn ==
  <>[](/\ \A c \in Callers : call[c].pc \in {"idle", "stopped", "done"}
       /\ \A r \in Records : outcome[r] # "waiting")

(* An admitted record does not wait for others to fill its batch: it is    *)
(* written, or blocked by a reported failure, or the writer has stopped.   *)
QueuedIsAttempted ==
  <>[](queue = <<>> \/ failure # "none" \/ lifecycle = "Stopped")

(* Nobody waits for the writer for ever, neither callers nor records.      *)
NobodyIsLeftWaiting == CallsReturn /\ QueuedIsAttempted
=============================================================================
