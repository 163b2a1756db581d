------------------------- MODULE BatchWriterProofs -------------------------
(***************************************************************************)
(* The batch writer implements the durable buffer, for any number of       *)
(* records and callers and any sizes.                                      *)
(***************************************************************************)
EXTENDS BatchWriter, SequenceTheorems, TLAPS

-----------------------------------------------------------------------------
(* The inductive invariant.                                                *)

Untaken == {"new", "refused"}
Positions == 1 .. Len(queue)

(* A record is in one place, and its submitter knows it was taken.         *)
OnePlace ==
  /\ \A i, j \in Positions : queue[i] = queue[j] => i = j
  /\ \A i \in Positions : outcome[queue[i]] = "queued"
  /\ HasDirect => outcome[direct.item] \in {"waiting", "failed"}

(* What was not taken is neither stored nor in the scope of a flush.       *)
UntakenIsNowhere ==
  \A r \in Records : outcome[r] \in Untaken =>
    stored[r] = 0 /\ \A c \in Callers : r \notin scope[c]

(* What is being written is still where it was and carries no failure.     *)
JobIsSound ==
  worker = "writing" =>
    IF job.direct THEN HasDirect /\ direct.failure = "none"
    ELSE job.count <= Len(queue) /\ failure = "none"

(* The watermarks of an open flush are not below its scope.                *)
Covers(c) ==
  /\ \A i \in Positions : queue[i] \in scope[c] => BatchPersisted + i <= call[c].batchTarget
  /\ HasDirect /\ direct.item \in scope[c] => directPersisted < call[c].directTarget

WatermarksCover == \A c \in Callers : call[c].pc \in {"check", "wait"} => Covers(c)

(* A call that has not returned has no result.                             *)
OpenIsUnanswered ==
  \A c \in Callers : call[c].pc \in {"idle", "drained", "check", "wait"} => call[c].res = "none"

(* Once a stop has come back the writer rests.                             *)
ClosedRests == Closed => lifecycle = "Stopped" /\ worker \in {"none", "gone"}

(* The overflow lane's acknowledgements are among all of them.             *)
LanesAdd == directPersisted <= persisted

BufferInv ==
  /\ TypeOK /\ LanesAdd
  /\ OnePlace /\ UntakenIsNowhere /\ JobIsSound /\ DoubtIsMarked
  /\ WatermarksCover /\ OpenIsUnanswered /\ ClosedRests

-----------------------------------------------------------------------------
(* Lemmas about the queue and the sizes.                                   *)

(* push_back keeps every position and adds one.                            *)
LEMMA Appended ==
  ASSUME NEW S, NEW s \in Seq(S), NEW e \in S
  PROVE /\ Append(s, e) \in Seq(S) /\ Len(Append(s, e)) = Len(s) + 1
        /\ \A i \in 1 .. Len(s) : Append(s, e)[i] = s[i]
        /\ Append(s, e)[Len(s) + 1] = e
BY AppendProperties

(* drain(..n) moves every later record n positions forward.                *)
LEMMA Dropped ==
  ASSUME NEW S, NEW s \in Seq(S), NEW n \in Nat, n <= Len(s)
  PROVE /\ SubSeq(s, n + 1, Len(s)) \in Seq(S)
        /\ Len(SubSeq(s, n + 1, Len(s))) = Len(s) - n
        /\ \A i \in 1 .. Len(s) - n : SubSeq(s, n + 1, Len(s))[i] = s[i + n]
<1>1. Len(s) \in Nat
  BY LenProperties
<1>2. \A i \in n + 1 .. Len(s) : s[i] \in S
  BY <1>1, ElementOfSeq
<1> QED
  BY <1>1, <1>2, SubSeqProperties

(* A batch is a natural number of records, at most those in the queue.     *)
LEMMA ChosenJobType ==
  ASSUME TypeOK, LanesAdd
  PROVE /\ ChosenJob \in [direct : BOOLEAN, count : Nat]
        /\ ~DirectReady => ChosenJob.count <= Len(queue)
<1>1. Len(queue) \in Nat
  BY LenProperties DEF TypeOK
<1>2. NextBatchSize \in Nat
  BY SizeAssumption DEF NextBatchSize, Smaller, BatchPersisted, TypeOK, LanesAdd
<1> QED
  BY <1>1, <1>2 DEF ChosenJob, Smaller, DirectReady

-----------------------------------------------------------------------------
(* Lemmas about the calls and the overflow slot.                           *)

Pcs == {"idle", "drained", "check", "wait", "cancel", "join", "stopped", "done"}
Replies == {"none", "ok", "failed"}
Calls == [pc : Pcs, res : Replies, batchTarget : Nat, directTarget : Nat]
Slots == [item : Records \cup {NoRecord}, failure : Classes \cup {"none"}]

(* Every call keeps its watermarks, and all but c's are where they were.   *)
CallsKept(c) ==
  \A d \in Callers :
    /\ call'[d].batchTarget = call[d].batchTarget
    /\ call'[d].directTarget = call[d].directTarget
    /\ d # c => call'[d].pc = call[d].pc /\ call'[d].res = call[d].res

CallBecomes(c, p, x) ==
  /\ call' \in [Callers -> Calls] /\ CallsKept(c)
  /\ call'[c].pc = p /\ call'[c].res = x

(* An assignment to the pc, or to the pc and the result, of one call.      *)
LEMMA CallAt ==
  ASSUME call \in [Callers -> Calls], NEW c \in Callers, NEW p \in Pcs,
         call' = [call EXCEPT ![c].pc = p]
  PROVE CallBecomes(c, p, call[c].res)
<1>1. call' \in [Callers -> Calls]
  BY Zenon DEF Calls
<1>2. CallsKept(c)
  BY Zenon DEF Calls, CallsKept
<1>3. call'[c].pc = p /\ call'[c].res = call[c].res
  BY Zenon DEF Calls
<1> QED
  BY <1>1, <1>2, <1>3 DEF CallBecomes

(* A call that is given its result and moves on.                           *)
LEMMA CallAnswered ==
  ASSUME call \in [Callers -> Calls], NEW c \in Callers, NEW p \in Pcs, NEW x \in Replies,
         call' = [call EXCEPT ![c].res = x, ![c].pc = p]
  PROVE CallBecomes(c, p, x)
<1>1. call' \in [Callers -> Calls]
  BY Zenon DEF Calls
<1>2. CallsKept(c)
  BY ZenonT(30) DEF Calls, CallsKept
<1>3. call'[c].pc = p /\ call'[c].res = x
  BY Zenon DEF Calls
<1> QED
  BY <1>1, <1>2, <1>3 DEF CallBecomes

(* The same, written the other way round.                                  *)
LEMMA CallDropped ==
  ASSUME call \in [Callers -> Calls], NEW c \in Callers, NEW p \in Pcs, NEW x \in Replies,
         call' = [call EXCEPT ![c].pc = p, ![c].res = x]
  PROVE CallBecomes(c, p, x)
<1>1. call' \in [Callers -> Calls]
  BY Zenon DEF Calls
<1>2. CallsKept(c)
  BY ZenonT(30) DEF Calls, CallsKept
<1>3. call'[c].pc = p /\ call'[c].res = x
  BY Zenon DEF Calls
<1> QED
  BY <1>1, <1>2, <1>3 DEF CallBecomes

(* notify_waiters only moves those who wait.                               *)
LEMMA CallsNotified ==
  ASSUME call \in [Callers -> Calls], call' = Notified
  PROVE /\ call' \in [Callers -> Calls]
        /\ \A c \in Callers :
             /\ call'[c].res = call[c].res
             /\ call'[c].batchTarget = call[c].batchTarget
             /\ call'[c].directTarget = call[c].directTarget
             /\ call'[c].pc = IF call[c].pc = "wait" THEN "check" ELSE call[c].pc
<1>1. call' \in [Callers -> Calls]
  BY Zenon DEF Calls, Notified, Pcs
<1>2. ASSUME NEW c \in Callers
      PROVE /\ call'[c].res = call[c].res
            /\ call'[c].batchTarget = call[c].batchTarget
            /\ call'[c].directTarget = call[c].directTarget
            /\ call'[c].pc = IF call[c].pc = "wait" THEN "check" ELSE call[c].pc
  <2>1. CASE call[c].pc = "wait"
    BY <2>1, Zenon DEF Calls, Notified
  <2>2. CASE call[c].pc # "wait"
    BY <2>2, Zenon DEF Calls, Notified
  <2> QED
    BY <2>1, <2>2
<1> QED
  BY <1>1, <1>2

(* Marking the overflow slot keeps the record in it.                       *)
LEMMA SlotMarked ==
  ASSUME direct \in Slots, NEW k \in Classes \cup {"none"},
         direct' = [direct EXCEPT !.failure = k]
  PROVE direct' \in Slots /\ direct'.item = direct.item /\ direct'.failure = k
BY Zenon DEF Slots

(* A call was made by somebody and has not returned.                       *)
Open(c) == call[c].pc \in {"check", "wait"}

(* No call is opened, no watermark moved, no call answered while it runs.  *)
CallsGoOn ==
  \A c \in Callers :
    /\ Open(c)' => Open(c) /\ UNCHANGED <<call[c].batchTarget, call[c].directTarget>>
    /\ call'[c].pc \in {"idle", "drained", "check", "wait"} => call'[c].res = "none"

-----------------------------------------------------------------------------
(* Initially nothing was taken.                                            *)
LEMMA BufferInit == Init => BufferInv
<1> SUFFICES ASSUME Init PROVE BufferInv
  OBVIOUS
<1>1. queue = <<>> /\ queue \in Seq(Records) /\ Len(queue) = 0
  BY EmptySeq DEF Init
<1>2. TypeOK
  <2>1. direct \in Slots
    BY DEF Init, NoDirect, Slots
  <2>2. scope \in [Callers -> SUBSET Records] /\ stored \in [Records -> Nat]
    BY DEF Init
  <2>3. job \in [direct : BOOLEAN, count : Nat] /\ call \in [Callers -> Calls]
    BY DEF Init, Calls, Pcs, Replies
  <2>4. /\ lifecycle = "Created" /\ oldest = "none" /\ cancelled = FALSE /\ wake = FALSE
        /\ preferBatch = FALSE /\ failure = "none" /\ worker = "none"
        /\ outcome = [r \in Records |-> "new"]
    BY DEF Init
  <2>5. /\ flushThrough \in Nat /\ persisted \in Nat /\ directPersisted \in Nat
        /\ failureRecords \in Nat /\ faults \in 0 .. MaxFaults /\ Len(queue) <= Capacity
    BY <1>1, SizeAssumption DEF Init
  <2> QED
    BY <1>1, <2>1, <2>2, <2>3, <2>4, <2>5, Zenon DEF TypeOK, Slots, Calls, Pcs, Replies
<1>3. OnePlace /\ UntakenIsNowhere /\ JobIsSound /\ DoubtIsMarked /\ LanesAdd
  BY <1>1 DEF Init, OnePlace, UntakenIsNowhere, JobIsSound, DoubtIsMarked, Positions,
              HasDirect, NoDirect, NoRecord, LanesAdd
<1>4. WatermarksCover /\ OpenIsUnanswered /\ ClosedRests
  BY DEF Init, WatermarksCover, OpenIsUnanswered, ClosedRests, Closed, Callers
<1> QED
  BY <1>2, <1>3, <1>4 DEF BufferInv

(* What a step of a caller does to the calls.                              *)
LEMMA CallerMoves ==
  ASSUME TypeOK, NEW c \in Callers
  PROVE /\ StopDrains(c) => CallBecomes(c, "drained", call[c].res)
        /\ NotStarted(c) \/ FlushFails(c) \/ Deadline(c) =>
             CallBecomes(c, IF c \in Stoppers THEN "cancel" ELSE "done", "failed")
        /\ FlushOk(c) => CallBecomes(c, IF c \in Stoppers THEN "cancel" ELSE "done", "ok")
        /\ FlushWaits(c) => CallBecomes(c, "wait", call[c].res)
        /\ StopCancels(c) => CallBecomes(c, "join", call[c].res)
        /\ StopJoins(c) => CallBecomes(c, "stopped", call[c].res)
        /\ Abandon(c) => CallBecomes(c, "done", IF call[c].res = "none" THEN "failed"
                                                ELSE call[c].res)
<1> DEFINE after == IF c \in Stoppers THEN "cancel" ELSE "done"
<1>0. call \in [Callers -> Calls] /\ call[c].res \in Replies
  BY DEF TypeOK, Calls, Pcs, Replies
<1>1. ASSUME NEW p \in Pcs, call' = [call EXCEPT ![c].pc = p]
      PROVE CallBecomes(c, p, call[c].res)
  BY <1>0, <1>1, CallAt
<1>2. ASSUME NEW p \in Pcs, NEW x \in Replies,
             call' = [call EXCEPT ![c].res = x, ![c].pc = p]
      PROVE CallBecomes(c, p, x)
  BY <1>0, <1>2, CallAnswered
<1>3. StopDrains(c) => CallBecomes(c, "drained", call[c].res)
  BY <1>1, Zenon DEF StopDrains, Moves, Pcs
<1>4. FlushWaits(c) => CallBecomes(c, "wait", call[c].res)
  BY <1>1, Zenon DEF FlushWaits, Pcs
<1>5. StopCancels(c) => CallBecomes(c, "join", call[c].res)
  BY <1>1, Zenon DEF StopCancels, Moves, Pcs
<1>6. StopJoins(c) => CallBecomes(c, "stopped", call[c].res)
  BY <1>1, Zenon DEF StopJoins, Moves, Pcs
<1>7. after \in Pcs /\ "failed" \in Replies /\ "ok" \in Replies
  BY DEF Pcs, Replies
<1>8. NotStarted(c) \/ FlushFails(c) \/ Deadline(c) => CallBecomes(c, after, "failed")
  BY <1>2, <1>7, Zenon DEF NotStarted, FlushFails, Deadline, Returns
<1>9. FlushOk(c) => CallBecomes(c, after, "ok")
  BY <1>2, <1>7, Zenon DEF FlushOk, Returns
<1>10. Abandon(c) => CallBecomes(c, "done", IF call[c].res = "none" THEN "failed"
                                           ELSE call[c].res)
  <2>1. "done" \in Pcs /\ (IF call[c].res = "none" THEN "failed" ELSE call[c].res) \in Replies
    BY <1>0 DEF Pcs, Replies
  <2> QED
    BY <1>0, <2>1, CallDropped, Zenon DEF Abandon
<1> QED
  BY <1>3, <1>4, <1>5, <1>6, <1>8, <1>9, <1>10

(* What the invariant looks at, but for the calls and the worker.          *)
data == <<queue, direct, failure, failureRecords, persisted, directPersisted,
          outcome, scope, stored>>

(* A step that moves calls on and leaves the records alone.                *)
LEMMA QuietStep ==
  ASSUME BufferInv, UNCHANGED data, CallsGoOn, TypeOK', JobIsSound', ClosedRests'
  PROVE BufferInv'
<1>1. OnePlace' /\ UntakenIsNowhere' /\ DoubtIsMarked' /\ LanesAdd'
  BY DEF BufferInv, data, OnePlace, UntakenIsNowhere, DoubtIsMarked, LanesAdd, Positions,
         HasDirect
<1>2. WatermarksCover'
  BY DEF BufferInv, data, CallsGoOn, Open, WatermarksCover, Covers, Positions, HasDirect,
         BatchPersisted
<1>3. OpenIsUnanswered'
  BY DEF BufferInv, CallsGoOn, OpenIsUnanswered
<1> QED
  BY <1>1, <1>2, <1>3 DEF BufferInv

(* A step that moves one call on, short of opening one or of a stop's      *)
(* coming back.                                                            *)
LEMMA MoveStep ==
  ASSUME BufferInv, NEW c \in Callers, NEW p \in Pcs, NEW x \in Replies,
         CallBecomes(c, p, x), UNCHANGED data,
         call[c].pc # "stopped", p # "stopped", p \in {"check", "wait"} => Open(c),
         p \in {"idle", "drained", "check", "wait"} => x = "none",
         lifecycle' \in {lifecycle, Draining}, UNCHANGED <<oldest, worker, job, preferBatch, faults>>,
         cancelled' \in BOOLEAN, wake' \in BOOLEAN, flushThrough' \in Nat
  PROVE BufferInv' /\ Closed' = Closed
<1>1. call' \in [Callers -> Calls]
  BY DEF CallBecomes
<1>2. TypeOK'
  BY <1>1 DEF BufferInv, TypeOK, data, Calls, Pcs, Replies, Draining
<1>3. CallsGoOn
  BY DEF BufferInv, CallsGoOn, CallBecomes, CallsKept, Open, OpenIsUnanswered
<1>4. JobIsSound'
  BY DEF BufferInv, JobIsSound, data, HasDirect
<1>5. Closed' = Closed
  BY DEF Closed, CallBecomes, CallsKept, Callers
<1>6. ClosedRests'
  BY <1>5 DEF BufferInv, ClosedRests, Draining
<1> QED
  BY <1>2, <1>3, <1>4, <1>5, <1>6, QuietStep

(* The steps of a call that only move it on.                               *)
Moved(c) ==
  \/ StopDrains(c) \/ NotStarted(c) \/ FlushOk(c) \/ FlushFails(c) \/ FlushWaits(c)
  \/ Deadline(c) \/ StopCancels(c) \/ Abandon(c)

(* Such a step keeps the invariant and the records.                        *)
LEMMA MovedStep ==
  ASSUME BufferInv, NEW c \in Callers, Moved(c)
  PROVE BufferInv' /\ Closed' = Closed /\ UNCHANGED data
<1> DEFINE after == IF c \in Stoppers THEN "cancel" ELSE "done"
           reply == IF call[c].res = "none" THEN "failed" ELSE call[c].res
<1>0. /\ TypeOK /\ call[c].res \in Replies /\ after \in Pcs /\ after \in {"cancel", "done"}
      /\ "ok" \in Replies /\ "failed" \in Replies
      /\ {"drained", "wait", "join", "done"} \subseteq Pcs
      /\ reply \in Replies
  BY DEF BufferInv, TypeOK, Pcs, Replies
<1>1. UNCHANGED data
  BY DEF Moved, StopDrains, NotStarted, FlushOk, FlushFails, FlushWaits, Deadline,
         StopCancels, Abandon, Returns, core, data
<1>2. /\ lifecycle' \in {lifecycle, Draining}
      /\ UNCHANGED <<oldest, worker, job, preferBatch, faults>>
      /\ cancelled' \in BOOLEAN /\ wake' \in BOOLEAN /\ flushThrough' \in Nat
  BY <1>0 DEF Moved, StopDrains, NotStarted, FlushOk, FlushFails, FlushWaits, Deadline,
         StopCancels, Abandon, Returns, core, loop, TypeOK, Larger
<1>3. CASE StopDrains(c)
  <2>1. call[c].pc = "idle" /\ call[c].res = "none"
    BY <1>3 DEF StopDrains, Moves, BufferInv, OpenIsUnanswered
  <2> QED
    BY <1>0, <1>1, <1>2, <1>3, <2>1, CallerMoves, MoveStep
<1>4. CASE NotStarted(c) \/ FlushFails(c) \/ Deadline(c) \/ FlushOk(c)
  <2>1. call[c].pc \in {"idle", "check", "wait"}
    BY <1>4 DEF NotStarted, FlushFails, Deadline, FlushOk
  <2>2. CallBecomes(c, after, "failed") \/ CallBecomes(c, after, "ok")
    BY <1>0, <1>4, CallerMoves
  <2> QED
    BY <1>0, <1>1, <1>2, <2>1, <2>2, MoveStep
<1>5. CASE FlushWaits(c)
  <2>1. call[c].pc = "check" /\ call[c].res = "none" /\ Open(c)
    BY <1>5 DEF FlushWaits, BufferInv, OpenIsUnanswered, Open
  <2> QED
    BY <1>0, <1>1, <1>2, <1>5, <2>1, CallerMoves, MoveStep
<1>6. CASE StopCancels(c)
  <2>1. call[c].pc = "cancel"
    BY <1>6 DEF StopCancels, Moves
  <2> QED
    BY <1>0, <1>1, <1>2, <1>6, <2>1, CallerMoves, MoveStep
<1>7. CASE Abandon(c)
  <2>1. call[c].pc \in {"wait", "join"}
    BY <1>7 DEF Abandon
  <2>2. CallBecomes(c, "done", reply)
    BY <1>0, <1>7, CallerMoves
  <2> QED
    BY <1>0, <1>1, <1>2, <2>1, <2>2, MoveStep
<1> QED
  BY <1>3, <1>4, <1>5, <1>6, <1>7 DEF Moved

(* A stop comes back only when the worker has gone.                        *)
LEMMA JoinsStep ==
  ASSUME BufferInv, NEW c \in Callers, StopJoins(c)
  PROVE BufferInv' /\ UNCHANGED data
<1>1. CallBecomes(c, "stopped", call[c].res) /\ call[c].pc = "join"
  BY CallerMoves DEF BufferInv, StopJoins, Moves
<1>2. /\ UNCHANGED data /\ UNCHANGED <<oldest, flushThrough, loop, wake, faults>>
      /\ lifecycle' = "Stopped" /\ worker \in {"none", "gone"}
  BY DEF StopJoins, data
<1>3. TypeOK'
  BY <1>1, <1>2 DEF BufferInv, TypeOK, data, loop, CallBecomes, Calls, Pcs, Replies
<1>4. CallsGoOn
  BY <1>1 DEF BufferInv, CallsGoOn, CallBecomes, CallsKept, Open, OpenIsUnanswered
<1>5. JobIsSound' /\ ClosedRests'
  BY <1>2 DEF JobIsSound, ClosedRests, loop
<1> QED
  BY <1>2, <1>3, <1>4, <1>5, QuietStep

(* A flush is opened with watermarks that cover what is held.              *)
LEMMA CaptureStep ==
  ASSUME BufferInv, NEW c \in Callers, Capture(c)
  PROVE /\ BufferInv' /\ Closed' = Closed
        /\ Unconfirmed \subseteq Records /\ call[c].res = "none"
        /\ Reply' = [Reply EXCEPT ![c] = "open"]
<1> USE DEF BufferInv
<1>0. Len(queue) \in Nat /\ BatchWatermark \in Nat
  BY LenProperties DEF TypeOK, BatchWatermark, BatchPersisted, LanesAdd
<1> DEFINE dt == directPersisted + (IF HasDirect THEN 1 ELSE 0)
           new == [pc |-> "check", res |-> "none", batchTarget |-> BatchWatermark,
                   directTarget |-> dt]
<1>1. dt \in Nat /\ (HasDirect => directPersisted < dt)
  BY DEF TypeOK
<1>2. Unconfirmed \subseteq Records
  BY ElementOfSeq DEF TypeOK, Unconfirmed, Queued, HasDirect
<1>3. /\ call' = [call EXCEPT ![c] = new] /\ scope' = [scope EXCEPT ![c] = Unconfirmed]
      /\ UNCHANGED <<core, loop, wake, outcome, stored, faults>>
      /\ call[c].pc \in {"drained", "idle"}
  BY DEF Capture
<1>4. new \in Calls /\ new.pc = "check" /\ new.res = "none" /\ new.batchTarget = BatchWatermark
      /\ new.directTarget = dt
  BY <1>0, <1>1 DEF Calls, Pcs, Replies
<1>5. call \in [Callers -> Calls] /\ scope \in [Callers -> SUBSET Records]
  BY DEF TypeOK, Calls, Pcs, Replies
<1> HIDE DEF new, dt
<1>6. /\ call'[c] = new /\ scope'[c] = Unconfirmed /\ call' \in [Callers -> Calls]
      /\ scope' \in [Callers -> SUBSET Records]
      /\ \A d \in Callers : d # c => call'[d] = call[d] /\ scope'[d] = scope[d]
  BY <1>2, <1>3, <1>4, <1>5
<1>7. TypeOK' /\ LanesAdd' /\ OnePlace' /\ JobIsSound' /\ DoubtIsMarked'
  <2>1. TypeOK'
    BY <1>3, <1>6 DEF TypeOK, core, loop, Calls, Pcs, Replies
  <2> QED
    BY <1>3, <2>1 DEF LanesAdd, OnePlace, Positions, JobIsSound, DoubtIsMarked, HasDirect,
                core, loop
<1>8. UntakenIsNowhere'
  <2>1. \A r \in Unconfirmed : outcome[r] \notin Untaken
    BY DEF OnePlace, Unconfirmed, Queued, Positions, Untaken
  <2> QED
    BY <1>3, <1>6, <2>1 DEF UntakenIsNowhere
<1>9. WatermarksCover'
  <2>1. \A d \in Callers : d # c => (call'[d].pc \in {"check", "wait"} => Covers(d)')
    BY <1>3, <1>6 DEF WatermarksCover, Covers, Positions, HasDirect, BatchPersisted, core
  <2>2. Covers(c)'
    BY <1>0, <1>1, <1>3, <1>4, <1>6 DEF Covers, Positions, HasDirect, BatchPersisted, core,
       BatchWatermark, TypeOK
  <2> QED
    BY <2>1, <2>2 DEF WatermarksCover
<1>10. OpenIsUnanswered' /\ call[c].res = "none"
  BY <1>3, <1>4, <1>6 DEF OpenIsUnanswered
<1>11. Closed' = Closed /\ ClosedRests'
  BY <1>3, <1>4, <1>6 DEF Closed, ClosedRests, Callers, core, loop
<1>12. Reply' = [Reply EXCEPT ![c] = "open"]
  BY <1>4, <1>6 DEF Reply
<1> QED
  BY <1>2, <1>7, <1>8, <1>9, <1>10, <1>11, <1>12

(* Startup, drain, time and the worker's choice leave the records alone.   *)
Quiet == Start \/ BeginDrain \/ DelayElapses \/ Look \/ Unpark

(* These steps keep the invariant, the records and the calls.              *)
LEMMA ControlStep ==
  ASSUME BufferInv, Quiet
  PROVE BufferInv' /\ UNCHANGED data /\ UNCHANGED call
<1> USE DEF BufferInv
<1>1. UNCHANGED data /\ UNCHANGED call
  BY DEF Quiet, Start, BeginDrain, DelayElapses, Look, Unpark, core, data
<1>2. TypeOK'
  <2>1. CASE Start \/ BeginDrain \/ DelayElapses \/ Unpark
    <3>1. CASE Start
      BY <3>1 DEF Start, core, loop, TypeOK
    <3>2. CASE BeginDrain
      BY <3>2 DEF BeginDrain, core, loop, TypeOK, Draining
    <3>3. CASE DelayElapses
      BY <3>3 DEF DelayElapses, core, loop, TypeOK
    <3>4. CASE Unpark
      BY <3>4 DEF Unpark, core, loop, TypeOK
    <3> QED
      BY <2>1, <3>1, <3>2, <3>3, <3>4
  <2>2. CASE Look
    <3>1. job' \in [direct : BOOLEAN, count : Nat]
      BY <2>2, ChosenJobType DEF Look, TypeOK
    <3>2. worker' \in {"writing", "parked"} /\ preferBatch' \in BOOLEAN
      BY <2>2 DEF Look, TypeOK, DirectReady
    <3> QED
      BY <2>2, <3>1, <3>2 DEF Look, TypeOK, core
  <2> QED
    BY <2>1, <2>2 DEF Quiet
<1>3. CallsGoOn
  BY <1>1 DEF CallsGoOn, Open, OpenIsUnanswered
<1>4. JobIsSound'
  <2>1. CASE Start \/ BeginDrain \/ DelayElapses \/ Unpark
    BY <2>1, <1>1 DEF Start, BeginDrain, DelayElapses, Unpark, loop, data, JobIsSound, HasDirect
  <2>2. CASE Look
    <3>1. CASE worker' = "writing"
      <4>1. job' = ChosenJob /\ (DirectReady \/ BatchReady)
        BY <2>2, <3>1 DEF Look
      <4>2. CASE DirectReady
        BY <1>1, <4>1, <4>2 DEF JobIsSound, ChosenJob, DirectReady, data, HasDirect
      <4>3. CASE ~DirectReady
        BY <1>1, <4>1, <4>3, ChosenJobType DEF JobIsSound, ChosenJob, BatchReady, data
      <4> QED
        BY <4>2, <4>3
    <3> QED
      BY <3>1 DEF JobIsSound
  <2> QED
    BY <2>1, <2>2 DEF Quiet
<1>5. ClosedRests'
  BY <1>1 DEF ClosedRests, Closed, Quiet, Start, BeginDrain, DelayElapses, Look, Unpark, core,
     loop, Draining
<1> QED
  BY <1>1, <1>2, <1>3, <1>4, <1>5, QuietStep

-----------------------------------------------------------------------------
(* A record is turned away: nobody holds it.                               *)
LEMMA RejectStep ==
  ASSUME BufferInv, NEW r \in Records, Reject(r)
  PROVE BufferInv'
<1> USE DEF BufferInv
<1>1. /\ outcome' = [outcome EXCEPT ![r] = "refused"] /\ outcome[r] = "new"
      /\ UNCHANGED <<core, loop, wake, call, scope, stored, faults>>
  BY DEF Reject, Submits
<1>2. TypeOK' /\ LanesAdd'
  BY <1>1 DEF TypeOK, LanesAdd, core, loop
<1>3. OnePlace'
  BY <1>1 DEF OnePlace, Positions, HasDirect, core, TypeOK
<1>4. UntakenIsNowhere'
  BY <1>1 DEF UntakenIsNowhere, Untaken, TypeOK
<1>5. JobIsSound' /\ DoubtIsMarked' /\ OpenIsUnanswered' /\ ClosedRests'
  BY <1>1 DEF JobIsSound, DoubtIsMarked, OpenIsUnanswered, ClosedRests, HasDirect, Closed,
     core, loop
<1>6. WatermarksCover'
  BY <1>1 DEF WatermarksCover, Covers, Positions, BatchPersisted, HasDirect, core
<1> QED
  BY <1>2, <1>3, <1>4, <1>5, <1>6

(* A record joins the queue, behind everything a flush waits for.          *)
LEMMA EnqueueStep ==
  ASSUME BufferInv, NEW r \in Records, Enqueue(r)
  PROVE BufferInv' /\ Unconfirmed' = Unconfirmed \cup {r}
<1> USE DEF BufferInv
<1>0. Len(queue) \in Nat /\ queue \in Seq(Records)
  BY LenProperties DEF TypeOK
<1>1. /\ outcome' = [outcome EXCEPT ![r] = "queued"] /\ outcome[r] = "new"
      /\ queue' = Append(queue, r) /\ Len(queue) < Capacity
      /\ oldest' \in {"fresh", oldest} /\ wake' = TRUE
      /\ UNCHANGED <<lifecycle, direct, failure, failureRecords, flushThrough,
                     persisted, directPersisted, loop, call, scope, stored, faults>>
  BY DEF Enqueue, Submits
<1>2. /\ queue' \in Seq(Records) /\ Len(queue') = Len(queue) + 1
      /\ \A i \in 1 .. Len(queue) : queue'[i] = queue[i]
      /\ queue'[Len(queue) + 1] = r
  BY <1>0, <1>1, Appended
<1>3. /\ stored[r] = 0 /\ \A c \in Callers : r \notin scope[c]
      /\ \A i \in 1 .. Len(queue) : queue[i] # r
      /\ HasDirect => direct.item # r
  BY <1>1 DEF UntakenIsNowhere, Untaken, OnePlace, Positions
<1>4. TypeOK' /\ LanesAdd'
  BY <1>0, <1>1, <1>2, SizeAssumption DEF TypeOK, LanesAdd, loop
<1>5. OnePlace'
  <2>1. \A i \in 1 .. Len(queue) : queue[i] \in Records
    BY <1>0, ElementOfSeq
  <2>2. \A i \in 1 .. Len(queue') : i \in 1 .. Len(queue) \/ i = Len(queue) + 1
    BY <1>0, <1>2
  <2>3. \A q \in Records : q # r => outcome'[q] = outcome[q]
    BY <1>1 DEF TypeOK
  <2>4. outcome'[r] = "queued"
    BY <1>1 DEF TypeOK
  <2>5. \A i, j \in 1 .. Len(queue') : queue'[i] = queue'[j] => i = j
    BY <1>2, <1>3, <2>2 DEF OnePlace, Positions
  <2>6. \A i \in 1 .. Len(queue') : outcome'[queue'[i]] = "queued"
    BY <1>2, <1>3, <2>1, <2>2, <2>3, <2>4 DEF OnePlace, Positions
  <2>7. HasDirect' => outcome'[direct'.item] \in {"waiting", "failed"}
    BY <1>1, <1>3, <2>3 DEF OnePlace, HasDirect, TypeOK
  <2> QED
    BY <2>5, <2>6, <2>7 DEF OnePlace, Positions
<1>6. UntakenIsNowhere'
  BY <1>1 DEF UntakenIsNowhere, Untaken, TypeOK
<1>7. JobIsSound'
  BY <1>0, <1>1, <1>2 DEF JobIsSound, loop, HasDirect, TypeOK
<1>8. DoubtIsMarked'
  BY <1>0, <1>1, <1>2, <1>3 DEF DoubtIsMarked, HasDirect
<1>9. OpenIsUnanswered' /\ ClosedRests'
  BY <1>1 DEF OpenIsUnanswered, ClosedRests, Closed, loop
<1>10. WatermarksCover'
  BY <1>0, <1>1, <1>2, <1>3 DEF WatermarksCover, Covers, Positions, BatchPersisted, HasDirect
<1>11. Unconfirmed' = Unconfirmed \cup {r}
  <2>1. \A i \in 1 .. Len(queue') : i \in 1 .. Len(queue) \/ i = Len(queue) + 1
    BY <1>0, <1>2
  <2>2. \A i \in 1 .. Len(queue) : i \in 1 .. Len(queue')
    BY <1>0, <1>2
  <2>3. Len(queue) + 1 \in 1 .. Len(queue')
    BY <1>0, <1>2
  <2>4. Queued' = Queued \cup {r}
    BY <1>2, <2>1, <2>2, <2>3 DEF Queued
  <2> QED
    BY <1>1, <2>4 DEF Unconfirmed, HasDirect
<1> QED
  BY <1>4, <1>5, <1>6, <1>7, <1>8, <1>9, <1>10, <1>11

(* A record takes the overflow slot, which nobody waits for yet.           *)
LEMMA OverflowStep ==
  ASSUME BufferInv, NEW r \in Records, Overflow(r)
  PROVE BufferInv' /\ Unconfirmed' = Unconfirmed \cup {r}
<1> USE DEF BufferInv
<1>1. /\ outcome' = [outcome EXCEPT ![r] = "waiting"] /\ outcome[r] = "new"
      /\ direct' = [item |-> r, failure |-> "none"] /\ wake' = TRUE /\ ~HasDirect
      /\ UNCHANGED <<lifecycle, queue, oldest, failure, failureRecords, flushThrough,
                     persisted, directPersisted, loop, call, scope, stored, faults>>
  BY DEF Overflow, Submits
<1>2. direct'.item = r /\ direct'.failure = "none" /\ direct' \in Slots
  BY <1>1 DEF Slots
<1>3. /\ stored[r] = 0 /\ \A c \in Callers : r \notin scope[c]
      /\ \A i \in Positions : queue[i] # r
  BY <1>1 DEF UntakenIsNowhere, Untaken, OnePlace
<1>4. TypeOK' /\ LanesAdd'
  BY <1>1, <1>2 DEF TypeOK, LanesAdd, loop, Slots
<1>5. OnePlace'
  <2>1. outcome'[r] = "waiting" /\ \A q \in Records : q # r => outcome'[q] = outcome[q]
    BY <1>1 DEF TypeOK
  <2>2. \A i \in Positions : queue[i] \in Records
    BY ElementOfSeq DEF TypeOK, Positions
  <2> QED
    BY <1>1, <1>2, <1>3, <2>1, <2>2 DEF OnePlace, Positions
<1>6. UntakenIsNowhere'
  BY <1>1 DEF UntakenIsNowhere, Untaken, TypeOK
<1>7. JobIsSound' /\ DoubtIsMarked' /\ OpenIsUnanswered' /\ ClosedRests'
  BY <1>1, <1>2, <1>3 DEF JobIsSound, DoubtIsMarked, OpenIsUnanswered, ClosedRests, HasDirect,
     Closed, loop
<1>8. WatermarksCover'
  BY <1>1, <1>2, <1>3 DEF WatermarksCover, Covers, Positions, BatchPersisted, HasDirect
<1>9. Unconfirmed' = Unconfirmed \cup {r}
  BY <1>1, <1>2 DEF Unconfirmed, Queued, HasDirect, NoRecord, Records
<1> QED
  BY <1>4, <1>5, <1>6, <1>7, <1>8, <1>9

-----------------------------------------------------------------------------
(* What is held was taken, and a record the store gets may be any of it.   *)
LEMMA HeldIsTaken ==
  ASSUME TypeOK, OnePlace
  PROVE Unconfirmed \subseteq Records /\ \A r \in Unconfirmed : outcome[r] \notin Untaken
<1>1. Unconfirmed \subseteq Records
  BY ElementOfSeq DEF TypeOK, Unconfirmed, Queued, HasDirect
<1>2. \A r \in Unconfirmed : outcome[r] \notin Untaken
  BY DEF OnePlace, Unconfirmed, Queued, Positions, Untaken
<1> QED
  BY <1>1, <1>2

Outcomes == {"new", "refused", "queued", "waiting", "persisted", "failed"}

(* The submitters who wait may be told that their write failed.            *)
OutcomesGoOn ==
  /\ outcome' \in [Records -> Outcomes]
  /\ \A r \in Records : outcome'[r] # outcome[r] =>
       outcome[r] = "waiting" /\ outcome'[r] = "failed"

(* Answering the direct write changes no other outcome.                    *)
LEMMA FailureAnswered ==
  ASSUME TypeOK, Answer(direct.item, "failed") \/ outcome' = outcome
  PROVE OutcomesGoOn
<1>1. direct.item # NoRecord => direct.item \in Records
  BY DEF TypeOK
<1> QED
  BY <1>1 DEF TypeOK, Answer, OutcomesGoOn, Outcomes

(* A step that marks failures, and may store what is held, keeps every     *)
(* record where it is.                                                     *)
LEMMA MarkStep ==
  ASSUME BufferInv, UNCHANGED <<queue, persisted, directPersisted, scope>>,
         direct'.item = direct.item, OutcomesGoOn,
         \A r \in Records \ Unconfirmed : stored'[r] = stored[r],
         CallsGoOn, TypeOK', JobIsSound', DoubtIsMarked', ClosedRests'
  PROVE BufferInv' /\ Status' = Status
<1> USE DEF BufferInv
<1>1. OnePlace'
  <2>1. \A i \in Positions : queue[i] \in Records
    BY ElementOfSeq DEF TypeOK, Positions
  <2>2. HasDirect => direct.item \in Records
    BY DEF HasDirect, TypeOK
  <2> QED
    BY <2>1, <2>2 DEF OnePlace, Positions, HasDirect, OutcomesGoOn
<1>2. UntakenIsNowhere'
  BY HeldIsTaken DEF UntakenIsNowhere, OutcomesGoOn, Untaken
<1>3. WatermarksCover' /\ OpenIsUnanswered' /\ LanesAdd'
  BY DEF WatermarksCover, OpenIsUnanswered, CallsGoOn, Open, Covers, Positions, HasDirect,
     BatchPersisted, LanesAdd
<1>4. Unconfirmed' = Unconfirmed
  BY DEF Unconfirmed, Queued, HasDirect
<1>5. Status' = Status
  BY <1>4 DEF Status, OutcomesGoOn
<1> QED
  BY <1>1, <1>2, <1>3, <1>5

(* A waiter that is told keeps its watermarks.                             *)
LEMMA NotifyGoesOn ==
  ASSUME BufferInv, call' = Notified
  PROVE CallsGoOn /\ call' \in [Callers -> Calls] /\ Reply' = Reply /\ Closed' = Closed
<1>1. call \in [Callers -> Calls]
  BY DEF BufferInv, TypeOK, Calls, Pcs, Replies
<1>2. /\ call' \in [Callers -> Calls]
      /\ \A c \in Callers :
           /\ call'[c].res = call[c].res
           /\ call'[c].batchTarget = call[c].batchTarget
           /\ call'[c].directTarget = call[c].directTarget
           /\ call'[c].pc = IF call[c].pc = "wait" THEN "check" ELSE call[c].pc
  BY <1>1, CallsNotified
<1> QED
  BY <1>2 DEF BufferInv, CallsGoOn, Open, OpenIsUnanswered, Reply, Closed, Callers

(* An explicit retry clears only failures that stored nothing.             *)
LEMMA RetryStep ==
  ASSUME BufferInv, RetryFailed
  PROVE BufferInv' /\ Status' = Status /\ UNCHANGED <<stored, scope, call>>
<1> USE DEF BufferInv
<1>0. Len(queue) \in Nat /\ BatchWatermark \in Nat /\ direct \in Slots
  BY LenProperties DEF TypeOK, BatchWatermark, BatchPersisted, LanesAdd, Slots
<1>1. /\ UNCHANGED <<lifecycle, queue, oldest, persisted, directPersisted, loop,
                     outcome, call, scope, stored, faults>>
      /\ wake' = TRUE
      /\ \/ /\ failure = "retryable" /\ failure' = "none" /\ failureRecords' = 0
            /\ flushThrough' = Larger(flushThrough, BatchWatermark)
         \/ UNCHANGED <<failure, failureRecords, flushThrough>>
  BY Zenon DEF RetryFailed
<1>2. /\ direct' \in Slots /\ direct'.item = direct.item
      /\ direct'.failure = direct.failure \/ (direct.failure = "retryable" /\ direct'.failure = "none")
  <2>1. CASE direct.failure = "retryable"
    <3>1. direct' = [direct EXCEPT !.failure = "none"]
      BY <2>1, Zenon DEF RetryFailed
    <3> QED
      BY <1>0, <2>1, <3>1, SlotMarked
  <2>2. CASE direct.failure # "retryable"
    <3>1. direct' = direct
      BY <2>2, Zenon DEF RetryFailed
    <3> QED
      BY <1>0, <3>1
  <2> QED
    BY <2>1, <2>2
<1>3. TypeOK'
  BY <1>0, <1>1, <1>2 DEF TypeOK, Slots, loop, Larger
<1>4. JobIsSound' /\ ClosedRests' /\ CallsGoOn
  BY <1>1, <1>2 DEF JobIsSound, ClosedRests, Closed, CallsGoOn, Open, OpenIsUnanswered,
     HasDirect, loop
<1>5. DoubtIsMarked'
  BY <1>1, <1>2 DEF DoubtIsMarked, HasDirect
<1>6. OutcomesGoOn
  BY <1>1, FailureAnswered
<1> QED
  BY <1>1, <1>2, <1>3, <1>4, <1>5, <1>6, MarkStep

(* A panicking worker marks everything that was not marked before.         *)
LEMMA FailWorkerStep ==
  ASSUME BufferInv, FailWorker
  PROVE BufferInv' /\ Status' = Status /\ UNCHANGED <<stored, scope, call>>
<1> USE DEF BufferInv
<1>0. Len(queue) \in Nat /\ direct \in Slots
  BY LenProperties DEF TypeOK, Slots
<1>1. /\ UNCHANGED <<lifecycle, queue, oldest, flushThrough, persisted, directPersisted,
                     cancelled, job, preferBatch, wake, call, scope, stored>>
      /\ worker = "looking" /\ worker' = "failing"
      /\ faults < MaxFaults /\ faults' = faults + 1
      /\ \/ /\ failure = "none" /\ failure' = "unknown" /\ failureRecords' = Len(queue)
         \/ UNCHANGED <<failure, failureRecords>>
      /\ Answer(direct.item, "failed")
  BY Zenon DEF FailWorker
<1>2. /\ direct' \in Slots /\ direct'.item = direct.item
      /\ direct'.failure = direct.failure \/ direct'.failure = "unknown"
  <2>1. CASE HasDirect /\ direct.failure = "none"
    <3>1. direct' = [direct EXCEPT !.failure = "unknown"] /\ "unknown" \in Classes \cup {"none"}
      BY <2>1, Zenon DEF FailWorker, Classes
    <3> QED
      BY <1>0, <3>1, SlotMarked
  <2>2. CASE ~(HasDirect /\ direct.failure = "none")
    <3>1. direct' = direct
      BY <2>2, Zenon DEF FailWorker
    <3> QED
      BY <1>0, <3>1
  <2> QED
    BY <2>1, <2>2
<1>3. OutcomesGoOn
  BY <1>1, FailureAnswered
<1>4. TypeOK'
  BY <1>0, <1>1, <1>2, <1>3, SizeAssumption DEF TypeOK, Slots, OutcomesGoOn, Outcomes, Classes
<1>5. JobIsSound' /\ ClosedRests' /\ CallsGoOn
  BY <1>1 DEF JobIsSound, ClosedRests, Closed, CallsGoOn, Open, OpenIsUnanswered
<1>6. DoubtIsMarked'
  BY <1>0, <1>1, <1>2 DEF DoubtIsMarked, HasDirect
<1> QED
  BY <1>1, <1>2, <1>3, <1>4, <1>5, <1>6, MarkStep

(* A worker that ends leaves what was never attempted retryable.           *)
LEMMA FinishStep ==
  ASSUME BufferInv, Finish
  PROVE /\ BufferInv' /\ Status' = Status /\ Reply' = Reply /\ Closed' = Closed
        /\ UNCHANGED <<stored, scope>>
<1> USE DEF BufferInv
<1>0. direct \in Slots
  BY DEF TypeOK, Slots
<1>1. /\ UNCHANGED <<queue, oldest, failure, failureRecords, flushThrough, persisted,
                     directPersisted, cancelled, job, preferBatch, wake, scope, stored, faults>>
      /\ worker' = "gone" /\ lifecycle' = "Stopped" /\ call' = Notified
      /\ Answer(direct.item, "failed") \/ outcome' = outcome
  BY Zenon DEF Finish
<1>2. /\ direct' \in Slots /\ direct'.item = direct.item
      /\ direct'.failure = direct.failure \/ direct.failure = "none"
  <2>1. CASE HasDirect /\ direct.failure = "none"
    <3>1. direct' = [direct EXCEPT !.failure = "retryable"] /\ "retryable" \in Classes \cup {"none"}
      BY <2>1, Zenon DEF Finish, Classes
    <3> QED
      BY <1>0, <2>1, <3>1, SlotMarked
  <2>2. CASE ~(HasDirect /\ direct.failure = "none")
    <3>1. direct' = direct
      BY <2>2, Zenon DEF Finish
    <3> QED
      BY <1>0, <3>1
  <2> QED
    BY <2>1, <2>2
<1>3. OutcomesGoOn
  BY <1>1, FailureAnswered
<1>4. CallsGoOn /\ call' \in [Callers -> Calls] /\ Reply' = Reply /\ Closed' = Closed
  BY <1>1, NotifyGoesOn
<1>5. TypeOK'
  BY <1>1, <1>2, <1>3, <1>4 DEF TypeOK, Slots, OutcomesGoOn, Outcomes, Calls, Pcs, Replies
<1>6. JobIsSound' /\ ClosedRests'
  BY <1>1 DEF JobIsSound, ClosedRests
<1>7. DoubtIsMarked'
  BY <1>1, <1>2 DEF DoubtIsMarked, HasDirect
<1> QED
  BY <1>1, <1>2, <1>3, <1>4, <1>5, <1>6, <1>7, MarkStep

-----------------------------------------------------------------------------
(* What the sink was called with is held and was stored never before, and  *)
(* it is apart from the rest of what is held.                              *)
LEMMA JobIsHeld ==
  ASSUME BufferInv, worker = "writing"
  PROVE /\ JobRecords \subseteq Unconfirmed
        /\ \A r \in JobRecords : stored[r] = 0
        /\ job.direct => /\ HasDirect /\ JobRecords = {direct.item}
                         /\ \A i \in Positions : queue[i] \notin JobRecords
        /\ ~job.direct => /\ job.count \in Nat /\ job.count <= Len(queue)
                          /\ \A i \in Positions : queue[i] \in JobRecords <=> i <= job.count
                          /\ HasDirect => direct.item \notin JobRecords
<1> USE DEF BufferInv
<1>0. Len(queue) \in Nat
  BY LenProperties DEF TypeOK
<1>1. CASE job.direct
  BY <1>1 DEF JobRecords, JobIsSound, DoubtIsMarked, OnePlace, Unconfirmed, HasDirect, TypeOK,
     UntakenIsNowhere
<1>2. CASE ~job.direct
  <2>1. /\ job.count \in Nat /\ job.count <= Len(queue) /\ failure = "none"
        /\ JobRecords = {queue[i] : i \in 1 .. job.count}
        /\ \A i \in 1 .. job.count : i \in Positions
    BY <1>0, <1>2 DEF JobRecords, JobIsSound, TypeOK, Positions
  <2>2. \A i \in Positions : stored[queue[i]] = 0
    BY <2>1, ElementOfSeq DEF DoubtIsMarked, Positions, TypeOK
  <2>3. JobRecords \subseteq Unconfirmed
    BY <2>1 DEF Unconfirmed, Queued, Positions
  <2>4. \A i \in Positions : queue[i] \in JobRecords <=> i <= job.count
    BY <1>0, <2>1 DEF OnePlace, Positions
  <2>5. HasDirect => direct.item \notin JobRecords
    BY <2>1 DEF OnePlace, Positions
  <2> QED
    BY <1>2, <2>1, <2>2, <2>3, <2>4, <2>5
<1> QED
  BY <1>1, <1>2

(* The store holds every record of S once more.                            *)
StoredOnce(S) ==
  /\ stored' \in [Records -> Nat]
  /\ \A r \in Records : stored'[r] = IF r \in S THEN stored[r] + 1 ELSE stored[r]

(* A write that takes effect stores each of its records once.              *)
LEMMA WriteStores ==
  ASSUME TypeOK, NEW S
  PROVE /\ Write(S) => StoredOnce(S)
        /\ stored' = stored => StoredOnce({})
BY DEF TypeOK, Write, StoredOnce

(* A write that failed with the class is retained under it; what it may    *)
(* have stored was in it, and it stored nothing unless the class says so.  *)
LEMMA RetainStep ==
  ASSUME BufferInv, worker = "writing", NEW class \in Classes, Retain(class), Completes,
         NEW S \in SUBSET JobRecords, StoredOnce(S), class # "unknown" => S = {},
         faults' \in 0 .. MaxFaults
  PROVE /\ BufferInv' /\ Status' = Status /\ Reply' = Reply /\ Closed' = Closed
        /\ UNCHANGED scope
<1> USE DEF BufferInv
<1>0. Len(queue) \in Nat /\ direct \in Slots /\ Classes \subseteq Classes \cup {"none"}
  BY LenProperties DEF TypeOK, Slots
<1>1. /\ UNCHANGED <<lifecycle, flushThrough, cancelled, job, preferBatch, wake, scope,
                     queue, oldest, persisted, directPersisted>>
      /\ worker' = "looking" /\ call' = Notified
      /\ Answer(direct.item, "failed") \/ outcome' = outcome
  BY Zenon DEF Completes, Retain
<1>2. OutcomesGoOn
  BY <1>1, FailureAnswered
<1>3. CallsGoOn /\ call' \in [Callers -> Calls] /\ Reply' = Reply /\ Closed' = Closed
  BY <1>1, NotifyGoesOn
<1>4. JobIsSound' /\ ClosedRests'
  BY <1>1, <1>3 DEF JobIsSound, ClosedRests
<1>5. \A r \in Records \ Unconfirmed : stored'[r] = stored[r]
  BY JobIsHeld DEF StoredOnce
<1>6. \A i \in Positions : queue[i] \in Records
  BY ElementOfSeq DEF TypeOK, Positions
<1>7. CASE job.direct
  <2>1. direct' = [direct EXCEPT !.failure = class] /\ UNCHANGED <<failure, failureRecords>>
    BY <1>7, Zenon DEF Retain
  <2>2. direct' \in Slots /\ direct'.item = direct.item /\ direct'.failure = class
    BY <1>0, <2>1, SlotMarked
  <2>3. TypeOK'
    BY <1>1, <1>2, <1>3, <2>1, <2>2 DEF TypeOK, Slots, OutcomesGoOn, Outcomes, Calls, Pcs,
       Replies, StoredOnce
  <2>4. \A i \in Positions : stored'[queue[i]] = stored[queue[i]]
    BY <1>6, <1>7, JobIsHeld DEF StoredOnce
  <2>5. direct.item \in Records /\ stored[direct.item] = 0
    BY <1>7, JobIsHeld DEF HasDirect, TypeOK
  <2>6. DoubtIsMarked'
    BY <1>1, <2>1, <2>2, <2>4, <2>5 DEF DoubtIsMarked, Positions, StoredOnce
  <2> QED
    BY <1>1, <1>2, <1>3, <1>4, <1>5, <2>2, <2>3, <2>6, MarkStep
<1>8. CASE ~job.direct
  <2>1. direct' = direct /\ failure' = class /\ failureRecords' = job.count
    BY <1>8, Zenon DEF Retain
  <2>2. TypeOK'
    BY <1>1, <1>2, <1>3, <2>1 DEF TypeOK, OutcomesGoOn, Outcomes, Calls, Pcs, Replies,
       StoredOnce
  <2>3. \A i \in Positions : stored[queue[i]] = 0
    BY <1>6, <1>8 DEF DoubtIsMarked, Positions, TypeOK, JobIsSound
  <2>4. \A i \in Positions : stored'[queue[i]] > 0 => class = "unknown" /\ i <= job.count
    BY <1>6, <1>8, <2>3, JobIsHeld DEF StoredOnce
  <2>5. HasDirect => direct.item \in Records /\ stored'[direct.item] = stored[direct.item]
    BY <1>8, JobIsHeld DEF StoredOnce, TypeOK, HasDirect
  <2>6. DoubtIsMarked'
    BY <1>1, <2>1, <2>4, <2>5 DEF DoubtIsMarked, Positions, HasDirect
  <2> QED
    BY <1>1, <1>2, <1>3, <1>4, <1>5, <2>1, <2>2, <2>6, MarkStep
<1> QED
  BY <1>7, <1>8

(* An acknowledged write confirms what the sink was called with.           *)
LEMMA StoresStep ==
  ASSUME BufferInv, worker = "writing", SinkStores
  PROVE /\ BufferInv' /\ Reply' = Reply /\ Closed' = Closed /\ UNCHANGED scope
        /\ Status' = [r \in Records |-> IF r \in JobRecords THEN "confirmed" ELSE Status[r]]
<1> USE DEF BufferInv
<1>0. Len(queue) \in Nat /\ queue \in Seq(Records)
  BY LenProperties DEF TypeOK
<1>1. /\ UNCHANGED <<lifecycle, flushThrough, cancelled, job, preferBatch, wake, scope, faults>>
      /\ worker' = "looking" /\ call' = Notified /\ Write(JobRecords) /\ Acknowledge
  BY DEF SinkStores, Completes
<1>2. CallsGoOn /\ call' \in [Callers -> Calls] /\ Reply' = Reply /\ Closed' = Closed
  BY <1>1, NotifyGoesOn
<1>3. StoredOnce(JobRecords)
  BY <1>1, WriteStores
<1>4. JobIsSound' /\ ClosedRests' /\ OpenIsUnanswered'
  BY <1>1, <1>2 DEF JobIsSound, ClosedRests, OpenIsUnanswered, CallsGoOn
<1>5. \A i \in Positions : queue[i] \in Records
  BY ElementOfSeq DEF TypeOK, Positions
<1>6. /\ Unconfirmed \subseteq Records /\ \A r \in Unconfirmed : outcome[r] \notin Untaken
      /\ JobRecords \subseteq Unconfirmed
  BY HeldIsTaken, JobIsHeld
<1>7. CASE job.direct
  <2>0. /\ HasDirect /\ JobRecords = {direct.item} /\ direct.item \in Records
        /\ \A i \in Positions : queue[i] # direct.item
    BY <1>7, JobIsHeld DEF HasDirect, TypeOK
  <2>1. /\ direct' = NoDirect /\ persisted' = persisted + 1
        /\ directPersisted' = directPersisted + 1 /\ Answer(direct.item, "persisted")
        /\ UNCHANGED <<queue, oldest, failure, failureRecords>>
    BY <1>1, <1>7 DEF Acknowledge
  <2>2. /\ outcome' \in [Records -> Outcomes]
        /\ \A r \in Records : r # direct.item => outcome'[r] = outcome[r]
        /\ outcome'[direct.item] \in {"persisted", "failed"}
    BY <2>0, <2>1 DEF Answer, TypeOK, Outcomes, OnePlace, HasDirect
  <2>3. direct' \in Slots /\ ~HasDirect' /\ BatchPersisted' = BatchPersisted
    <3>1. direct' \in Slots /\ ~HasDirect'
      BY <2>1 DEF Slots, NoDirect, HasDirect
    <3> QED
      BY <2>1, <3>1 DEF BatchPersisted, TypeOK
  <2>4. TypeOK' /\ LanesAdd'
    BY <1>1, <1>2, <1>3, <2>1, <2>2, <2>3
    DEF TypeOK, LanesAdd, Slots, Outcomes, Calls, Pcs, Replies, StoredOnce
  <2>5. OnePlace'
    BY <1>5, <2>0, <2>1, <2>2, <2>3 DEF OnePlace, Positions
  <2>6. UntakenIsNowhere'
    BY <1>1, <1>3, <2>0, <2>2 DEF UntakenIsNowhere, StoredOnce, Untaken
  <2>7. DoubtIsMarked'
    BY <1>3, <1>5, <2>0, <2>1, <2>3 DEF DoubtIsMarked, StoredOnce, Positions
  <2>8. WatermarksCover'
    BY <1>1, <1>2, <2>1, <2>3 DEF WatermarksCover, Covers, Positions, CallsGoOn, Open
  <2>9. Unconfirmed' = Unconfirmed \ JobRecords
    BY <2>0, <2>1, <2>3 DEF Unconfirmed, Queued, Positions
  <2>10. Status' = [r \in Records |-> IF r \in JobRecords THEN "confirmed" ELSE Status[r]]
    BY <2>0, <2>2, <2>9 DEF Status
  <2> QED
    BY <1>1, <1>2, <1>4, <2>4, <2>5, <2>6, <2>7, <2>8, <2>10
<1>8. CASE ~job.direct
  <2> DEFINE n == job.count
  <2>0. /\ n \in Nat /\ n <= Len(queue) /\ failure = "none"
        /\ \A i \in Positions : queue[i] \in JobRecords <=> i <= n
        /\ HasDirect => direct.item \notin JobRecords
    BY <1>8, JobIsHeld DEF JobIsSound
  <2>1. /\ queue' = SubSeq(queue, n + 1, Len(queue)) /\ persisted' = persisted + n
        /\ oldest' \in {"none", oldest}
        /\ UNCHANGED <<outcome, direct, directPersisted, failure, failureRecords>>
    BY <1>1, <1>8 DEF Acknowledge
  <2> HIDE DEF n
  <2>2. /\ queue' \in Seq(Records) /\ Len(queue') = Len(queue) - n
        /\ \A i \in 1 .. Len(queue) - n : queue'[i] = queue[i + n]
    BY <1>0, <2>0, <2>1, Dropped
  <2>3. \A i \in 1 .. Len(queue') : i + n \in Positions /\ queue'[i] = queue[i + n] /\ i + n > n
    BY <1>0, <2>0, <2>2 DEF Positions
  <2>4. TypeOK' /\ LanesAdd'
    <3>3. /\ lifecycle' = lifecycle /\ flushThrough' = flushThrough
          /\ cancelled' = cancelled /\ job' = job /\ preferBatch' = preferBatch
          /\ wake' = wake /\ scope' = scope /\ faults' = faults /\ worker' = "looking"
          /\ outcome' = outcome /\ direct' = direct /\ directPersisted' = directPersisted
          /\ failure' = failure /\ failureRecords' = failureRecords
      BY ONLY <1>1, <2>1
    <3>4. Len(queue') <= Capacity /\ persisted' \in Nat /\ oldest' \in {"none", "fresh", "due"}
      BY <1>0, <2>0, <2>1, <2>2, SizeAssumption DEF TypeOK
    <3>5. call' \in [Callers -> Calls] /\ stored' \in [Records -> Nat]
      BY <1>2, <1>3 DEF StoredOnce, TypeOK
    <3>1. TypeOK'
      BY ONLY TypeOK, <2>2, <3>3, <3>4, <3>5 DEF TypeOK, Calls, Pcs, Replies
    <3>2. LanesAdd'
      BY <1>0, <1>1, <1>2, <1>3, <2>0, <2>1, <2>2, SizeAssumption
      DEF TypeOK, LanesAdd, StoredOnce
    <3> QED
      BY <3>1, <3>2
  <2>5. OnePlace'
    <3>1. ASSUME NEW i \in 1 .. Len(queue'), NEW j \in 1 .. Len(queue'), queue'[i] = queue'[j]
          PROVE i = j
      BY <1>0, <2>0, <2>3, <3>1 DEF OnePlace
    <3>2. ASSUME NEW i \in 1 .. Len(queue') PROVE outcome'[queue'[i]] = "queued"
      <4>1. i + n \in Positions /\ queue'[i] = queue[i + n]
        BY <2>3
      <4> QED
        BY <2>1, <4>1 DEF OnePlace
    <3>3. HasDirect' => outcome'[direct'.item] \in {"waiting", "failed"}
      BY <2>1 DEF OnePlace, HasDirect
    <3> QED
      BY <3>1, <3>2, <3>3 DEF OnePlace, Positions
  <2>6. UntakenIsNowhere'
    BY <1>1, <1>3, <1>6, <2>1 DEF UntakenIsNowhere, StoredOnce
  <2>7. DoubtIsMarked'
    <3>1. ASSUME NEW i \in 1 .. Len(queue') PROVE stored'[queue'[i]] = stored[queue'[i]]
      <4>1. i + n \in Positions /\ queue'[i] = queue[i + n] /\ ~(i + n <= n)
        BY <2>0, <2>3
      <4>2. queue[i + n] \in Records /\ queue[i + n] \notin JobRecords
        BY <1>5, <2>0, <4>1
      <4> QED
        BY <1>3, <4>1, <4>2 DEF StoredOnce
    <3>2. \A i \in 1 .. Len(queue') : ~(stored[queue'[i]] > 0)
      BY <2>0, <2>3 DEF DoubtIsMarked, Positions
    <3>3. HasDirect => direct.item \in Records /\ stored'[direct.item] = stored[direct.item]
      BY <1>3, <2>0 DEF StoredOnce, TypeOK, HasDirect
    <3> QED
      BY <2>1, <3>1, <3>2, <3>3 DEF DoubtIsMarked, HasDirect
  <2>8. WatermarksCover'
    <3>1. BatchPersisted' = BatchPersisted + n /\ BatchPersisted \in Int
      BY <2>0, <2>1 DEF BatchPersisted, TypeOK
    <3> SUFFICES ASSUME NEW c \in Callers, Open(c)' PROVE Covers(c)'
      BY DEF WatermarksCover, Open
    <3>2. Covers(c) /\ UNCHANGED <<call[c].batchTarget, call[c].directTarget>>
      BY <1>2 DEF CallsGoOn, WatermarksCover, Open
    <3>3. ASSUME NEW i \in 1 .. Len(queue'), queue'[i] \in scope[c]
          PROVE BatchPersisted' + i <= call'[c].batchTarget
      <4>1. BatchPersisted + (i + n) <= call[c].batchTarget
        BY <2>3, <3>2, <3>3 DEF Covers
      <4>2. call'[c].batchTarget = call[c].batchTarget /\ call[c].batchTarget \in Nat
        BY <3>2 DEF TypeOK
      <4> QED
        BY <2>0, <3>1, <4>1, <4>2
    <3> QED
      BY <1>1, <2>1, <3>2, <3>3 DEF Covers, Positions, HasDirect
  <2>9. Unconfirmed' = Unconfirmed \ JobRecords
    <3>1. Queued' = {queue[j] : j \in n + 1 .. Len(queue)}
      <4>1. \A j \in n + 1 .. Len(queue) : j - n \in 1 .. Len(queue') /\ queue'[j - n] = queue[j]
        BY <1>0, <2>0, <2>2
      <4>2. \A i \in 1 .. Len(queue') : i + n \in n + 1 .. Len(queue) /\ queue'[i] = queue[i + n]
        BY <1>0, <2>0, <2>2
      <4> QED
        BY <4>1, <4>2 DEF Queued
    <3>2. {queue[j] : j \in n + 1 .. Len(queue)} = Queued \ JobRecords
      BY <1>0, <2>0 DEF Queued, Positions
    <3> QED
      BY <2>0, <2>1, <3>1, <3>2 DEF Unconfirmed, HasDirect
  <2>10. Status' = [r \in Records |-> IF r \in JobRecords THEN "confirmed" ELSE Status[r]]
    BY <1>6, <2>1, <2>9 DEF Status, Untaken
  <2> QED
    BY <1>1, <1>2, <1>4, <2>4, <2>5, <2>6, <2>7, <2>8, <2>10
<1> QED
  BY <1>7, <1>8

(* The sink comes back: acknowledged, failed, or in doubt.                 *)
LEMMA SinkStep ==
  ASSUME BufferInv, Sink
  PROVE /\ BufferInv' /\ Reply' = Reply /\ Closed' = Closed /\ UNCHANGED scope
        /\ \/ SinkStores /\ Status' = [r \in Records |->
                                        IF r \in JobRecords THEN "confirmed" ELSE Status[r]]
           \/ Status' = Status /\ \E S \in SUBSET JobRecords : StoredOnce(S)
<1>0. TypeOK /\ worker = "writing" /\ faults \in 0 .. MaxFaults
  BY DEF BufferInv, TypeOK, Sink
<1>1. CASE SinkStores
  BY <1>0, <1>1, StoresStep
<1>2. ASSUME NEW class \in {"retryable", "permanent"}, SinkRejects(class)
      PROVE /\ BufferInv' /\ Reply' = Reply /\ Closed' = Closed /\ UNCHANGED scope
            /\ Status' = Status /\ \E S \in SUBSET JobRecords : StoredOnce(S)
  <2>1. /\ class \in Classes /\ class # "unknown" /\ Retain(class) /\ Completes
        /\ stored' = stored /\ faults' \in 0 .. MaxFaults
    BY <1>0, <1>2, SizeAssumption DEF SinkRejects, Classes
  <2>2. {} \in SUBSET JobRecords /\ StoredOnce({})
    BY <1>0, <2>1, WriteStores
  <2> QED
    BY <1>0, <2>1, <2>2, RetainStep
<1>3. ASSUME NEW S \in SUBSET JobRecords, SinkUnsure(S) \/ SinkInterrupted(S)
      PROVE /\ BufferInv' /\ Reply' = Reply /\ Closed' = Closed /\ UNCHANGED scope
            /\ Status' = Status /\ \E T \in SUBSET JobRecords : StoredOnce(T)
  <2>1. Retain("unknown") /\ Completes /\ Write(S) /\ faults' \in 0 .. MaxFaults /\ "unknown" \in Classes
    BY <1>0, <1>3, SizeAssumption DEF SinkUnsure, SinkInterrupted, Classes
  <2>2. StoredOnce(S)
    BY <1>0, <2>1, WriteStores
  <2> QED
    BY <1>0, <2>1, <2>2, RetainStep
<1> QED
  BY <1>1, <1>2, <1>3 DEF Sink

-----------------------------------------------------------------------------
(* Every step preserves the invariant.                                     *)
LEMMA BufferStep == BufferInv /\ [Next]_vars => BufferInv'
<1> SUFFICES ASSUME BufferInv, [Next]_vars PROVE BufferInv'
  OBVIOUS
<1>1. CASE Start \/ BeginDrain \/ DelayElapses \/ Look \/ Unpark
  BY <1>1, ControlStep DEF Quiet
<1>2. CASE RetryFailed \/ FailWorker \/ Finish
  BY <1>2, RetryStep, FailWorkerStep, FinishStep
<1>3. CASE Sink
  BY <1>3, SinkStep
<1>4. ASSUME NEW r \in Records, Record(r) PROVE BufferInv'
  BY <1>4, RejectStep, EnqueueStep, OverflowStep DEF Record
<1>5. ASSUME NEW c \in Callers, Call(c) PROVE BufferInv'
  BY <1>5, MovedStep, JoinsStep, CaptureStep DEF Call, CallStep, Moved
<1>6. CASE UNCHANGED vars
  <2>1. UNCHANGED data /\ UNCHANGED call /\ UNCHANGED <<core, loop, wake, faults>>
    BY <1>6 DEF vars, core, data
  <2>2. TypeOK' /\ JobIsSound' /\ ClosedRests'
    BY <2>1 DEF BufferInv, TypeOK, JobIsSound, ClosedRests, Closed, HasDirect, core, loop, data
  <2>3. CallsGoOn
    BY <2>1 DEF BufferInv, CallsGoOn, Open, OpenIsUnanswered
  <2> QED
    BY <2>1, <2>2, <2>3, QuietStep
<1> QED
  BY <1>1, <1>2, <1>3, <1>4, <1>5, <1>6 DEF Next, WorkerStep

(* The invariant holds in every reachable state.                           *)
THEOREM BufferInvariant == Spec => []BufferInv
<1> QED
  BY BufferInit, BufferStep, PTL DEF Spec

(* The writer's fields keep their types.                                   *)
THEOREM TypeCorrect == Spec => []TypeOK
<1>1. BufferInv => TypeOK
  BY DEF BufferInv
<1> QED
  BY <1>1, BufferInvariant, PTL

(* However often writes fail, panic or are interrupted, and whatever is    *)
(* retried, a record the store may hold without the writer knowing is      *)
(* marked as of unknown outcome, or is being written (complete,            *)
(* retry_failed, finish).                                                  *)
THEOREM DoubtsAreMarked == Spec => []DoubtIsMarked
<1>1. BufferInv => DoubtIsMarked
  BY DEF BufferInv
<1> QED
  BY <1>1, BufferInvariant, PTL

-----------------------------------------------------------------------------
(* The batch writer implements the durable buffer.                         *)

(* An empty writer is an empty buffer.                                     *)
LEMMA BufferStarts == Init => Buffer!Init
<1> SUFFICES ASSUME Init PROVE Buffer!Init
  OBVIOUS
<1>1. Unconfirmed = {}
  BY EmptySeq DEF Init, Unconfirmed, Queued, HasDirect, NoDirect
<1>2. Status = [r \in Records |-> "new"]
  BY <1>1 DEF Init, Status
<1>3. Reply = [c \in Callers |-> "none"]
  BY DEF Init, Reply
<1>4. Closed = FALSE
  BY DEF Init, Closed, Callers
<1> QED
  BY <1>2, <1>3, <1>4 DEF Init, Buffer!Init

(* The records the abstract buffer holds are the unconfirmed ones.         *)
LEMMA HeldIsUnconfirmed ==
  ASSUME TypeOK, OnePlace
  PROVE Buffer!Held = Unconfirmed
BY HeldIsTaken DEF Buffer!Held, Status

(* A step that leaves the records alone leaves what the buffer shows of    *)
(* them.                                                                   *)
LEMMA DataShown ==
  ASSUME UNCHANGED data
  PROVE UNCHANGED <<Status, stored, scope>>
BY DEF data, Status, Unconfirmed, Queued, HasDirect

(* What a move of a call shows: an open call, or its result.               *)
LEMMA MoveShown ==
  ASSUME NEW c \in Callers, NEW p, NEW x, CallBecomes(c, p, x)
  PROVE Reply' = [Reply EXCEPT ![c] = IF p \in {"check", "wait"} THEN "open" ELSE x]
BY DEF CallBecomes, CallsKept, Reply

(* A flush whose watermarks are reached has nothing left to wait for.      *)
LEMMA ReachedIsConfirmed ==
  ASSUME BufferInv, NEW c \in Callers, FlushOk(c)
  PROVE \A r \in scope[c] : Status[r] = "confirmed"
<1> USE DEF BufferInv
<1>1. Covers(c) /\ ~BatchPending(c) /\ ~DirectPending(c)
  BY DEF FlushOk, WatermarksCover
<1>2. /\ scope[c] \subseteq Records /\ call[c].batchTarget \in Nat /\ BatchPersisted \in Int
      /\ Len(queue) \in Nat
  BY LenProperties DEF TypeOK, BatchPersisted
<1>3. \A i \in Positions : queue[i] \notin scope[c]
  BY <1>1, <1>2 DEF Covers, BatchPending, Positions
<1>4. HasDirect => direct.item \notin scope[c]
  BY <1>1 DEF Covers, DirectPending
<1>5. \A r \in scope[c] : r \notin Unconfirmed /\ outcome[r] \notin Untaken
  BY <1>2, <1>3, <1>4 DEF Unconfirmed, Queued, Positions, UntakenIsNowhere
<1> QED
  BY <1>2, <1>5 DEF Status, Untaken

(* Every step is one of the buffer's or leaves it alone.                   *)
LEMMA BufferRefines == BufferInv /\ [Next]_vars => [Buffer!Next]_Buffer!vars
<1> SUFFICES ASSUME BufferInv, [Next]_vars PROVE Buffer!Next \/ UNCHANGED Buffer!vars
  OBVIOUS
<1> USE DEF BufferInv
<1>0. Buffer!Held = Unconfirmed
  BY HeldIsUnconfirmed
<1>1. CASE Start \/ BeginDrain \/ DelayElapses \/ Look \/ Unpark
  <2>1. UNCHANGED data /\ UNCHANGED call
    BY <1>1, ControlStep DEF Quiet
  <2> QED
    BY <2>1, DataShown DEF Buffer!vars, Reply, Closed
<1>2. CASE RetryFailed \/ FailWorker
  <2>1. Status' = Status /\ UNCHANGED <<stored, scope, call>>
    BY <1>2, RetryStep, FailWorkerStep
  <2> QED
    BY <2>1 DEF Buffer!vars, Reply, Closed
<1>3. CASE Finish
  BY <1>3, FinishStep DEF Buffer!vars
<1>4. CASE Sink
  <2>1. worker = "writing" /\ ~Closed
    BY <1>4 DEF Sink, ClosedRests
  <2>2. JobRecords \subseteq Buffer!Unwritten /\ JobRecords \in SUBSET Records
    BY <1>0, <2>1, JobIsHeld, HeldIsTaken DEF Buffer!Unwritten
  <2>3. ASSUME NEW S \in SUBSET JobRecords, StoredOnce(S) PROVE Buffer!Write(S)
    <3>1. \A r \in S : r \in Records /\ stored[r] = 0
      BY <2>1, <2>2, JobIsHeld
    <3> QED
      BY <2>3, <3>1 DEF Buffer!Write, StoredOnce, TypeOK
  <2>4. Reply' = Reply /\ Closed' = Closed /\ UNCHANGED scope
    BY <1>4, SinkStep
  <2>5. CASE /\ SinkStores
             /\ Status' = [r \in Records |-> IF r \in JobRecords THEN "confirmed" ELSE Status[r]]
    <3>1. Buffer!Write(JobRecords)
      BY <2>3, <2>5, WriteStores DEF SinkStores
    <3>2. Buffer!Confirm(JobRecords)
      BY <2>1, <2>2, <2>4, <2>5, <3>1 DEF Buffer!Confirm
    <3> QED
      BY <2>2, <3>2 DEF Buffer!Next
  <2>6. CASE Status' = Status /\ \E S \in SUBSET JobRecords : StoredOnce(S)
    <3>1. PICK S \in SUBSET JobRecords : StoredOnce(S)
      BY <2>6
    <3>2. Buffer!LoseAnswer(S) /\ S \in SUBSET Records
      BY <2>1, <2>2, <2>3, <2>4, <2>6, <3>1 DEF Buffer!LoseAnswer
    <3> QED
      BY <3>2 DEF Buffer!Next
  <2> QED
    BY <1>4, <2>5, <2>6, SinkStep
<1>5. ASSUME NEW r \in Records, Record(r) PROVE Buffer!Next
  <2>1. outcome[r] = "new" /\ r \notin Unconfirmed /\ UNCHANGED <<call, scope, stored>>
    BY <1>5, HeldIsTaken DEF Record, Reject, Enqueue, Overflow, Submits, Untaken
  <2>2. Status[r] = "new" /\ Reply' = Reply /\ Closed' = Closed
    BY <2>1 DEF Status, Reply, Closed
  <2>3. CASE Reject(r)
    <3>1. outcome' = [outcome EXCEPT ![r] = "refused"] /\ Unconfirmed' = Unconfirmed
      BY <2>3 DEF Reject, core, Unconfirmed, Queued, HasDirect
    <3>2. Status' = [Status EXCEPT ![r] = "refused"]
      BY <2>1, <3>1 DEF Status, TypeOK
    <3>3. Buffer!Refuse(r)
      BY <2>1, <2>2, <3>2 DEF Buffer!Refuse
    <3> QED
      BY <3>3 DEF Buffer!Next
  <2>4. CASE Enqueue(r) \/ Overflow(r)
    <3>1. Unconfirmed' = Unconfirmed \cup {r}
      BY <2>4, EnqueueStep, OverflowStep
    <3>2. \E v : outcome' = [outcome EXCEPT ![r] = v]
      BY <2>4 DEF Enqueue, Overflow
    <3>3. Status' = [Status EXCEPT ![r] = "held"]
      BY <3>1, <3>2 DEF Status, TypeOK
    <3>4. ~Closed
      BY <2>4 DEF Enqueue, Overflow, ClosedRests
    <3>5. Buffer!Take(r)
      BY <2>1, <2>2, <3>3, <3>4 DEF Buffer!Take
    <3> QED
      BY <3>5 DEF Buffer!Next
  <2> QED
    BY <1>5, <2>3, <2>4 DEF Record
<1>6. ASSUME NEW c \in Callers, Moved(c) PROVE Buffer!Next \/ UNCHANGED Buffer!vars
  <2> DEFINE after == IF c \in Stoppers THEN "cancel" ELSE "done"
             reply == IF call[c].res = "none" THEN "failed" ELSE call[c].res
  <2>1. Closed' = Closed /\ UNCHANGED <<Status, stored, scope>>
    BY <1>6, MovedStep, DataShown
  <2>2. after \notin {"check", "wait"}
    OBVIOUS
  <2>3. Reply \in [Callers -> {"open", "none", "ok", "failed"}]
    BY DEF Reply, TypeOK
  <2>4. ASSUME Reply[c] \in {"none", "open"}, Reply' = [Reply EXCEPT ![c] = "failed"]
        PROVE Buffer!Next
    <3>1. Buffer!Fail(c)
      BY <2>1, <2>4 DEF Buffer!Fail
    <3> QED
      BY <3>1 DEF Buffer!Next
  <2>5. ASSUME Reply' = [Reply EXCEPT ![c] = Reply[c]] PROVE UNCHANGED Buffer!vars
    BY <2>1, <2>3, <2>5 DEF Buffer!vars
  <2>6. CASE StopDrains(c)
    <3>1. CallBecomes(c, "drained", call[c].res) /\ call[c].pc = "idle"
      BY <2>6, CallerMoves DEF StopDrains, Moves
    <3> QED
      BY <3>1, <2>5, MoveShown DEF Reply
  <2>7. CASE NotStarted(c) \/ FlushFails(c) \/ Deadline(c)
    <3>1. CallBecomes(c, after, "failed")
      BY <2>7, CallerMoves
    <3>2. Reply[c] \in {"none", "open"}
      BY <2>7 DEF NotStarted, FlushFails, Deadline, Reply, OpenIsUnanswered
    <3> QED
      BY <2>2, <2>4, <3>1, <3>2, MoveShown
  <2>8. CASE FlushOk(c)
    <3>1. CallBecomes(c, after, "ok")
      BY <2>8, CallerMoves
    <3>2. Reply[c] = "open"
      BY <2>8 DEF FlushOk, Reply
    <3>3. Reply' = [Reply EXCEPT ![c] = "ok"]
      BY <2>2, <3>1, MoveShown
    <3>4. Buffer!Succeed(c)
      BY <2>1, <2>8, <3>2, <3>3, ReachedIsConfirmed DEF Buffer!Succeed
    <3> QED
      BY <3>4 DEF Buffer!Next
  <2>9. CASE FlushWaits(c)
    <3>1. CallBecomes(c, "wait", call[c].res) /\ call[c].pc = "check"
      BY <2>9, CallerMoves DEF FlushWaits
    <3> QED
      BY <3>1, <2>5, MoveShown DEF Reply
  <2>10. CASE StopCancels(c)
    <3>1. CallBecomes(c, "join", call[c].res) /\ call[c].pc = "cancel"
      BY <2>10, CallerMoves DEF StopCancels, Moves
    <3> QED
      BY <3>1, <2>5, MoveShown DEF Reply
  <2>11. CASE Abandon(c)
    <3>1. CallBecomes(c, "done", reply) /\ call[c].pc \in {"wait", "join"}
      BY <2>11, CallerMoves DEF Abandon
    <3>2. Reply' = [Reply EXCEPT ![c] = reply]
      BY <3>1, MoveShown
    <3>3. CASE call[c].res = "none"
      BY <2>4, <3>1, <3>2, <3>3 DEF Reply
    <3>4. CASE call[c].res # "none"
      <4>1. call[c].pc = "join"
        BY <3>1, <3>4 DEF OpenIsUnanswered
      <4> QED
        BY <2>5, <3>2, <3>4, <4>1 DEF Reply
    <3> QED
      BY <3>3, <3>4
  <2> QED
    BY <1>6, <2>6, <2>7, <2>8, <2>9, <2>10, <2>11 DEF Moved
<1>7. ASSUME NEW c \in Callers, StopJoins(c) PROVE Buffer!Next \/ UNCHANGED Buffer!vars
  <2>1. UNCHANGED <<Status, stored, scope>>
    BY <1>7, JoinsStep, DataShown
  <2>2. CallBecomes(c, "stopped", call[c].res) /\ call[c].pc = "join"
    BY <1>7, CallerMoves DEF StopJoins, Moves
  <2>3. Reply' = Reply
    BY <2>2 DEF Reply, CallBecomes, CallsKept
  <2>4. Closed' \in {TRUE, Closed}
    BY <2>2 DEF Closed, CallBecomes, CallsKept, Callers
  <2>5. CASE Closed' = TRUE
    BY <2>1, <2>3, <2>5 DEF Buffer!Next, Buffer!Close
  <2>6. CASE Closed' = Closed
    BY <2>1, <2>3, <2>6 DEF Buffer!vars
  <2> QED
    BY <2>4, <2>5, <2>6
<1>8. ASSUME NEW c \in Callers, Capture(c) PROVE Buffer!Next
  <2>1. /\ Closed' = Closed /\ call[c].res = "none" /\ Reply' = [Reply EXCEPT ![c] = "open"]
    BY <1>8, CaptureStep
  <2>2. Reply[c] = "none"
    BY <1>8, <2>1 DEF Capture, Reply
  <2>3. scope' = [scope EXCEPT ![c] = Buffer!Held] /\ UNCHANGED <<Status, stored>>
    BY <1>0, <1>8 DEF Capture, core, Status, Unconfirmed, Queued, HasDirect
  <2>4. Buffer!OpenFlush(c)
    BY <2>1, <2>2, <2>3 DEF Buffer!OpenFlush
  <2> QED
    BY <2>4 DEF Buffer!Next
<1>9. CASE UNCHANGED vars
  BY <1>9 DEF vars, core, Buffer!vars, Status, Reply, Closed, Unconfirmed, Queued, HasDirect
<1> QED
  BY <1>1, <1>2, <1>3, <1>4, <1>5, <1>6, <1>7, <1>8, <1>9
  DEF Next, WorkerStep, Call, CallStep, Moved

(* The batch writer implements the durable buffer: no record is lost or    *)
(* written twice, a flush that succeeds has confirmed what was admitted    *)
(* before it, and nothing is written after a stop came back.               *)
THEOREM ImplementsDurableBuffer == Spec => IsDurableBuffer
<1> QED
  BY BufferStarts, BufferRefines, BufferInvariant, PTL
  DEF Spec, IsDurableBuffer, Buffer!Spec
=============================================================================
