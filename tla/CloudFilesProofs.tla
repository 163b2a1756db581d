-------------------------- MODULE CloudFilesProofs --------------------------
(***************************************************************************)
(* The cloud files core, for every size of the instance.  The journals:    *)
(* decisions are true and final, nobody is taken for stuck, and no change  *)
(* is lost.  The content entry: the set of ranges says what it should,     *)
(* what it claims is on disk, and an eviction excludes everything else.    *)
(* Hydration: a result is the bytes asked for, and shared work lives as    *)
(* long as somebody waits for it.  The namespace: what is committed is     *)
(* shown.                                                                  *)
(***************************************************************************)
EXTENDS MCCloudFiles, SequenceTheorems, FiniteSetTheorems, WellFoundedInduction, TLAPS

-----------------------------------------------------------------------------
(* The mutation journal.                                                   *)

Outcomes == [kind : {"none", "unknown", "committed", "already", "precondition"}, item : Nat]

Records ==
  [state : {"none", "intent", "applying", "unknown", "known", "reconciled", "completed"},
   outcome : Outcomes]

Runs ==
  [pc : {"idle", "load", "act", "answered", "observe", "stalled"}, op : Ops, gen : Nat,
   seen : Records, status : {"none", "applied", "already", "fenced"}, answer : Outcomes]

MutationTypes ==
  /\ session \in [gen : Nat, state : {"accepting", "closing", "draining", "closed"}]
  /\ base \in [Ops -> Nat]
  /\ rec \in [Ops -> Records]
  /\ run \in [Mutation!Runners -> Runs]
  /\ remote \in [rev : Nat, done : SUBSET Ops]
  /\ late \subseteq Ops

(* What an answer says of o is so, and stays so: revisions only grow.      *)
Truth(o, a) ==
  \/ Mutation!Committed(a) /\ o \in remote.done
  \/ a.kind = "precondition" /\ o \notin remote.done /\ base[o] < remote.rev

Tells(o, r) ==
  /\ r.state \in {"none", "intent", "applying"} => r.outcome = Mutation!NoOutcome
  /\ r.state = "unknown" => r.outcome = Mutation!Unknown
  /\ r.state \in {"known", "reconciled", "completed"} => Truth(o, r.outcome)

RecordIsTrue(o) == base[o] <= remote.rev /\ Tells(o, rec[o])

(* A runner works on a submitted operation, and has read an earlier state  *)
(* of its record, or the present one.  An answer it holds is true.  After  *)
(* its call of the store somebody has made progress, unless the call was   *)
(* fenced or found an unknown outcome that is still unknown.               *)
RunIsSound(x) ==
  LET r == run[x]
      now == rec[r.op]
  IN  /\ r.pc # "stalled"
      /\ r.pc # "idle" => now.state # "none"
      /\ r.pc \in {"act", "answered", "observe"} =>
           /\ r.seen.state \notin {"none", "completed"}
           /\ Mutation!Rank(r.seen.state) <= Mutation!Rank(now.state)
      /\ r.pc = "answered" =>
           /\ r.seen.state \in {"applying", "unknown"}
           /\ r.answer = Mutation!Unknown \/ Truth(r.op, r.answer)
      /\ r.pc = "observe" =>
           \/ r.status = "fenced"
           \/ Mutation!Rank(r.seen.state) < Mutation!Rank(now.state)
           \/ Mutation!StableUnknown(r)

MutationInv ==
  /\ MutationTypes
  /\ \A o \in Ops : RecordIsTrue(o)
  /\ \A x \in Mutation!Runners : RunIsSound(x)

(* What every step does: the remote goes on, takes an operation only on    *)
(* the revision it names, records move forward and keep what is decided,   *)
(* and a submitted operation keeps its precondition.                       *)
Forward ==
  /\ remote'.rev >= remote.rev /\ remote.done \subseteq remote'.done
  /\ \A o \in Ops :
       /\ o \in remote'.done \ remote.done => remote.rev = base[o]
       /\ Mutation!Rank(rec[o].state) <= Mutation!Rank(rec'[o].state)
       /\ rec[o].state # "none" => base'[o] = base[o]
       /\ Mutation!Decided(rec[o].state) => rec'[o].outcome = rec[o].outcome

-----------------------------------------------------------------------------
(* Facts about the values.                                                 *)

(* The order of the durable states.                                        *)
LEMMA MutationRanks ==
  /\ Mutation!Rank("none") = 1 /\ Mutation!Rank("intent") = 2
  /\ Mutation!Rank("applying") = 3 /\ Mutation!Rank("unknown") = 4
  /\ Mutation!Rank("known") = 5 /\ Mutation!Rank("reconciled") = 6
  /\ Mutation!Rank("completed") = 7
BY DEF Mutation!Rank, Mutation!States

(* The decided states are the last three.                                  *)
LEMMA DecidedStates ==
  ASSUME NEW r \in Records
  PROVE  Mutation!Decided(r.state) <=> r.state \in {"known", "reconciled", "completed"}
<1>1. r.state \in {"none", "intent", "applying", "unknown", "known", "reconciled", "completed"}
  BY DEF Records
<1> QED
  BY <1>1, MutationRanks DEF Mutation!Decided

(* The values a runner and a record start from.                            *)
LEMMA MutationValues ==
  /\ Mutation!NoOutcome \in Outcomes /\ Mutation!Unknown \in Outcomes
  /\ Mutation!NoOutcome.kind = "none" /\ Mutation!Unknown.kind = "unknown"
  /\ Mutation!NoRecord \in Records
  /\ Mutation!NoRecord.state = "none" /\ Mutation!NoRecord.outcome = Mutation!NoOutcome
  /\ Mutation!Idle \in Runs /\ Mutation!Idle.pc = "idle"
<1>1. /\ Mutation!NoOutcome \in Outcomes /\ Mutation!Unknown \in Outcomes
      /\ Mutation!NoOutcome.kind = "none" /\ Mutation!Unknown.kind = "unknown"
  BY DEF Mutation!NoOutcome, Mutation!Unknown, Mutation!Outcome, Outcomes
<1>2. /\ Mutation!NoRecord \in Records
      /\ Mutation!NoRecord.state = "none" /\ Mutation!NoRecord.outcome = Mutation!NoOutcome
  BY <1>1 DEF Mutation!NoRecord, Records
<1>3. (CHOOSE o \in Ops : TRUE) \in Ops
  BY BoundsAssumption
<1>4. Mutation!Idle \in Runs /\ Mutation!Idle.pc = "idle"
  BY <1>1, <1>2, <1>3 DEF Mutation!Idle, Runs
<1> QED
  BY <1>1, <1>2, <1>4

(* A fresh invocation has its operation and generation, and has seen       *)
(* nothing.                                                                *)
LEMMA BeginsValue ==
  ASSUME NEW o \in Ops, NEW g \in Nat
  PROVE  /\ Mutation!Begins(o, g) \in Runs /\ Mutation!Begins(o, g).pc = "load"
         /\ Mutation!Begins(o, g).op = o
BY MutationValues, Zenon DEF Mutation!Begins, Mutation!Idle, Runs

(* What each update of a runner changes.                                   *)
LEMMA RunSet ==
  ASSUME run \in [Mutation!Runners -> Runs], NEW x \in Mutation!Runners, NEW r \in Runs,
         run' = [run EXCEPT ![x] = r]
  PROVE  /\ run' \in [Mutation!Runners -> Runs] /\ run'[x] = r
         /\ \A y \in Mutation!Runners : y # x => run'[y] = run[y]
BY Zenon

(* A runner that reads its record.                                         *)
LEMMA RunReads ==
  ASSUME run \in [Mutation!Runners -> Runs], NEW x \in Mutation!Runners, NEW r \in Records,
         run' = [run EXCEPT ![x].pc = "act", ![x].seen = r]
  PROVE  /\ run' \in [Mutation!Runners -> Runs]
         /\ run'[x].pc = "act" /\ run'[x].seen = r /\ run'[x].op = run[x].op
         /\ \A y \in Mutation!Runners : y # x => run'[y] = run[y]
BY Zenon DEF Runs

(* A runner that has called the store.                                     *)
LEMMA RunCalled ==
  ASSUME run \in [Mutation!Runners -> Runs], NEW x \in Mutation!Runners,
         NEW s \in {"none", "applied", "already", "fenced"},
         run' = [run EXCEPT ![x].pc = "observe", ![x].status = s]
  PROVE  /\ run' \in [Mutation!Runners -> Runs]
         /\ run'[x].pc = "observe" /\ run'[x].status = s /\ run'[x].op = run[x].op
         /\ run'[x].seen = run[x].seen /\ run'[x].answer = run[x].answer
         /\ \A y \in Mutation!Runners : y # x => run'[y] = run[y]
BY Zenon DEF Runs

(* A runner that has its answer.                                           *)
LEMMA RunAnswered ==
  ASSUME run \in [Mutation!Runners -> Runs], NEW x \in Mutation!Runners, NEW a \in Outcomes,
         run' = [run EXCEPT ![x].pc = "answered", ![x].answer = a]
  PROVE  /\ run' \in [Mutation!Runners -> Runs]
         /\ run'[x].pc = "answered" /\ run'[x].answer = a /\ run'[x].op = run[x].op
         /\ run'[x].seen = run[x].seen
         /\ \A y \in Mutation!Runners : y # x => run'[y] = run[y]
BY Zenon DEF Runs

(* A record whose state alone is replaced.                                 *)
LEMMA StateSet ==
  ASSUME NEW r \in Records,
         NEW s \in {"none", "intent", "applying", "unknown", "known", "reconciled", "completed"}
  PROVE  /\ [r EXCEPT !.state = s] \in Records
         /\ [r EXCEPT !.state = s].state = s /\ [r EXCEPT !.state = s].outcome = r.outcome
BY Zenon DEF Records

-----------------------------------------------------------------------------
(* What a transition of the journal promises: the record moves forward,    *)
(* keeps what it had decided, and tells the truth; and a runner that saw   *)
(* `seen` can tell that progress was made.                                 *)
Sound(o, r, t, seen, a) ==
  t.status # "error" =>
    /\ t.rec \in Records /\ t.status \in {"applied", "already"}
    /\ Mutation!Rank(r.state) <= Mutation!Rank(t.rec.state)
    /\ Mutation!Decided(r.state) => t.rec.outcome = r.outcome
    /\ Tells(o, t.rec)
    /\ \/ Mutation!Rank(seen) < Mutation!Rank(t.rec.state)
       \/ seen = "unknown" /\ a = Mutation!Unknown /\ t.status = "already"

(* begin_remote_apply, mark_platform_reconciled and complete.              *)
LEMMA AdvanceIsSound ==
  ASSUME NEW o \in Ops, NEW r \in Records, Tells(o, r), NEW a
  PROVE  /\ 2 <= Mutation!Rank(r.state) => Sound(o, r, Mutation!BeginRemoteApply(r), "intent", a)
         /\ 5 <= Mutation!Rank(r.state) => Sound(o, r, Mutation!MarkPlatformReconciled(r), "known", a)
         /\ Sound(o, r, Mutation!Complete(r), "reconciled", a)
<1>0. r.state \in {"none", "intent", "applying", "unknown", "known", "reconciled", "completed"}
  BY DEF Records
<1>1. 2 <= Mutation!Rank(r.state) => Sound(o, r, Mutation!BeginRemoteApply(r), "intent", a)
  <2>1. CASE r.state = "intent"
    <3> DEFINE n == [r EXCEPT !.state = "applying"]
    <3>1. Mutation!BeginRemoteApply(r).rec = n /\ Mutation!BeginRemoteApply(r).status = "applied"
      BY <2>1, Zenon DEF Mutation!BeginRemoteApply
    <3>2. n \in Records /\ n.state = "applying" /\ n.outcome = r.outcome
      BY StateSet
    <3> HIDE DEF n
    <3>3. Tells(o, n)
      BY <2>1, <3>2 DEF Tells
    <3> QED
      BY <2>1, <3>1, <3>2, <3>3, MutationRanks DEF Sound
  <2>2. CASE r.state # "intent"
    <3>1. Mutation!BeginRemoteApply(r) = [rec |-> r, status |-> "already"]
      BY <2>2, Zenon DEF Mutation!BeginRemoteApply
    <3> QED
      BY <1>0, <2>2, <3>1, MutationRanks DEF Sound
  <2> QED
    BY <2>1, <2>2
<1>2. 5 <= Mutation!Rank(r.state) => Sound(o, r, Mutation!MarkPlatformReconciled(r), "known", a)
  <2>1. CASE r.state = "known"
    <3> DEFINE n == [r EXCEPT !.state = "reconciled"]
    <3>1. Mutation!MarkPlatformReconciled(r).rec = n /\ Mutation!MarkPlatformReconciled(r).status = "applied"
      BY <2>1, Zenon DEF Mutation!MarkPlatformReconciled
    <3>2. n \in Records /\ n.state = "reconciled" /\ n.outcome = r.outcome
      BY StateSet
    <3> HIDE DEF n
    <3>3. Tells(o, n)
      BY <2>1, <3>2 DEF Tells
    <3> QED
      BY <2>1, <3>1, <3>2, <3>3, MutationRanks DEF Sound
  <2>2. CASE r.state # "known"
    <3>1. Mutation!MarkPlatformReconciled(r).rec = r
          /\ Mutation!MarkPlatformReconciled(r).status \in {"already", "error"}
      BY <2>2 DEF Mutation!MarkPlatformReconciled
    <3> QED
      BY <1>0, <2>2, <3>1, MutationRanks DEF Sound
  <2> QED
    BY <2>1, <2>2
<1>3. Sound(o, r, Mutation!Complete(r), "reconciled", a)
  <2>1. CASE r.state = "reconciled"
    <3> DEFINE n == [r EXCEPT !.state = "completed"]
    <3>1. Mutation!Complete(r).rec = n /\ Mutation!Complete(r).status = "applied"
      BY <2>1, Zenon DEF Mutation!Complete
    <3>2. n \in Records /\ n.state = "completed" /\ n.outcome = r.outcome
      BY StateSet
    <3> HIDE DEF n
    <3>3. Tells(o, n)
      BY <2>1, <3>2 DEF Tells
    <3> QED
      BY <2>1, <3>1, <3>2, <3>3, MutationRanks DEF Sound
  <2>2. CASE r.state # "reconciled"
    <3>1. /\ Mutation!Complete(r).rec = r
          /\ Mutation!Complete(r).status = IF r.state = "completed" THEN "already" ELSE "error"
      BY <2>2 DEF Mutation!Complete
    <3> QED
      BY <1>0, <2>2, <3>1, MutationRanks DEF Sound
  <2> QED
    BY <2>1, <2>2
<1> QED
  BY <1>1, <1>2, <1>3

(* Recording an answer that is unknown or true.                            *)
LEMMA RecordIsSound ==
  ASSUME NEW o \in Ops, NEW r \in Records, Tells(o, r), NEW a \in Outcomes,
         a = Mutation!Unknown \/ Truth(o, a),
         NEW seen \in {"applying", "unknown"}, Mutation!Rank(seen) <= Mutation!Rank(r.state)
  PROVE  Sound(o, r, Mutation!RecordRemoteOutcome(r, a), seen, a)
<1> DEFINE t == Mutation!RecordRemoteOutcome(r, a)
<1>0. /\ r.state \in {"applying", "unknown", "known", "reconciled", "completed"}
      /\ a.kind \in {"none", "unknown", "committed", "already", "precondition"}
      /\ a.kind = "unknown" \/ a.kind \in {"committed", "already", "precondition"}
  BY MutationRanks, MutationValues DEF Records, Outcomes, Truth, Mutation!Committed
<1>1. CASE r.outcome = a \/ Mutation!SameCommittedEffect(r.outcome, a)
  <2>1. t = [rec |-> r, status |-> "already"]
    BY <1>1, Zenon DEF Mutation!RecordRemoteOutcome
  <2>2. r.state # "applying"
    BY <1>0, <1>1, MutationValues DEF Tells, Mutation!SameCommittedEffect, Mutation!Committed
  <2>3. r.state = "unknown" => a = Mutation!Unknown
    BY <1>1, MutationValues DEF Tells, Mutation!SameCommittedEffect, Mutation!Committed
  <2> QED
    BY <1>0, <2>1, <2>2, <2>3, MutationRanks DEF Sound
<1>2. CASE /\ ~(r.outcome = a \/ Mutation!SameCommittedEffect(r.outcome, a))
           /\ r.state \in {"applying", "unknown"}
  <2> DEFINE n == [state |-> Mutation!DurableState(a), outcome |-> a]
  <2>1. t = [rec |-> n, status |-> "applied"]
    BY <1>2, Zenon DEF Mutation!RecordRemoteOutcome
  <2>2. n \in Records /\ n.outcome = a
        /\ n.state = IF a.kind = "unknown" THEN "unknown" ELSE "known"
    BY DEF Records, Mutation!DurableState
  <2> HIDE DEF n
  <2>3. a.kind = "unknown" => a = Mutation!Unknown
    BY DEF Truth, Mutation!Committed
  <2>4. r.state = "unknown" => a.kind # "unknown"
    BY <1>2, <2>3 DEF Tells
  <2>5. Tells(o, n)
    BY <1>0, <2>2, <2>3, MutationValues DEF Tells
  <2>6. seen = "applying" \/ r.state = "unknown"
    BY <1>2, MutationRanks
  <2>7. ~Mutation!Decided(r.state)
    BY <1>2, DecidedStates
  <2> QED
    BY <1>2, <2>1, <2>2, <2>4, <2>5, <2>6, <2>7, MutationRanks DEF Sound
<1>3. CASE /\ ~(r.outcome = a \/ Mutation!SameCommittedEffect(r.outcome, a))
           /\ r.state \notin {"applying", "unknown"}
  <2>1. t = [rec |-> r, status |-> "error"]
    BY <1>3, Zenon DEF Mutation!RecordRemoteOutcome
  <2> QED
    BY <2>1 DEF Sound
<1> QED
  BY <1>1, <1>2, <1>3

-----------------------------------------------------------------------------
(* What a step leaves as it was.                                           *)

(* What is true of a submitted operation stays true.                       *)
LEMMA TruthStays ==
  ASSUME MutationTypes, MutationTypes', Forward, NEW o \in Ops, rec[o].state # "none",
         NEW a, Truth(o, a)
  PROVE  Truth(o, a)'
<1>1. remote.rev \in Nat /\ remote'.rev \in Nat /\ base[o] \in Nat /\ base'[o] \in Nat
  BY DEF MutationTypes
<1> QED
  BY <1>1 DEF Forward, Truth

(* A record the step does not touch stays true.                            *)
LEMMA UntouchedRecord ==
  ASSUME MutationTypes, MutationTypes', Forward, NEW o \in Ops, RecordIsTrue(o),
         rec'[o] = rec[o], base'[o] = base[o]
  PROVE  RecordIsTrue(o)'
<1>1. base[o] <= remote'.rev
  BY DEF MutationTypes, Forward, RecordIsTrue
<1>2. Tells(o, rec[o])'
  <2>1. CASE rec[o].state \in {"known", "reconciled", "completed"}
    <3>1. Truth(o, rec[o].outcome)
      BY <2>1 DEF RecordIsTrue, Tells
    <3> DEFINE a == rec[o].outcome
    <3>2. rec'[o].outcome = a
      OBVIOUS
    <3> HIDE DEF a
    <3>3. Truth(o, a)'
      BY <2>1, <3>1, TruthStays DEF a
    <3> QED
      BY <2>1, <3>2, <3>3 DEF Tells, Truth, a
  <2>2. CASE rec[o].state \notin {"known", "reconciled", "completed"}
    BY <2>2 DEF RecordIsTrue, Tells
  <2> QED
    BY <2>1, <2>2
<1> QED
  BY <1>1, <1>2 DEF RecordIsTrue

(* A runner the step does not move stays sound.                            *)
LEMMA UnmovedRun ==
  ASSUME MutationTypes, MutationTypes', Forward, NEW x \in Mutation!Runners, RunIsSound(x),
         run'[x] = run[x]
  PROVE  RunIsSound(x)'
<1> DEFINE r == run[x]
           o == run[x].op
<1>1. r \in Runs /\ o \in Ops /\ rec[o] \in Records /\ rec'[o] \in Records
  BY DEF MutationTypes, Runs
<1>2. Mutation!Rank(rec[o].state) <= Mutation!Rank(rec'[o].state)
  BY <1>1 DEF Forward
<1>3. /\ rec[o].state # "none" => rec'[o].state # "none"
      /\ \A s \in {"intent", "applying", "unknown", "known", "reconciled"} :
           /\ Mutation!Rank(s) <= Mutation!Rank(rec[o].state)
                => Mutation!Rank(s) <= Mutation!Rank(rec'[o].state)
           /\ Mutation!Rank(s) < Mutation!Rank(rec[o].state)
                => Mutation!Rank(s) < Mutation!Rank(rec'[o].state)
  BY <1>1, <1>2, MutationRanks DEF Records
<1>4. r.pc = "answered" /\ Truth(o, r.answer) => Truth(o, r.answer)'
  <2> SUFFICES ASSUME r.pc = "answered", Truth(o, r.answer) PROVE Truth(o, r.answer)'
    OBVIOUS
  <2> DEFINE a == r.answer
  <2>1. rec[o].state # "none" /\ r'.answer = a /\ r'.op = o
    BY DEF RunIsSound
  <2> HIDE DEF a
  <2>2. remote.rev \in Nat /\ remote'.rev \in Nat /\ base[o] \in Nat /\ base'[o] = base[o]
    BY <1>1, <2>1 DEF MutationTypes, Forward
  <2> QED
    BY <1>1, <2>1, <2>2 DEF Truth, Forward
<1>5. r.pc \in {"act", "answered", "observe"} =>
        r.seen.state \in {"intent", "applying", "unknown", "known", "reconciled"}
  BY <1>1 DEF RunIsSound, Runs, Records
<1> QED
  BY <1>1, <1>3, <1>4, <1>5 DEF RunIsSound

(* A step keeps the invariant when it does so for what it touches.         *)
LEMMA MutationStep ==
  ASSUME MutationInv, MutationTypes', Forward,
         \A o \in Ops : (rec'[o] = rec[o] /\ base'[o] = base[o]) \/ RecordIsTrue(o)',
         \A x \in Mutation!Runners : run'[x] = run[x] \/ RunIsSound(x)'
  PROVE  MutationInv'
<1>1. \A o \in Ops : RecordIsTrue(o)'
  BY UntouchedRecord DEF MutationInv
<1>2. \A x \in Mutation!Runners : RunIsSound(x)'
  BY UnmovedRun DEF MutationInv
<1> QED
  BY <1>1, <1>2 DEF MutationInv

(* A step of the remote alone, or of nothing, goes forward.                *)
LEMMA RemoteForward ==
  ASSUME MutationTypes, UNCHANGED <<base, rec>>,
         remote'.rev >= remote.rev, remote.done \subseteq remote'.done,
         \A o \in Ops : o \in remote'.done \ remote.done => remote.rev = base[o]
  PROVE  Forward
<1>1. \A o \in Ops : Mutation!Rank(rec[o].state) <= Mutation!Rank(rec'[o].state)
  BY MutationRanks DEF MutationTypes, Records
<1> QED
  BY <1>1 DEF Forward

(* A step that leaves the records, their preconditions and the remote.     *)
LEMMA RunnerForward ==
  ASSUME MutationTypes, UNCHANGED <<base, rec, remote>>
  PROVE  Forward
BY RemoteForward DEF MutationTypes

(* The remote takes an operation at most once, and on its revision only.   *)
LEMMA ApplyEffect ==
  ASSUME MutationTypes, NEW o \in Ops, Mutation!Apply(o)
  PROVE  /\ remote' \in [rev : Nat, done : SUBSET Ops]
         /\ remote'.rev >= remote.rev /\ remote.done \subseteq remote'.done
         /\ \A p \in Ops : p \in remote'.done \ remote.done => remote.rev = base[p]
         /\ remote' # remote => o \in remote'.done
<1>1. remote \in [rev : Nat, done : SUBSET Ops]
  BY DEF MutationTypes
<1>2. CASE o \notin remote.done /\ remote.rev = base[o]
  <2>1. remote' = [rev |-> remote.rev + 1, done |-> remote.done \cup {o}]
    BY <1>2 DEF Mutation!Apply
  <2> QED
    BY <1>1, <1>2, <2>1
<1>3. CASE ~(o \notin remote.done /\ remote.rev = base[o])
  <2>1. remote' = remote
    BY <1>3 DEF Mutation!Apply
  <2> QED
    BY <1>1, <2>1
<1> QED
  BY <1>2, <1>3

(* What the remote says of a submitted operation is true or unknown.       *)
LEMMA VerdictIsTrue ==
  ASSUME MutationTypes, NEW o \in Ops, RecordIsTrue(o)
  PROVE  /\ Mutation!Verdict(o, remote) \in Outcomes
         /\ \/ Mutation!Verdict(o, remote) = Mutation!Unknown
            \/ Truth(o, Mutation!Verdict(o, remote))
<1>1. remote.rev \in Nat /\ base[o] \in Nat /\ base[o] <= remote.rev
  BY DEF MutationTypes, RecordIsTrue
<1> QED
  BY <1>1, MutationValues
     DEF Mutation!Verdict, Mutation!Outcome, Outcomes, Truth, Mutation!Committed

(* A runner that ends or starts over.                                      *)
LEMMA RunnerRests ==
  ASSUME MutationInv, NEW x \in Mutation!Runners, Mutation!Ends(x)
  PROVE  /\ run' \in [Mutation!Runners -> Runs]
         /\ \A y \in Mutation!Runners : run'[y] = run[y] \/ RunIsSound(y)'
<1>1. /\ run' \in [Mutation!Runners -> Runs] /\ run'[x] = Mutation!Idle
      /\ \A y \in Mutation!Runners : y # x => run'[y] = run[y]
  BY RunSet, MutationValues DEF Mutation!Ends, MutationInv, MutationTypes
<1>2. RunIsSound(x)'
  BY <1>1, MutationValues DEF RunIsSound
<1> QED
  BY <1>1, <1>2

(* A runner that starts on a submitted operation.                          *)
LEMMA RunnerBegins ==
  ASSUME MutationInv, NEW x \in Mutation!Runners, NEW o \in Ops, NEW g \in Nat,
         rec'[o].state # "none", run' = [run EXCEPT ![x] = Mutation!Begins(o, g)]
  PROVE  /\ run' \in [Mutation!Runners -> Runs]
         /\ \A y \in Mutation!Runners : run'[y] = run[y] \/ RunIsSound(y)'
<1>1. /\ run' \in [Mutation!Runners -> Runs] /\ run'[x] = Mutation!Begins(o, g)
      /\ \A y \in Mutation!Runners : y # x => run'[y] = run[y]
  BY RunSet, BeginsValue DEF MutationInv, MutationTypes
<1>2. RunIsSound(x)'
  BY <1>1, BeginsValue DEF RunIsSound
<1> QED
  BY <1>1, <1>2

(* A runner that takes an answer which is unknown or true.                 *)
LEMMA RunnerIsAnswered ==
  ASSUME MutationInv, NEW x \in Mutation!Runners, NEW a \in Outcomes,
         NEW s \in {"applying", "unknown"}, Mutation!Asks(x, s), rec' = rec,
         NEW o \in Ops, o = run[x].op, a = Mutation!Unknown \/ Truth(o, a)',
         run' = [run EXCEPT ![x].pc = "answered", ![x].answer = a]
  PROVE  /\ run' \in [Mutation!Runners -> Runs]
         /\ \A y \in Mutation!Runners : run'[y] = run[y] \/ RunIsSound(y)'
<1>1. /\ run' \in [Mutation!Runners -> Runs]
      /\ run'[x].pc = "answered" /\ run'[x].answer = a /\ run'[x].op = run[x].op
      /\ run'[x].seen = run[x].seen
      /\ \A y \in Mutation!Runners : y # x => run'[y] = run[y]
  BY RunAnswered, Zenon DEF MutationInv, MutationTypes
<1>2. RunIsSound(x) /\ run[x].pc = "act" /\ run[x].seen.state = s
  BY DEF MutationInv, Mutation!Asks
<1>3. RunIsSound(x)'
  BY <1>1, <1>2 DEF RunIsSound, Truth
<1> QED
  BY <1>1, <1>3

(* A call of the store that is sound for what the runner saw.              *)
LEMMA StoreCallKeeps ==
  ASSUME MutationInv, NEW x \in Mutation!Runners, NEW t, NEW a,
         run[x].pc \in {"act", "answered"},
         run[x].seen.state = "unknown" => run[x].answer = a,
         Sound(run[x].op, rec[run[x].op], t, run[x].seen.state, a),
         Mutation!StoreCall(x, t), UNCHANGED <<session, base, remote, late>>
  PROVE  MutationInv' /\ Forward
<1>0. PICK o \in Ops : o = run[x].op
  BY DEF MutationInv, MutationTypes, Runs
<1>1. /\ MutationTypes /\ RunIsSound(x) /\ run[x] \in Runs
      /\ rec[o] \in Records /\ RecordIsTrue(o) /\ o = run[x].op
  BY <1>0 DEF MutationInv, MutationTypes
<1>2. CASE ~Mutation!ActiveGeneration(run[x].gen)
  <2>0. rec' = rec
    BY <1>2, Zenon DEF Mutation!StoreCall
  <2>1. run' = [run EXCEPT ![x].pc = "observe", ![x].status = "fenced"]
    BY <1>2, Zenon DEF Mutation!StoreCall
  <2>2. /\ run' \in [Mutation!Runners -> Runs]
        /\ run'[x].pc = "observe" /\ run'[x].status = "fenced" /\ run'[x].op = o
        /\ run'[x].seen = run[x].seen
        /\ \A y \in Mutation!Runners : y # x => run'[y] = run[y]
    BY <1>1, <2>1, RunCalled, Zenon DEF MutationTypes
  <2>3. MutationTypes'
    BY <1>1, <2>0, <2>2, Zenon DEF MutationTypes
  <2>4. Forward
    BY <1>1, RunnerForward, <2>0, Zenon
  <2>5. RunIsSound(x)'
    BY ONLY <1>1, <2>0, <2>2, run[x].pc \in {"act", "answered"} DEF RunIsSound
  <2> QED
    BY <2>0, <2>2, <2>3, <2>4, <2>5, MutationStep, Zenon
<1>3. CASE Mutation!ActiveGeneration(run[x].gen) /\ t.status = "error"
  <2>1. rec' = rec /\ Mutation!Ends(x)
    BY <1>3, Zenon DEF Mutation!StoreCall
  <2>2. /\ run' \in [Mutation!Runners -> Runs]
        /\ \A y \in Mutation!Runners : run'[y] = run[y] \/ RunIsSound(y)'
    BY <2>1, RunnerRests
  <2>3. MutationTypes'
    BY <1>1, <2>1, <2>2 DEF MutationTypes
  <2>4. Forward
    BY <1>1, RunnerForward, <2>1
  <2> QED
    BY <2>1, <2>2, <2>3, <2>4, MutationStep
<1>4. CASE Mutation!ActiveGeneration(run[x].gen) /\ t.status # "error"
  <2> DEFINE n == t.rec
             s == t.status
  <2>1. /\ rec' = [rec EXCEPT ![o] = n]
        /\ run' = [run EXCEPT ![x].pc = "observe", ![x].status = s]
    BY <1>0, <1>4, Zenon DEF Mutation!StoreCall
  <2>2. /\ n \in Records /\ s \in {"applied", "already"}
        /\ Mutation!Rank(rec[o].state) <= Mutation!Rank(n.state)
        /\ Mutation!Decided(rec[o].state) => n.outcome = rec[o].outcome
        /\ Tells(o, n)
        /\ \/ Mutation!Rank(run[x].seen.state) < Mutation!Rank(n.state)
           \/ run[x].seen.state = "unknown" /\ a = Mutation!Unknown /\ s = "already"
    BY <1>0, <1>4, Zenon DEF Sound
  <2> HIDE DEF n, s
  <2>3. /\ run' \in [Mutation!Runners -> Runs]
        /\ run'[x].pc = "observe" /\ run'[x].status = s /\ run'[x].op = o
        /\ run'[x].seen = run[x].seen /\ run'[x].answer = run[x].answer
        /\ \A y \in Mutation!Runners : y # x => run'[y] = run[y]
    BY <1>1, <2>1, <2>2, RunCalled, Zenon DEF MutationTypes
  <2>4. /\ rec' \in [Ops -> Records] /\ rec'[o] = n
        /\ \A p \in Ops : p # o => rec'[p] = rec[p]
    BY <1>1, <2>1, <2>2, Zenon DEF MutationTypes
  <2>5. MutationTypes'
    BY <1>1, <2>3, <2>4, Zenon DEF MutationTypes
  <2>6. Forward
    <3>1. \A p \in Ops : Mutation!Rank(rec[p].state) <= Mutation!Rank(rec[p].state)
      BY ONLY <1>1, MutationRanks DEF MutationTypes, Records
    <3>2. /\ remote' = remote /\ base' = base
          /\ remote'.rev >= remote.rev
      BY ONLY <1>1, UNCHANGED <<session, base, remote, late>> DEF MutationTypes
    <3> QED
      BY ONLY <1>1, <2>2, <2>4, <3>1, <3>2 DEF Forward
  <2>7. RecordIsTrue(o)'
    BY ONLY <1>1, <2>2, <2>4, UNCHANGED <<session, base, remote, late>>
       DEF RecordIsTrue, Tells, Truth
  <2>8. RunIsSound(x)'
    <3>1. /\ Mutation!Rank(run[x].seen.state) <= Mutation!Rank(rec[o].state)
          /\ run[x].seen.state \notin {"none", "completed"}
          /\ rec[o].state # "none"
      BY ONLY <1>1, run[x].pc \in {"act", "answered"} DEF RunIsSound
    <3>2. /\ run[x].seen.state \in {"none", "intent", "applying", "unknown", "known",
                                    "reconciled", "completed"}
          /\ rec[o].state \in {"none", "intent", "applying", "unknown", "known",
                                "reconciled", "completed"}
          /\ n.state \in {"none", "intent", "applying", "unknown", "known",
                           "reconciled", "completed"}
      BY ONLY <1>1, <2>2 DEF Runs, Records
    <3>3. /\ n.state # "none"
          /\ Mutation!Rank(run[x].seen.state) <= Mutation!Rank(n.state)
      BY ONLY <2>2, <3>1, <3>2, MutationRanks
    <3>4. \/ Mutation!Rank(run'[x].seen.state) < Mutation!Rank(rec'[o].state)
          \/ Mutation!StableUnknown(run'[x])
      BY ONLY <2>2, <2>3, <2>4, run[x].seen.state = "unknown" => run[x].answer = a
         DEF Mutation!StableUnknown
    <3> QED
      BY ONLY <2>3, <2>4, <3>1, <3>3, <3>4 DEF RunIsSound
  <2> QED
    BY <2>3, <2>4, <2>5, <2>6, <2>7, <2>8, MutationStep, Zenon
<1> QED
  BY <1>2, <1>3, <1>4

-----------------------------------------------------------------------------
(* The actions.                                                            *)

(* Nothing is submitted at first.                                          *)
LEMMA MutationInit == Mutation!Init => MutationInv
<1> SUFFICES ASSUME Mutation!Init PROVE MutationInv
  OBVIOUS
<1>1. /\ \A o \in Ops : rec[o] = Mutation!NoRecord /\ base[o] = 0
      /\ \A x \in Mutation!Runners : run[x] = Mutation!Idle
      /\ remote.rev = 1
  BY DEF Mutation!Init
<1>2. MutationTypes
  BY MutationValues DEF Mutation!Init, MutationTypes
<1>3. \A o \in Ops : RecordIsTrue(o)
  BY <1>1, MutationValues DEF RecordIsTrue, Tells
<1>4. \A x \in Mutation!Runners : RunIsSound(x)
  BY <1>1, MutationValues DEF RunIsSound
<1> QED
  BY <1>2, <1>3, <1>4 DEF MutationInv

(* Sessions change only who may write.                                     *)
LEMMA MutationSessions ==
  ASSUME MutationInv, Mutation!ActivateSession \/ Mutation!TransitionSession
  PROVE  MutationInv' /\ Forward
<1>1. UNCHANGED <<base, rec, run, remote, late>>
  BY DEF Mutation!ActivateSession, Mutation!TransitionSession
<1>2. session' \in [gen : Nat, state : {"accepting", "closing", "draining", "closed"}]
  <2>1. CASE Mutation!ActivateSession
    BY <2>1 DEF Mutation!ActivateSession, MutationInv, MutationTypes
  <2>2. CASE Mutation!TransitionSession
    BY <2>2, Zenon DEF Mutation!TransitionSession, MutationInv, MutationTypes
  <2> QED
    BY <2>1, <2>2
<1>3. MutationTypes'
  BY <1>1, <1>2 DEF MutationInv, MutationTypes
<1>4. Forward
  BY <1>1, RunnerForward DEF MutationInv
<1> QED
  BY <1>1, <1>3, <1>4, MutationStep

(* submit makes the intent durable with its base revision.                 *)
LEMMA SubmitKeeps ==
  ASSUME MutationInv, NEW x \in Mutation!Runners, NEW o \in Ops,
         NEW g \in 1 .. session.gen, NEW b \in 1 .. remote.rev, Mutation!Submit(x, o, g, b)
  PROVE  MutationInv' /\ Forward
<1>1. MutationTypes /\ RecordIsTrue(o) /\ g \in Nat /\ b \in Nat /\ b <= remote.rev
  BY DEF MutationInv, MutationTypes
<1>2. UNCHANGED <<session, remote, late>> /\ rec[o].state = "none"
  BY DEF Mutation!Submit
<1>3. CASE session.gen = g /\ session.state = "accepting"
  <2>1. /\ rec' = [rec EXCEPT ![o].state = "intent"] /\ base' = [base EXCEPT ![o] = b]
        /\ run' = [run EXCEPT ![x] = Mutation!Begins(o, g)]
    BY <1>3, Zenon DEF Mutation!Submit
  <2>2. /\ rec' \in [Ops -> Records] /\ rec'[o].state = "intent"
        /\ rec'[o].outcome = rec[o].outcome
        /\ \A p \in Ops : p # o => rec'[p] = rec[p]
    BY <1>1, <2>1, Zenon DEF MutationTypes, Records
  <2>3. base' \in [Ops -> Nat] /\ base'[o] = b /\ \A p \in Ops : p # o => base'[p] = base[p]
    BY <1>1, <2>1, Zenon DEF MutationTypes
  <2>4. /\ run' \in [Mutation!Runners -> Runs]
        /\ \A y \in Mutation!Runners : run'[y] = run[y] \/ RunIsSound(y)'
    <3>1. rec'[o].state # "none" /\ run' = [run EXCEPT ![x] = Mutation!Begins(o, g)]
      BY <2>1, <2>2, Zenon
    <3> QED
      BY ONLY MutationInv, <1>1, <3>1, RunnerBegins
  <2>5. MutationTypes'
    BY ONLY <1>1, <1>2, <2>2, <2>3, <2>4 DEF MutationTypes
  <2>6. Forward
    <3>1. \A p \in Ops : Mutation!Rank(rec[p].state) <= Mutation!Rank(rec[p].state)
      BY ONLY <1>1, MutationRanks DEF MutationTypes, Records
    <3>2. remote' = remote /\ remote'.rev >= remote.rev
      BY ONLY <1>1, <1>2 DEF MutationTypes
    <3>3. ~Mutation!Decided(rec[o].state)
      BY ONLY <1>2, MutationRanks DEF Mutation!Decided
    <3> QED
      BY ONLY <1>1, <1>2, <2>2, <2>3, <3>1, <3>2, <3>3, MutationRanks DEF Forward
  <2>7. RecordIsTrue(o)'
    BY ONLY <1>1, <1>2, <2>2, <2>3 DEF RecordIsTrue, Tells
  <2> QED
    BY ONLY MutationInv, <2>2, <2>3, <2>4, <2>5, <2>6, <2>7, MutationStep
<1>4. CASE ~(session.gen = g /\ session.state = "accepting")
  <2>1. UNCHANGED <<rec, base, run>>
    BY <1>4, Zenon DEF Mutation!Submit
  <2>2. MutationTypes'
    BY ONLY <1>1, <1>2, <2>1 DEF MutationTypes
  <2>3. Forward
    BY ONLY <1>1, <1>2, <2>1, RunnerForward
  <2> QED
    BY ONLY MutationInv, <2>1, <2>2, <2>3, MutationStep
<1> QED
  BY <1>3, <1>4

(* Steps of a runner that leave the store and the remote alone.            *)
LEMMA RunnerKeeps ==
  ASSUME MutationInv, UNCHANGED <<session, base, rec, remote>>, late' \subseteq Ops,
         run' \in [Mutation!Runners -> Runs],
         \A y \in Mutation!Runners : run'[y] = run[y] \/ RunIsSound(y)'
  PROVE  MutationInv' /\ Forward
<1>1. MutationTypes'
  BY DEF MutationInv, MutationTypes
<1>2. Forward
  BY RunnerForward DEF MutationInv
<1> QED
  BY <1>1, <1>2, MutationStep

(* A resumed operation starts from its record.                             *)
LEMMA ResumeKeeps ==
  ASSUME MutationInv, NEW x \in Mutation!Runners, NEW o \in Ops, Mutation!Resume(x, o)
  PROVE  MutationInv' /\ Forward
<1>1. UNCHANGED <<session, base, rec, remote, late>> /\ rec[o].state # "none"
  BY DEF Mutation!Resume
<1>2. session.gen \in Nat /\ late' \subseteq Ops
  BY <1>1 DEF MutationInv, MutationTypes
<1>3. PICK g \in Nat : g = session.gen
  BY <1>2
<1>4. run' = [run EXCEPT ![x] = Mutation!Begins(o, g)]
  BY <1>3 DEF Mutation!Resume
<1>5. /\ run' \in [Mutation!Runners -> Runs]
      /\ \A y \in Mutation!Runners : run'[y] = run[y] \/ RunIsSound(y)'
  BY ONLY MutationInv, <1>1, <1>4, RunnerBegins
<1> QED
  BY ONLY MutationInv, <1>1, <1>2, <1>5, RunnerKeeps

(* The loop reads the record, or ends with a completed one.                *)
LEMMA LoadKeeps ==
  ASSUME MutationInv, NEW x \in Mutation!Runners, Mutation!Load(x)
  PROVE  MutationInv' /\ Forward
<1>0. UNCHANGED <<session, base, rec, remote, late>> /\ run[x].pc = "load"
  BY DEF Mutation!Load
<1>1. /\ run \in [Mutation!Runners -> Runs] /\ run[x].op \in Ops
      /\ rec[run[x].op] \in Records /\ late' \subseteq Ops /\ RunIsSound(x)
  BY <1>0 DEF MutationInv, MutationTypes, Runs
<1>2. CASE rec[run[x].op].state = "completed"
  BY <1>0, <1>1, <1>2, RunnerRests, RunnerKeeps DEF Mutation!Load
<1>3. CASE rec[run[x].op].state # "completed"
  <2>0. PICK r \in Records : r = rec[run[x].op]
    BY <1>1
  <2>1. run' = [run EXCEPT ![x].pc = "act", ![x].seen = r]
    BY <1>3, <2>0, Zenon DEF Mutation!Load
  <2>2. /\ run' \in [Mutation!Runners -> Runs]
        /\ run'[x].pc = "act" /\ run'[x].seen = r /\ run'[x].op = run[x].op
        /\ \A y \in Mutation!Runners : y # x => run'[y] = run[y]
    BY ONLY <1>1, <2>1, RunReads, Zenon
  <2>3. Mutation!Rank(r.state) <= Mutation!Rank(r.state) /\ r.state \notin {"none", "completed"}
    BY ONLY <1>0, <1>1, <1>3, <2>0, MutationRanks DEF Records, RunIsSound
  <2>4. RunIsSound(x)'
    BY ONLY <1>0, <2>0, <2>2, <2>3 DEF RunIsSound
  <2> QED
    BY ONLY MutationInv, <1>0, <1>1, <2>2, <2>4, RunnerKeeps
<1> QED
  BY <1>2, <1>3

(* The three calls of the store that need no answer.                       *)
LEMMA AdvanceKeeps ==
  ASSUME MutationInv, NEW x \in Mutation!Runners, Mutation!Advance(x)
  PROVE  MutationInv' /\ Forward
<1> DEFINE o == run[x].op
<1>1. /\ UNCHANGED <<session, base, remote, late>> /\ run[x].pc = "act"
      /\ RunIsSound(x) /\ o \in Ops /\ rec[o] \in Records /\ Tells(o, rec[o])
  BY DEF Mutation!Advance, MutationInv, MutationTypes, Runs, RecordIsTrue
<1>2. /\ run[x].pc \in {"act", "answered"}
      /\ Mutation!Rank(run[x].seen.state) <= Mutation!Rank(rec[o].state)
  BY <1>1 DEF RunIsSound
<1>3. CASE run[x].seen.state = "intent" /\ Mutation!StoreCall(x, Mutation!BeginRemoteApply(rec[o]))
  <2>1. Sound(o, rec[o], Mutation!BeginRemoteApply(rec[o]), "intent", Mutation!NoOutcome)
    BY <1>1, <1>2, <1>3, AdvanceIsSound, MutationRanks
  <2>2. PICK t : t = Mutation!BeginRemoteApply(rec[o])
    BY Zenon
  <2>3. /\ Sound(o, rec[o], t, run[x].seen.state, Mutation!NoOutcome)
        /\ Mutation!StoreCall(x, t) /\ run[x].seen.state # "unknown"
    BY <1>3, <2>1, <2>2
  <2> QED
    BY ONLY MutationInv, <1>1, <1>2, <2>3, StoreCallKeeps
<1>4. CASE run[x].seen.state = "known" /\ Mutation!StoreCall(x, Mutation!MarkPlatformReconciled(rec[o]))
  <2>1. Sound(o, rec[o], Mutation!MarkPlatformReconciled(rec[o]), "known", Mutation!NoOutcome)
    BY <1>1, <1>2, <1>4, AdvanceIsSound, MutationRanks
  <2>2. PICK t : t = Mutation!MarkPlatformReconciled(rec[o])
    BY Zenon
  <2>3. /\ Sound(o, rec[o], t, run[x].seen.state, Mutation!NoOutcome)
        /\ Mutation!StoreCall(x, t) /\ run[x].seen.state # "unknown"
    BY <1>4, <2>1, <2>2
  <2> QED
    BY ONLY MutationInv, <1>1, <1>2, <2>3, StoreCallKeeps
<1>5. CASE run[x].seen.state = "reconciled" /\ Mutation!StoreCall(x, Mutation!Complete(rec[o]))
  <2>1. Sound(o, rec[o], Mutation!Complete(rec[o]), "reconciled", Mutation!NoOutcome)
    BY <1>1, <1>2, <1>5, AdvanceIsSound, MutationRanks
  <2>2. PICK t : t = Mutation!Complete(rec[o])
    BY Zenon
  <2>3. /\ Sound(o, rec[o], t, run[x].seen.state, Mutation!NoOutcome)
        /\ Mutation!StoreCall(x, t) /\ run[x].seen.state # "unknown"
    BY <1>5, <2>1, <2>2
  <2> QED
    BY ONLY MutationInv, <1>1, <1>2, <2>3, StoreCallKeeps
<1> QED
  BY <1>3, <1>4, <1>5, Zenon DEF Mutation!Advance

(* record_remote_outcome with an answer that is unknown or true.           *)
LEMMA RecordKeeps ==
  ASSUME MutationInv, NEW x \in Mutation!Runners, Mutation!RecordOutcome(x)
  PROVE  MutationInv' /\ Forward
<1> DEFINE o == run[x].op
           a == run[x].answer
<1>1. /\ UNCHANGED <<session, base, remote, late>> /\ run[x].pc = "answered"
      /\ Mutation!StoreCall(x, Mutation!RecordRemoteOutcome(rec[o], a))
  BY DEF Mutation!RecordOutcome
<1>2. /\ RunIsSound(x) /\ o \in Ops /\ rec[o] \in Records /\ Tells(o, rec[o])
      /\ a \in Outcomes /\ run[x].pc \in {"act", "answered"}
  BY <1>1 DEF MutationInv, MutationTypes, Runs, RecordIsTrue
<1>3. /\ Mutation!Rank(run[x].seen.state) <= Mutation!Rank(rec[o].state)
      /\ run[x].seen.state \in {"applying", "unknown"}
      /\ a = Mutation!Unknown \/ Truth(o, a)
  BY <1>1, <1>2 DEF RunIsSound
<1>4. Sound(o, rec[o], Mutation!RecordRemoteOutcome(rec[o], a), run[x].seen.state, a)
  BY <1>2, <1>3, RecordIsSound, Zenon
<1>5. PICK t, b : t = Mutation!RecordRemoteOutcome(rec[o], a) /\ b = a
  BY Zenon
<1>6. /\ Sound(o, rec[o], t, run[x].seen.state, b)
      /\ Mutation!StoreCall(x, t) /\ run[x].answer = b
  BY <1>1, <1>4, <1>5
<1> QED
  BY ONLY MutationInv, <1>1, <1>2, <1>6, StoreCallKeeps

(* Nobody is taken for stuck: a record equal to the one seen has the same  *)
(* rank.                                                                   *)
LEMMA ObserveKeeps ==
  ASSUME MutationInv, NEW x \in Mutation!Runners, Mutation!Observe(x)
  PROVE  MutationInv' /\ Forward
<1>1. UNCHANGED <<session, base, rec, remote, late>> /\ run[x].pc = "observe"
  BY DEF Mutation!Observe
<1>2. PICK o \in Ops, g \in Nat : o = run[x].op /\ g = run[x].gen
  BY DEF MutationInv, MutationTypes, Runs
<1>3. /\ RunIsSound(x) /\ run \in [Mutation!Runners -> Runs] /\ late' \subseteq Ops
      /\ rec[o] \in Records
  BY <1>1 DEF MutationInv, MutationTypes
<1>4. rec[o].state # "none"
  BY <1>1, <1>2, <1>3 DEF RunIsSound
<1>5. rec[o] = run[x].seen => run[x].status = "fenced" \/ Mutation!StableUnknown(run[x])
  <2>1. ~(Mutation!Rank(rec[o].state) < Mutation!Rank(rec[o].state))
    BY ONLY <1>3, MutationRanks DEF Records
  <2> QED
    BY ONLY <1>1, <1>2, <1>3, <2>1 DEF RunIsSound
<1>6. Mutation!Ends(x) \/ run' = [run EXCEPT ![x] = Mutation!Begins(o, g)]
  BY <1>2, <1>5, Zenon DEF Mutation!Observe
<1>7. /\ run' \in [Mutation!Runners -> Runs]
      /\ \A y \in Mutation!Runners : run'[y] = run[y] \/ RunIsSound(y)'
  BY ONLY MutationInv, <1>1, <1>4, <1>6, RunnerRests, RunnerBegins
<1> QED
  BY ONLY MutationInv, <1>1, <1>3, <1>7, RunnerKeeps

(* Steps of the remote, with or without a runner.                          *)
LEMMA RemoteKeeps ==
  ASSUME MutationInv, NEW o \in Ops, Mutation!Apply(o), UNCHANGED <<session, base, rec>>,
         late' \subseteq Ops, run' \in [Mutation!Runners -> Runs],
         \A y \in Mutation!Runners : run'[y] = run[y] \/ RunIsSound(y)'
  PROVE  MutationInv' /\ Forward
<1>1. MutationTypes
  BY DEF MutationInv
<1>2. /\ remote' \in [rev : Nat, done : SUBSET Ops]
      /\ remote'.rev >= remote.rev /\ remote.done \subseteq remote'.done
      /\ \A p \in Ops : p \in remote'.done \ remote.done => remote.rev = base[p]
  BY <1>1, ApplyEffect
<1>3. MutationTypes'
  BY <1>1, <1>2 DEF MutationTypes
<1>4. Forward
  BY <1>1, <1>2, RemoteForward
<1> QED
  BY <1>3, <1>4, MutationStep

(* The remote applies the operation, and the answer may be lost.           *)
LEMMA ApplyKeeps ==
  ASSUME MutationInv, NEW x \in Mutation!Runners,
         Mutation!ApplyMutation(x) \/ Mutation!ApplyRefuted(x)
  PROVE  MutationInv' /\ Forward
<1>1. PICK o \in Ops : o = run[x].op
  BY DEF MutationInv, MutationTypes, Runs
<1>2. /\ Mutation!Apply(o) /\ UNCHANGED <<session, base, rec, late>>
      /\ Mutation!Asks(x, "applying")
  BY <1>1, Zenon DEF Mutation!ApplyMutation, Mutation!ApplyRefuted
<1>3. MutationTypes /\ RecordIsTrue(o) /\ late' \subseteq Ops
  BY <1>2 DEF MutationInv, MutationTypes
<1>4. CASE Mutation!ApplyMutation(x)
  <2>1. PICK a : a = IF remote' # remote THEN Mutation!Outcome("committed", remote'.rev)
                     ELSE Mutation!Verdict(o, remote)
    BY Zenon
  <2>2. run' = [run EXCEPT ![x].pc = "answered", ![x].answer = a]
    BY <1>1, <1>4, <2>1, Zenon DEF Mutation!ApplyMutation
  <2>3. a \in Outcomes /\ (a = Mutation!Unknown \/ Truth(o, a)')
    <3>1. CASE remote' # remote
      <4>1. a = Mutation!Outcome("committed", remote'.rev) /\ remote'.rev \in Nat
            /\ o \in remote'.done
        BY ONLY <1>2, <1>3, <2>1, <3>1, ApplyEffect
      <4> QED
        BY ONLY <4>1 DEF Mutation!Outcome, Outcomes, Truth, Mutation!Committed
    <3>2. CASE remote' = remote
      <4>1. a = Mutation!Verdict(o, remote)
        BY ONLY <2>1, <3>2
      <4>2. a \in Outcomes /\ (a = Mutation!Unknown \/ Truth(o, a))
        BY ONLY <1>3, <4>1, VerdictIsTrue
      <4> QED
        BY ONLY <1>2, <3>2, <4>2 DEF Truth
    <3> QED
      BY <3>1, <3>2
  <2>4. /\ run' \in [Mutation!Runners -> Runs]
        /\ \A y \in Mutation!Runners : run'[y] = run[y] \/ RunIsSound(y)'
    BY <1>1, <1>2, <2>2, <2>3, RunnerIsAnswered, Zenon
  <2> QED
    BY ONLY MutationInv, <1>2, <1>3, <2>4, RemoteKeeps
<1>5. CASE Mutation!ApplyRefuted(x)
  BY <1>2, <1>3, <1>5, RunnerRests, RemoteKeeps DEF Mutation!ApplyRefuted
<1> QED
  BY <1>4, <1>5

(* An answer that proves nothing, or what the remote says when asked.      *)
LEMMA AnswerKeeps ==
  ASSUME MutationInv, NEW x \in Mutation!Runners,
         Mutation!ApplyUnanswered(x) \/ Mutation!ReconcileMutation(x)
  PROVE  MutationInv' /\ Forward
<1>1. PICK o \in Ops : o = run[x].op
  BY DEF MutationInv, MutationTypes, Runs
<1>2. UNCHANGED <<session, base, rec, remote>>
  BY DEF Mutation!ApplyUnanswered, Mutation!ReconcileMutation
<1>3. MutationTypes /\ RecordIsTrue(o) /\ late \subseteq Ops
  BY DEF MutationInv, MutationTypes
<1>4. CASE Mutation!ApplyUnanswered(x)
  <2>1. /\ Mutation!Asks(x, "applying") /\ late' = late \cup {o}
        /\ run' = [run EXCEPT ![x].pc = "answered", ![x].answer = Mutation!Unknown]
    BY <1>1, <1>4, Zenon DEF Mutation!ApplyUnanswered
  <2>2. /\ run' \in [Mutation!Runners -> Runs]
        /\ \A y \in Mutation!Runners : run'[y] = run[y] \/ RunIsSound(y)'
    BY <1>1, <1>2, <2>1, RunnerIsAnswered, MutationValues, Zenon
  <2>3. late' \subseteq Ops
    BY <1>3, <2>1, Zenon
  <2> QED
    BY ONLY MutationInv, <1>2, <2>2, <2>3, RunnerKeeps
<1>5. CASE Mutation!ReconcileMutation(x)
  <2>1. PICK a : a = Mutation!Verdict(o, remote)
    BY Zenon
  <2>2. /\ Mutation!Asks(x, "unknown") /\ late' = late
        /\ run' = [run EXCEPT ![x].pc = "answered", ![x].answer = a]
    BY <1>1, <1>5, <2>1, Zenon DEF Mutation!ReconcileMutation
  <2>3. a \in Outcomes /\ (a = Mutation!Unknown \/ Truth(o, a))
    BY ONLY <1>3, <2>1, VerdictIsTrue
  <2>4. a = Mutation!Unknown \/ Truth(o, a)'
    BY ONLY <1>2, <2>3 DEF Truth
  <2>5. /\ run' \in [Mutation!Runners -> Runs]
        /\ \A y \in Mutation!Runners : run'[y] = run[y] \/ RunIsSound(y)'
    BY <1>1, <1>2, <2>2, <2>3, <2>4, RunnerIsAnswered, Zenon
  <2>6. late' \subseteq Ops
    BY <1>3, <2>2, Zenon
  <2> QED
    BY ONLY MutationInv, <1>2, <2>5, <2>6, RunnerKeeps
<1> QED
  BY <1>4, <1>5

(* A crash loses the runner and nothing durable.                           *)
LEMMA CrashKeeps ==
  ASSUME MutationInv, NEW x \in Mutation!Runners, Mutation!Crash(x)
  PROVE  MutationInv' /\ Forward
<1>1. UNCHANGED <<session, base, rec, remote>> /\ Mutation!Ends(x)
  BY DEF Mutation!Crash
<1>2. late' \subseteq Ops
  BY DEF Mutation!Crash, MutationInv, MutationTypes, Runs
<1> QED
  BY ONLY MutationInv, <1>1, <1>2, RunnerRests, RunnerKeeps

(* A request that arrives late is still conditional.                       *)
LEMMA ArriveKeeps ==
  ASSUME MutationInv, NEW o \in Ops, Mutation!Arrive(o)
  PROVE  MutationInv' /\ Forward
<1>1. UNCHANGED <<session, base, rec, run>> /\ Mutation!Apply(o) /\ late' \subseteq late
  BY DEF Mutation!Arrive
<1>2. late \subseteq Ops /\ run' \in [Mutation!Runners -> Runs]
  BY <1>1 DEF MutationInv, MutationTypes
<1> QED
  BY <1>1, <1>2, RemoteKeeps

(* Another writer only moves the revision on.                              *)
LEMMA OtherWriterKeeps ==
  ASSUME MutationInv, Mutation!OtherWriter
  PROVE  MutationInv' /\ Forward
<1>1. UNCHANGED <<session, base, rec, run, late>>
  BY DEF Mutation!OtherWriter
<1>2. MutationTypes
  BY DEF MutationInv
<1>3. PICK n \in Nat : n = remote.rev + 1
  BY <1>2 DEF MutationTypes
<1>4. remote' = [remote EXCEPT !.rev = n]
  BY <1>3 DEF Mutation!OtherWriter
<1>5. /\ remote' \in [rev : Nat, done : SUBSET Ops]
      /\ remote'.rev = n /\ remote'.done = remote.done
  BY ONLY <1>2, <1>4, Zenon DEF MutationTypes
<1>6. remote'.rev >= remote.rev
  BY ONLY <1>2, <1>3, <1>5 DEF MutationTypes
<1>7. MutationTypes'
  BY ONLY <1>1, <1>2, <1>5 DEF MutationTypes
<1>8. Forward
  BY ONLY <1>1, <1>2, <1>5, <1>6, RemoteForward
<1> QED
  BY ONLY MutationInv, <1>1, <1>7, <1>8, MutationStep

(* Every step of the journal keeps the invariant and goes forward.         *)
LEMMA MutationNext ==
  ASSUME MutationInv, Mutation!Next
  PROVE  MutationInv' /\ Forward
BY MutationSessions, SubmitKeeps, ResumeKeeps, LoadKeeps, AdvanceKeeps, RecordKeeps,
   ObserveKeeps, ApplyKeeps, AnswerKeeps, CrashKeeps, ArriveKeeps, OtherWriterKeeps
   DEF Mutation!Next, Mutation!RunnerStep

(* The invariant contains the two safety properties, and a forward step    *)
(* keeps every decision.                                                   *)
LEMMA MutationInvGives ==
  ASSUME MutationInv
  PROVE  Mutation!OutcomeIsTrue /\ Mutation!NoFalseStall
<1>1. Mutation!OutcomeIsTrue
  <2> SUFFICES ASSUME NEW o \in Ops, Mutation!Decided(rec[o].state) PROVE Truth(o, rec[o].outcome)
    BY DEF Mutation!OutcomeIsTrue, Truth
  <2>1. rec[o] \in Records /\ Tells(o, rec[o])
    BY DEF MutationInv, MutationTypes, RecordIsTrue
  <2> QED
    BY <2>1, DecidedStates DEF Tells
<1>2. Mutation!NoFalseStall
  BY DEF MutationInv, RunIsSound, Mutation!NoFalseStall
<1> QED
  BY <1>1, <1>2

(* Going forward is what the action property asks.                         *)
LEMMA ForwardKeepsDecisions ==
  ASSUME MutationTypes, MutationTypes', Forward
  PROVE  Mutation!KeepsDecisions
<1>1. \A o \in Ops : rec[o] \in Records /\ rec'[o] \in Records
  BY DEF MutationTypes
<1>2. \A r \in Records : Mutation!Rank(r.state) \in Nat
  BY MutationRanks DEF Records
<1> QED
  BY <1>1, <1>2 DEF Forward, Mutation!KeepsDecisions

-----------------------------------------------------------------------------
(* The content upload.                                                     *)

UploadOutcomes == {"none", "unknown", "committed", "already", "precondition"}

UploadRecords ==
  [state : {"none", "intent", "uploading", "committing", "unknown", "known", "reconciled",
            "completed"},
   snap : Nat, offset : 0 .. Chunks + 1, outcome : UploadOutcomes]

UploadRuns ==
  [pc : {"idle", "act", "answered", "observe", "stalled"}, op : Nat, gen : Nat,
   seen : UploadRecords, status : {"none", "applied", "already", "fenced"}, ack : Nat,
   answer : UploadOutcomes]

UploadTypes ==
  /\ active \in Nat /\ latest \in Nat /\ dirty \in Nat /\ reserved \in BOOLEAN
  /\ rec \in [Upload!Uploads -> UploadRecords]
  /\ run \in [Upload!Runners -> UploadRuns]
  /\ remote \in [open : [Upload!Uploads -> 0 .. Chunks + 1], moved : BOOLEAN,
                 done : SUBSET Upload!Uploads]
  /\ late \subseteq Upload!Uploads

(* The remote commits a complete upload, and that moves its item.          *)
UploadRemote ==
  /\ \A u \in Upload!Uploads : u \in remote.done => remote.open[u] = Chunks
  /\ ~remote.moved => remote.done = {}

(* What an answer says of u is so, and stays so: an item that has moved    *)
(* takes no other commit.                                                  *)
UploadTruth(u, a) ==
  \/ Upload!Committed(a) /\ u \in remote.done
  \/ a = "precondition" /\ u \notin remote.done /\ remote.moved

(* A session that is open, with at least n chunks.                         *)
Holds(u, n) == remote.open[u] # Chunks + 1 /\ n <= remote.open[u]

UploadTells(u, r) ==
  /\ r.state \in {"none", "intent"} <=> r.offset = Chunks + 1
  /\ r.offset # Chunks + 1 => Holds(u, r.offset)
  /\ r.state \in {"none", "intent", "uploading", "committing"} => r.outcome = "none"
  /\ r.state = "unknown" => r.outcome = "unknown"
  /\ r.state \in {"known", "reconciled", "completed"} => UploadTruth(u, r.outcome)
  /\ r.state = "none" => r.snap = 0

(* A record moves on to a later state, or to more chunks.                  *)
Before(r, s) ==
  \/ Upload!Rank(r.state) < Upload!Rank(s.state)
  \/ r.state = s.state /\ r.offset < s.offset
AtMost(r, s) == Before(r, s) \/ (r.state = s.state /\ r.offset = s.offset)

(* As for a mutation; and the chunks a runner was told of are there.       *)
UploadRunIsSound(x) ==
  LET r == run[x]
      now == rec[r.op]
  IN  /\ r.pc # "stalled"
      /\ r.pc # "idle" =>
           /\ r.op \in Upload!Uploads /\ now.state # "none"
           /\ r.seen.state \notin {"none", "completed"}
           /\ r.seen.state = "intent" <=> r.seen.offset = Chunks + 1
           /\ AtMost(r.seen, now)
      /\ r.pc = "answered" =>
           \/ /\ r.seen.state \in {"intent", "uploading"} /\ Holds(r.op, r.ack)
              /\ r.seen.state = "uploading" => r.ack = r.seen.offset + 1
           \/ /\ r.seen.state \in {"committing", "unknown"}
              /\ r.answer = "unknown" \/ UploadTruth(r.op, r.answer)
      /\ r.pc = "observe" =>
           \/ r.status = "fenced"
           \/ Before(r.seen, now)
           \/ r.seen.state = "unknown" /\ r.answer = "unknown" /\ r.status = "already"

(* The entry: dirty is the latest generation or none.                      *)
EntryIsSound ==
  /\ dirty \in {0, latest}
  /\ Upload!NoChangeIsLost

UploadInv ==
  /\ UploadTypes
  /\ UploadRemote
  /\ \A u \in Upload!Uploads : UploadTells(u, rec[u])
  /\ \A x \in Upload!Runners : UploadRunIsSound(x)
  /\ EntryIsSound

(* What every step does: sessions grow, at most one commit moves the item, *)
(* records move on and keep their snapshot.                                *)
RemoteGrows ==
  /\ remote.moved => remote'.moved /\ remote'.done = remote.done
  /\ remote.done \subseteq remote'.done
  /\ \A u \in Upload!Uploads : remote.open[u] # Chunks + 1 =>
       remote'.open[u] # Chunks + 1 /\ remote.open[u] <= remote'.open[u]

UploadForward ==
  /\ RemoteGrows
  /\ \A u \in Upload!Uploads :
       /\ AtMost(rec[u], rec'[u])
       /\ rec[u].state # "none" => rec'[u].snap = rec[u].snap

(* The order of the durable states.                                        *)
LEMMA UploadRanks ==
  /\ Upload!Rank("none") = 1 /\ Upload!Rank("intent") = 2
  /\ Upload!Rank("uploading") = 3 /\ Upload!Rank("committing") = 4
  /\ Upload!Rank("unknown") = 5 /\ Upload!Rank("known") = 6
  /\ Upload!Rank("reconciled") = 7 /\ Upload!Rank("completed") = 8
BY DEF Upload!Rank, Upload!States

(* Ranks are numbers, and tell the states apart.                           *)
LEMMA RankTells ==
  ASSUME NEW r \in UploadRecords
  PROVE  /\ Upload!Rank(r.state) \in 1 .. 8
         /\ Upload!Decided(r.state) <=> r.state \in {"known", "reconciled", "completed"}
         /\ Upload!Rank(r.state) > 1 <=> r.state # "none"
<1>1. r.state \in {"none", "intent", "uploading", "committing", "unknown", "known", "reconciled",
                   "completed"}
  BY DEF UploadRecords
<1> QED
  BY <1>1, UploadRanks DEF Upload!Decided

(* Moving on is transitive.                                                *)
LEMMA Moving ==
  ASSUME NEW r \in UploadRecords, NEW s \in UploadRecords, NEW t \in UploadRecords
  PROVE  /\ AtMost(r, r) /\ ~Before(r, r)
         /\ AtMost(r, s) /\ AtMost(s, t) => AtMost(r, t)
         /\ Before(r, s) /\ AtMost(s, t) => Before(r, t)
         /\ AtMost(r, s) /\ r.state # "none" => s.state # "none"
         /\ AtMost(r, s) => Upload!Rank(r.state) <= Upload!Rank(s.state)
<1>1. /\ Upload!Rank(r.state) \in 1 .. 8 /\ Upload!Rank(s.state) \in 1 .. 8
      /\ Upload!Rank(t.state) \in 1 .. 8
      /\ Upload!Rank(r.state) > 1 <=> r.state # "none"
      /\ Upload!Rank(s.state) > 1 <=> s.state # "none"
  BY RankTells
<1>2. r.offset \in Nat /\ s.offset \in Nat /\ t.offset \in Nat
  BY BoundsAssumption DEF UploadRecords
<1> QED
  BY <1>1, <1>2 DEF AtMost, Before

(* The values a runner and a record start from.                            *)
LEMMA UploadValues ==
  /\ Upload!NoRecord \in UploadRecords /\ Upload!NoRecord.state = "none"
  /\ Upload!NoRecord.offset = Chunks + 1 /\ Upload!NoRecord.outcome = "none"
  /\ Upload!NoRecord.snap = 0
  /\ Upload!Idle \in UploadRuns /\ Upload!Idle.pc = "idle"
  /\ Upload!NoSession = Chunks + 1
<1>1. Upload!NoSession = Chunks + 1
  BY DEF Upload!NoSession
<1>2. /\ Upload!NoRecord \in UploadRecords /\ Upload!NoRecord.state = "none"
      /\ Upload!NoRecord.offset = Chunks + 1 /\ Upload!NoRecord.outcome = "none"
      /\ Upload!NoRecord.snap = 0
  BY <1>1, BoundsAssumption DEF Upload!NoRecord, UploadRecords, UploadOutcomes
<1>3. Upload!Idle \in UploadRuns /\ Upload!Idle.pc = "idle"
  BY <1>2 DEF Upload!Idle, UploadRuns, UploadOutcomes
<1> QED
  BY <1>1, <1>2, <1>3

(* An invocation that looks at a record.                                   *)
LEMMA LooksValue ==
  ASSUME NEW u \in Upload!Uploads, NEW g \in Nat, NEW r \in UploadRecords
  PROVE  /\ Upload!Looks(u, g, r) \in UploadRuns
         /\ r.state = "completed" => Upload!Looks(u, g, r).pc = "idle"
         /\ r.state # "completed" => /\ Upload!Looks(u, g, r).pc = "act"
                                     /\ Upload!Looks(u, g, r).op = u
                                     /\ Upload!Looks(u, g, r).seen = r
<1>1. u \in Nat
  BY DEF Upload!Uploads
<1> QED
  BY <1>1, UploadValues DEF Upload!Looks, UploadRuns, UploadOutcomes

(* What each update of a record changes.                                   *)
LEMMA UploadStateSet ==
  ASSUME NEW r \in UploadRecords,
         NEW s \in {"none", "intent", "uploading", "committing", "unknown", "known", "reconciled",
                    "completed"}
  PROVE  /\ [r EXCEPT !.state = s] \in UploadRecords /\ [r EXCEPT !.state = s].state = s
         /\ [r EXCEPT !.state = s].offset = r.offset /\ [r EXCEPT !.state = s].snap = r.snap
         /\ [r EXCEPT !.state = s].outcome = r.outcome
BY Zenon DEF UploadRecords

(* A record that takes its session.                                        *)
LEMMA UploadOpenSet ==
  ASSUME NEW r \in UploadRecords, NEW n \in 0 .. Chunks + 1
  PROVE  LET q == [r EXCEPT !.state = "uploading", !.offset = n]
         IN  /\ q \in UploadRecords /\ q.state = "uploading" /\ q.offset = n /\ q.snap = r.snap
             /\ q.outcome = r.outcome
BY Zenon DEF UploadRecords

(* A record that takes a chunk.                                            *)
LEMMA UploadOffsetSet ==
  ASSUME NEW r \in UploadRecords, NEW n \in 0 .. Chunks + 1
  PROVE  LET q == [r EXCEPT !.offset = n]
         IN  /\ q \in UploadRecords /\ q.state = r.state /\ q.offset = n /\ q.snap = r.snap
             /\ q.outcome = r.outcome
BY Zenon DEF UploadRecords

(* What each update of a runner changes.                                   *)
LEMMA UploadRunSet ==
  ASSUME run \in [Upload!Runners -> UploadRuns], NEW x \in Upload!Runners, NEW r \in UploadRuns,
         run' = [run EXCEPT ![x] = r]
  PROVE  /\ run' \in [Upload!Runners -> UploadRuns] /\ run'[x] = r
         /\ \A y \in Upload!Runners : y # x => run'[y] = run[y]
BY Zenon

(* A runner that has called the store.                                     *)
LEMMA UploadRunCalled ==
  ASSUME run \in [Upload!Runners -> UploadRuns], NEW x \in Upload!Runners,
         NEW s \in {"none", "applied", "already", "fenced"},
         run' = [run EXCEPT ![x].pc = "observe", ![x].status = s]
  PROVE  /\ run' \in [Upload!Runners -> UploadRuns]
         /\ run'[x].pc = "observe" /\ run'[x].status = s /\ run'[x].op = run[x].op
         /\ run'[x].seen = run[x].seen /\ run'[x].answer = run[x].answer
         /\ \A y \in Upload!Runners : y # x => run'[y] = run[y]
BY Zenon DEF UploadRuns

(* A runner that has an outcome.                                           *)
LEMMA UploadRunAnswered ==
  ASSUME run \in [Upload!Runners -> UploadRuns], NEW x \in Upload!Runners,
         NEW a \in UploadOutcomes, Upload!Answered(x, a)
  PROVE  /\ run' \in [Upload!Runners -> UploadRuns]
         /\ run'[x].pc = "answered" /\ run'[x].answer = a /\ run'[x].op = run[x].op
         /\ run'[x].seen = run[x].seen
         /\ \A y \in Upload!Runners : y # x => run'[y] = run[y]
BY Zenon DEF UploadRuns, Upload!Answered

(* A runner that has an acknowledged offset.                               *)
LEMMA UploadRunAccepted ==
  ASSUME run \in [Upload!Runners -> UploadRuns], NEW x \in Upload!Runners, NEW n \in Nat,
         Upload!Accepted(x, n)
  PROVE  /\ run' \in [Upload!Runners -> UploadRuns]
         /\ run'[x].pc = "answered" /\ run'[x].ack = n /\ run'[x].op = run[x].op
         /\ run'[x].seen = run[x].seen
         /\ \A y \in Upload!Runners : y # x => run'[y] = run[y]
BY Zenon DEF UploadRuns, Upload!Accepted

-----------------------------------------------------------------------------
(* What a transition of an upload promises, as for a mutation.             *)
UploadSound(u, r, t, seen, a) ==
  t.status # "error" =>
    /\ t.rec \in UploadRecords /\ t.status \in {"applied", "already", "fenced"}
    /\ AtMost(r, t.rec) /\ t.rec.snap = r.snap
    /\ UploadTells(u, t.rec)
    /\ \/ t.status = "fenced"
       \/ Before(seen, t.rec)
       \/ seen.state = "unknown" /\ a = "unknown" /\ t.status = "already"

(* A transition that keeps a record somebody has moved on.                 *)
LEMMA KeptIsSound ==
  ASSUME NEW u \in Upload!Uploads, NEW r \in UploadRecords, UploadTells(u, r),
         NEW seen \in UploadRecords, NEW a, NEW t,
         t.status # "error" =>
           /\ t.rec = r /\ t.status \in {"already", "fenced"}
           /\ \/ Before(seen, r) \/ t.status = "fenced"
              \/ seen.state = "unknown" /\ a = "unknown" /\ t.status = "already"
  PROVE  UploadSound(u, r, t, seen, a)
BY Moving DEF UploadSound

(* A transition to a record that is later than the one seen.               *)
LEMMA MovedIsSound ==
  ASSUME NEW u \in Upload!Uploads, NEW r \in UploadRecords, NEW q \in UploadRecords,
         UploadTells(u, q), q.snap = r.snap, NEW seen \in UploadRecords, NEW a, NEW t,
         t.rec = q, t.status = "applied", Before(r, q), AtMost(seen, r)
  PROVE  UploadSound(u, r, t, seen, a)
<1>1. Before(seen, q)
  <2>1. AtMost(seen, r) /\ AtMost(r, q)
    BY DEF AtMost
  <2>2. /\ Upload!Rank(seen.state) \in 1 .. 8 /\ Upload!Rank(r.state) \in 1 .. 8
        /\ Upload!Rank(q.state) \in 1 .. 8
    BY RankTells
  <2>3. seen.offset \in Nat /\ r.offset \in Nat /\ q.offset \in Nat
    BY BoundsAssumption DEF UploadRecords
  <2> QED
    BY <2>2, <2>3 DEF AtMost, Before
<1> QED
  BY <1>1 DEF UploadSound, AtMost

(* record_session: chunks the remote has.                                  *)
LEMMA SessionIsSound ==
  ASSUME UploadTypes, NEW u \in Upload!Uploads, NEW r \in UploadRecords, UploadTells(u, r),
         NEW seen \in UploadRecords, seen.state \in {"intent", "uploading"}, AtMost(seen, r),
         NEW n \in Nat, Holds(u, n), seen.state = "uploading" => n = seen.offset + 1, NEW a
  PROVE  UploadSound(u, r, Upload!RecordSession(r, n), seen, a)
<1> DEFINE t == Upload!RecordSession(r, n)
<1>1. n \in 0 .. Chunks /\ n \in 0 .. Chunks + 1 /\ n # Chunks + 1
  <2>1. remote.open[u] \in 0 .. Chunks + 1
    BY DEF UploadTypes
  <2> QED
    BY <2>1, BoundsAssumption DEF Holds
<1>2. /\ r.state \in {"none", "intent", "uploading", "committing", "unknown", "known",
                       "reconciled", "completed"}
      /\ r.offset \in Nat /\ seen.offset \in Nat
  BY BoundsAssumption DEF UploadRecords
<1>3. r.state # "none"
  BY Moving
<1>4. CASE r.state \notin {"intent", "uploading"}
  <2>1. t.status # "error" => t.rec = r /\ t.status = "already"
    BY <1>4, Zenon DEF Upload!RecordSession, Upload!Already, Upload!Refused
  <2>2. Before(seen, r)
    BY <1>2, <1>3, <1>4, UploadRanks DEF Before
  <2> QED
    BY <2>1, <2>2, KeptIsSound
<1>5. CASE r.state = "intent"
  <2> DEFINE q == [r EXCEPT !.state = "uploading", !.offset = n]
  <2>1. t.rec = q /\ t.status = "applied"
    <3>1. r.offset = Upload!NoSession /\ ~(r.state \notin {"intent", "uploading"})
      BY <1>5, UploadValues DEF UploadTells
    <3> QED
      BY <3>1, Zenon DEF Upload!RecordSession, Upload!Applied
  <2>2. /\ q \in UploadRecords /\ q.state = "uploading" /\ q.offset = n /\ q.snap = r.snap
        /\ q.outcome = r.outcome
    BY <1>1, UploadOpenSet, Zenon
  <2> HIDE DEF q, t
  <2>3. UploadTells(u, q)
    BY <1>1, <1>5, <2>2 DEF UploadTells
  <2>4. Before(r, q)
    BY <1>5, <2>2, UploadRanks DEF Before
  <2>5. UploadSound(u, r, t, seen, a)
    BY <2>1, <2>2, <2>3, <2>4, MovedIsSound
  <2> QED
    BY <2>5 DEF t
<1>6. CASE r.state = "uploading"
  <2>0. r.offset # Upload!NoSession /\ ~(r.state \notin {"intent", "uploading"})
    BY <1>6, UploadValues DEF UploadTells
  <2>1. CASE n < r.offset
    <3>1. t.rec = r /\ t.status = "fenced"
      BY <2>0, <2>1, Zenon DEF Upload!RecordSession
    <3> QED
      BY <3>1, KeptIsSound
  <2>2. CASE n = r.offset
    <3>0. ~(n < r.offset)
      BY <1>1, <2>2
    <3>1. t.rec = r /\ t.status = "already"
      BY <2>0, <2>2, <3>0, Zenon DEF Upload!RecordSession, Upload!Already
    <3>2. Before(seen, r)
      BY <1>2, <1>6, <2>2, UploadRanks DEF Before
    <3> QED
      BY <3>1, <3>2, KeptIsSound
  <2>3. CASE n > r.offset
    <3> DEFINE q == [r EXCEPT !.offset = n]
    <3>0. ~(n < r.offset) /\ ~(n = r.offset)
      BY <1>1, <1>2, <2>3
    <3>1. t.rec = q /\ t.status = "applied"
      BY <2>0, <3>0, Zenon DEF Upload!RecordSession, Upload!Applied
    <3>2. /\ q \in UploadRecords /\ q.state = r.state /\ q.offset = n /\ q.snap = r.snap
          /\ q.outcome = r.outcome
      BY <1>1, UploadOffsetSet, Zenon
    <3> HIDE DEF q, t
    <3>3. UploadTells(u, q)
      BY <1>1, <1>6, <3>2 DEF UploadTells
    <3>4. Before(r, q)
      BY <2>3, <3>2 DEF Before
    <3>5. UploadSound(u, r, t, seen, a)
      BY <3>1, <3>2, <3>3, <3>4, MovedIsSound
    <3> QED
      BY <3>5 DEF t
  <2> QED
    BY <1>1, <1>2, <2>1, <2>2, <2>3
<1> QED
  BY <1>2, <1>4, <1>5, <1>6

(* begin_remote_commit, mark_metadata_reconciled and complete.             *)
LEMMA BeginCommitIsSound ==
  ASSUME NEW u \in Upload!Uploads, NEW r \in UploadRecords, UploadTells(u, r),
         NEW seen \in UploadRecords, seen.state = "uploading", seen.offset = Chunks,
         AtMost(seen, r), NEW a
  PROVE  UploadSound(u, r, Upload!BeginRemoteCommit(r), seen, a)
<1> DEFINE t == Upload!BeginRemoteCommit(r)
<1>1. /\ r.state \in {"none", "intent", "uploading", "committing", "unknown", "known",
                       "reconciled", "completed"}
      /\ r.offset \in 0 .. Chunks + 1
  BY DEF UploadRecords
<1>2. CASE r.state = "uploading"
  <2> DEFINE q == [r EXCEPT !.state = "committing"]
  <2>0. r.offset = Chunks
    BY <1>1, <1>2, UploadRanks, BoundsAssumption DEF AtMost, Before, UploadTells
  <2>1. t.rec = q /\ t.status = "applied"
    BY <1>2, <2>0, Zenon DEF Upload!BeginRemoteCommit, Upload!Applied
  <2>2. /\ q \in UploadRecords /\ q.state = "committing" /\ q.offset = r.offset
        /\ q.snap = r.snap /\ q.outcome = r.outcome
    BY UploadStateSet, Zenon
  <2> HIDE DEF q, t
  <2>3. UploadTells(u, q)
    BY <1>2, <2>2 DEF UploadTells
  <2>4. Before(r, q)
    BY <1>2, <2>2, UploadRanks DEF Before
  <2>5. UploadSound(u, r, t, seen, a)
    BY <2>1, <2>2, <2>3, <2>4, MovedIsSound
  <2> QED
    BY <2>5 DEF t
<1>3. CASE r.state # "uploading"
  <2>1. Upload!Rank(seen.state) <= Upload!Rank(r.state)
    BY Moving
  <2>2. Before(seen, r) /\ r.state # "intent"
    BY <1>1, <1>3, <2>1, UploadRanks DEF Before
  <2>3. t.rec = r /\ t.status = "already"
    BY <1>3, <2>2, Zenon DEF Upload!BeginRemoteCommit, Upload!Already
  <2> QED
    BY <2>2, <2>3, KeptIsSound
<1> QED
  BY <1>2, <1>3

(* mark_metadata_reconciled changes a decided record only.                 *)
LEMMA MarkReconciledIsSound ==
  ASSUME NEW u \in Upload!Uploads, NEW r \in UploadRecords, UploadTells(u, r),
         NEW seen \in UploadRecords, seen.state = "known", AtMost(seen, r), NEW a
  PROVE  /\ UploadSound(u, r, Upload!MarkMetadataReconciled(r), seen, a)
         /\ Upload!MarkMetadataReconciled(r).rec # r => UploadTruth(u, r.outcome)
<1> DEFINE t == Upload!MarkMetadataReconciled(r)
<1>1. r.state \in {"none", "intent", "uploading", "committing", "unknown", "known",
                   "reconciled", "completed"}
  BY DEF UploadRecords
<1>2. CASE r.state = "known"
  <2> DEFINE q == [r EXCEPT !.state = "reconciled"]
  <2>1. t.rec = q /\ t.status = "applied"
    BY <1>2, Zenon DEF Upload!MarkMetadataReconciled, Upload!Applied
  <2>2. /\ q \in UploadRecords /\ q.state = "reconciled" /\ q.offset = r.offset
        /\ q.snap = r.snap /\ q.outcome = r.outcome
    BY UploadStateSet, Zenon
  <2> HIDE DEF q, t
  <2>3. UploadTells(u, q) /\ UploadTruth(u, r.outcome)
    BY <1>2, <2>2 DEF UploadTells
  <2>4. Before(r, q)
    BY <1>2, <2>2, UploadRanks DEF Before
  <2>5. UploadSound(u, r, t, seen, a)
    BY <2>1, <2>2, <2>3, <2>4, MovedIsSound
  <2> QED
    BY <2>3, <2>5 DEF t
<1>3. CASE r.state # "known"
  <2>1. Upload!Rank(seen.state) <= Upload!Rank(r.state)
    BY Moving
  <2>2. Before(seen, r)
    BY <1>1, <1>3, <2>1, UploadRanks DEF Before
  <2>3. t.rec = r /\ t.status \in {"already", "error"}
    BY <1>3 DEF Upload!MarkMetadataReconciled, Upload!Already, Upload!Refused
  <2> HIDE DEF t
  <2>4. UploadSound(u, r, t, seen, a)
    BY <2>2, <2>3, KeptIsSound
  <2> QED
    BY <2>3, <2>4 DEF t
<1> QED
  BY <1>2, <1>3

(* complete follows reconciliation.                                        *)
LEMMA CompleteIsSound ==
  ASSUME NEW u \in Upload!Uploads, NEW r \in UploadRecords, UploadTells(u, r),
         NEW seen \in UploadRecords, seen.state = "reconciled", AtMost(seen, r), NEW a
  PROVE  UploadSound(u, r, Upload!Complete(r), seen, a)
<1> DEFINE t == Upload!Complete(r)
<1>1. r.state \in {"none", "intent", "uploading", "committing", "unknown", "known",
                   "reconciled", "completed"}
  BY DEF UploadRecords
<1>2. CASE r.state = "reconciled"
  <2> DEFINE q == [r EXCEPT !.state = "completed"]
  <2>1. t.rec = q /\ t.status = "applied"
    BY <1>2, Zenon DEF Upload!Complete, Upload!Applied
  <2>2. /\ q \in UploadRecords /\ q.state = "completed" /\ q.offset = r.offset
        /\ q.snap = r.snap /\ q.outcome = r.outcome
    BY UploadStateSet, Zenon
  <2> HIDE DEF q, t
  <2>3. UploadTells(u, q)
    BY <1>2, <2>2 DEF UploadTells
  <2>4. Before(r, q)
    BY <1>2, <2>2, UploadRanks DEF Before
  <2>5. UploadSound(u, r, t, seen, a)
    BY <2>1, <2>2, <2>3, <2>4, MovedIsSound
  <2> QED
    BY <2>5 DEF t
<1>3. CASE r.state # "reconciled"
  <2>1. Upload!Rank(seen.state) <= Upload!Rank(r.state)
    BY Moving
  <2>2. Before(seen, r)
    BY <1>1, <1>3, <2>1, UploadRanks DEF Before
  <2>3. t.rec = r /\ t.status \in {"already", "error"}
    BY <1>3 DEF Upload!Complete, Upload!Already, Upload!Refused
  <2> QED
    BY <2>2, <2>3, KeptIsSound
<1> QED
  BY <1>2, <1>3

(* record_remote_outcome: an answer that is unknown or true.               *)
LEMMA OutcomeIsSound ==
  ASSUME NEW u \in Upload!Uploads, NEW r \in UploadRecords, UploadTells(u, r),
         NEW seen \in UploadRecords, seen.state \in {"committing", "unknown"}, AtMost(seen, r),
         NEW a \in UploadOutcomes, a = "unknown" \/ UploadTruth(u, a)
  PROVE  UploadSound(u, r, Upload!RecordRemoteOutcome(r, a), seen, a)
<1> DEFINE t == Upload!RecordRemoteOutcome(r, a)
<1>1. /\ r.state \in {"none", "intent", "uploading", "committing", "unknown", "known",
                       "reconciled", "completed"}
      /\ a \in {"unknown", "committed", "already", "precondition"}
  BY DEF UploadRecords, UploadTruth, Upload!Committed
<1>2. Upload!Rank(seen.state) <= Upload!Rank(r.state)
  BY Moving
<1>3. CASE r.outcome = a
  <2>1. t.rec = r /\ t.status = "already"
    BY <1>3, Zenon DEF Upload!RecordRemoteOutcome, Upload!Already
  <2>2. \/ Before(seen, r)
        \/ seen.state = "unknown" /\ a = "unknown"
    BY <1>1, <1>2, <1>3, UploadRanks DEF Before, UploadTells
  <2> QED
    BY <2>1, <2>2, KeptIsSound
<1>4. CASE r.outcome # a /\ r.state \notin {"committing", "unknown"}
  <2>1. t.status = "error"
    BY <1>4, Zenon DEF Upload!RecordRemoteOutcome, Upload!Refused
  <2> QED
    BY <2>1 DEF UploadSound
<1>5. CASE r.outcome # a /\ r.state \in {"committing", "unknown"}
  <2>0. PICK s \in {"unknown", "known"} : s = (IF a = "unknown" THEN "unknown" ELSE "known")
    OBVIOUS
  <2> DEFINE q == [r EXCEPT !.state = s, !.outcome = a]
  <2>1. t.rec = q /\ t.status = "applied"
    BY <1>5, <2>0, Zenon DEF Upload!RecordRemoteOutcome, Upload!Applied
  <2>2. /\ q \in UploadRecords /\ q.state = s /\ q.outcome = a /\ q.snap = r.snap
        /\ q.offset = r.offset
    BY ONLY r \in UploadRecords, s \in {"unknown", "known"}, a \in UploadOutcomes, Zenon
       DEF UploadRecords, q
  <2> HIDE DEF q, t
  <2>3. UploadTells(u, q)
    BY <1>1, <1>5, <2>0, <2>2 DEF UploadTells
  <2>4. Before(r, q)
    BY <1>5, <2>0, <2>2, UploadRanks DEF Before, UploadTells
  <2>5. UploadSound(u, r, t, seen, a)
    BY <2>1, <2>2, <2>3, <2>4, MovedIsSound
  <2> QED
    BY <2>5 DEF t
<1> QED
  BY <1>3, <1>4, <1>5

-----------------------------------------------------------------------------
(* What a step may not take away.                                          *)

(* What was true of the remote stays true.                                 *)
LEMMA UploadTruthStays ==
  ASSUME RemoteGrows, NEW u \in Upload!Uploads, NEW a, UploadTruth(u, a)
  PROVE  UploadTruth(u, a)'
BY DEF RemoteGrows, UploadTruth

(* Chunks that were accepted stay accepted.                                *)
LEMMA HoldsStays ==
  ASSUME UploadTypes, UploadTypes', RemoteGrows, NEW u \in Upload!Uploads,
         NEW n \in Nat, Holds(u, n)
  PROVE  Holds(u, n)'
<1>1. remote.open[u] \in Nat /\ remote'.open[u] \in Nat
  BY BoundsAssumption DEF UploadTypes
<1> QED
  BY <1>1 DEF RemoteGrows, Holds

(* A record that told the truth goes on telling it.                        *)
LEMMA UploadTellsStays ==
  ASSUME UploadTypes, UploadTypes', RemoteGrows, NEW u \in Upload!Uploads,
         NEW r \in UploadRecords, UploadTells(u, r)
  PROVE  UploadTells(u, r)'
<1>1. r.offset \in Nat
  BY BoundsAssumption DEF UploadRecords
<1>2. r.offset # Chunks + 1 => Holds(u, r.offset)'
  BY <1>1, HoldsStays DEF UploadTells
<1>3. r.state \in {"known", "reconciled", "completed"} => UploadTruth(u, r.outcome)'
  BY UploadTruthStays DEF UploadTells
<1> QED
  BY <1>2, <1>3 DEF UploadTells

(* A runner the step does not move stays sound.                            *)
LEMMA UnmovedUploader ==
  ASSUME UploadTypes, UploadTypes', UploadForward, NEW x \in Upload!Runners,
         UploadRunIsSound(x), run'[x] = run[x]
  PROVE  UploadRunIsSound(x)'
<1>1. PICK r \in UploadRuns : r = run[x]
  BY DEF UploadTypes
<1>2. run'[x] = r /\ run[x] = r /\ r.ack \in Nat /\ r.seen \in UploadRecords
  BY <1>1 DEF UploadRuns
<1>3. CASE r.pc = "idle"
  BY <1>2, <1>3 DEF UploadRunIsSound
<1>4. CASE r.pc # "idle"
  <2>1. PICK u \in Upload!Uploads : u = r.op
    BY <1>2, <1>4 DEF UploadRunIsSound
  <2>2. rec[u] \in UploadRecords /\ rec'[u] \in UploadRecords
    BY DEF UploadTypes
  <2>3. PICK n \in UploadRecords, m \in UploadRecords : n = rec[u] /\ m = rec'[u]
    BY <2>2
  <2>4. RemoteGrows /\ AtMost(n, m)
    BY <2>3 DEF UploadForward
  <2>5. AtMost(r.seen, n) /\ n.state # "none"
    BY <1>2, <1>4, <2>1, <2>3 DEF UploadRunIsSound
  <2>6. /\ AtMost(r.seen, m) /\ m.state # "none"
        /\ Before(r.seen, n) => Before(r.seen, m)
    BY ONLY <1>2, <2>3, <2>4, <2>5, Moving
  <2>7. /\ Holds(u, r.ack) => Holds(u, r.ack)'
        /\ UploadTruth(u, r.answer) => UploadTruth(u, r.answer)'
    BY <1>2, <2>4, HoldsStays, UploadTruthStays
  <2> QED
    BY ONLY UploadRunIsSound(x), <1>2, <1>4, <2>1, <2>3, <2>5, <2>6, <2>7 DEF UploadRunIsSound
<1> QED
  BY <1>3, <1>4

(* A generation that is committed stays so: a record that names one is     *)
(* submitted, and keeps its snapshot.                                      *)
LEMMA LatestStays ==
  ASSUME UploadInv, UploadTypes', UploadForward, latest' = latest, latest > 0,
         \E u \in Upload!Uploads : rec[u].snap = latest /\ u \in remote.done
  PROVE  (\E u \in Upload!Uploads : rec[u].snap = latest /\ u \in remote.done)'
<1>1. PICK u \in Upload!Uploads : rec[u].snap = latest /\ u \in remote.done
  OBVIOUS
<1>2. rec[u].state # "none"
  BY <1>1 DEF UploadInv, UploadTells
<1> QED
  BY <1>1, <1>2 DEF UploadForward, RemoteGrows

(* The entry stays sound when its parts rest.                              *)
LEMMA EntryRests ==
  ASSUME UploadInv, UploadTypes', UploadForward, UNCHANGED <<latest, dirty, reserved>>,
         leases' \subseteq leases
  PROVE  EntryIsSound'
<1>1. (dirty = 0 /\ latest > 0 =>
         \E u \in Upload!Uploads : rec[u].snap = latest /\ u \in remote.done)'
  BY LatestStays DEF UploadInv, EntryIsSound, Upload!NoChangeIsLost
<1> QED
  BY <1>1 DEF UploadInv, EntryIsSound, Upload!NoChangeIsLost

(* A step keeps the invariant when it does so for what it touches.         *)
LEMMA UploadStep ==
  ASSUME UploadInv, UploadTypes', UploadRemote', UploadForward, EntryIsSound',
         \A u \in Upload!Uploads : rec'[u] = rec[u] \/ UploadTells(u, rec[u])',
         \A x \in Upload!Runners : run'[x] = run[x] \/ UploadRunIsSound(x)'
  PROVE  UploadInv'
<1>1. ASSUME NEW u \in Upload!Uploads PROVE UploadTells(u, rec[u])'
  <2>1. CASE rec'[u] = rec[u]
    <3>1. PICK r \in UploadRecords : r = rec[u] /\ r = rec'[u]
      BY <2>1 DEF UploadInv, UploadTypes
    <3>2. UploadTells(u, r)'
      BY <3>1, UploadTellsStays DEF UploadInv, UploadForward
    <3> QED
      BY <3>1, <3>2
  <2> QED
    BY <2>1
<1>2. \A x \in Upload!Runners : UploadRunIsSound(x)'
  BY UnmovedUploader DEF UploadInv
<1> QED
  BY <1>1, <1>2 DEF UploadInv

(* A step that leaves records and entry alone.                             *)
LEMMA UploadKeeps ==
  ASSUME UploadInv, UNCHANGED <<latest, dirty, leases, reserved, rec>>, active' \in Nat,
         remote' \in [open : [Upload!Uploads -> 0 .. Chunks + 1], moved : BOOLEAN,
                       done : SUBSET Upload!Uploads],
         RemoteGrows, UploadRemote', late' \subseteq Upload!Uploads,
         run' \in [Upload!Runners -> UploadRuns],
         \A x \in Upload!Runners : run'[x] = run[x] \/ UploadRunIsSound(x)'
  PROVE  UploadInv'
<1>1. UploadTypes /\ UploadTypes'
  BY DEF UploadInv, UploadTypes
<1>2. UploadForward
  <2>1. \A u \in Upload!Uploads : AtMost(rec[u], rec[u])
    BY <1>1, Moving DEF UploadTypes
  <2> QED
    BY <2>1 DEF UploadForward
<1>3. EntryIsSound'
  BY <1>1, <1>2, EntryRests
<1> QED
  BY <1>1, <1>2, <1>3, UploadStep

(* The remote rests.                                                       *)
LEMMA RestingRemote ==
  ASSUME UploadInv, remote' = remote
  PROVE  /\ remote' \in [open : [Upload!Uploads -> 0 .. Chunks + 1], moved : BOOLEAN,
                          done : SUBSET Upload!Uploads]
         /\ RemoteGrows /\ UploadRemote'
<1>1. \A u \in Upload!Uploads : remote.open[u] \in Nat
  BY BoundsAssumption DEF UploadInv, UploadTypes
<1> QED
  BY <1>1 DEF UploadInv, UploadTypes, RemoteGrows, UploadRemote

-----------------------------------------------------------------------------
(* What a step does to a runner.                                           *)

(* A runner that ends.                                                     *)
LEMMA UploaderRests ==
  ASSUME UploadInv, NEW x \in Upload!Runners, Upload!Ends(x)
  PROVE  /\ run' \in [Upload!Runners -> UploadRuns]
         /\ \A y \in Upload!Runners : run'[y] = run[y] \/ UploadRunIsSound(y)'
<1>1. /\ run' \in [Upload!Runners -> UploadRuns] /\ run'[x] = Upload!Idle
      /\ \A y \in Upload!Runners : y # x => run'[y] = run[y]
  BY UploadRunSet, UploadValues DEF Upload!Ends, UploadInv, UploadTypes
<1>2. UploadRunIsSound(x)'
  BY <1>1, UploadValues DEF UploadRunIsSound
<1> QED
  BY <1>1, <1>2

(* A runner that looks at a submitted record.                              *)
LEMMA UploaderLooks ==
  ASSUME UploadInv, NEW x \in Upload!Runners, NEW u \in Upload!Uploads, NEW g \in Nat,
         NEW r \in UploadRecords, rec'[u] = r, r.state # "none",
         r.state = "intent" <=> r.offset = Chunks + 1,
         run' = [run EXCEPT ![x] = Upload!Looks(u, g, r)]
  PROVE  /\ run' \in [Upload!Runners -> UploadRuns]
         /\ \A y \in Upload!Runners : run'[y] = run[y] \/ UploadRunIsSound(y)'
<1>1. /\ run' \in [Upload!Runners -> UploadRuns] /\ run'[x] = Upload!Looks(u, g, r)
      /\ \A y \in Upload!Runners : y # x => run'[y] = run[y]
  BY UploadRunSet, LooksValue DEF UploadInv, UploadTypes
<1>2. AtMost(r, r)
  BY Moving
<1>3. UploadRunIsSound(x)'
  BY <1>1, <1>2, LooksValue DEF UploadRunIsSound
<1> QED
  BY <1>1, <1>3

(* A runner that takes an answer which is unknown or true.                 *)
LEMMA UploaderIsAnswered ==
  ASSUME UploadInv, NEW x \in Upload!Runners, NEW a \in UploadOutcomes,
         NEW s \in {"committing", "unknown"}, Upload!Asks(x, s), rec' = rec,
         NEW u \in Upload!Uploads, u = run[x].op, a = "unknown" \/ UploadTruth(u, a)',
         Upload!Answered(x, a)
  PROVE  /\ run' \in [Upload!Runners -> UploadRuns]
         /\ \A y \in Upload!Runners : run'[y] = run[y] \/ UploadRunIsSound(y)'
<1>1. /\ run' \in [Upload!Runners -> UploadRuns]
      /\ run'[x].pc = "answered" /\ run'[x].answer = a /\ run'[x].op = u
      /\ run'[x].seen = run[x].seen
      /\ \A y \in Upload!Runners : y # x => run'[y] = run[y]
  BY UploadRunAnswered, Zenon DEF UploadInv, UploadTypes
<1>2. UploadRunIsSound(x) /\ run[x].pc = "act" /\ run[x].seen.state = s
  BY DEF UploadInv, Upload!Asks
<1>3. UploadRunIsSound(x)'
  BY ONLY <1>1, <1>2, rec' = rec, u = run[x].op, a = "unknown" \/ UploadTruth(u, a)',
          s \in {"committing", "unknown"}
     DEF UploadRunIsSound, UploadTruth
<1> QED
  BY <1>1, <1>3

(* A runner that is told of chunks which are there.                        *)
LEMMA UploaderIsAccepted ==
  ASSUME UploadInv, NEW x \in Upload!Runners, NEW n \in Nat,
         NEW s \in {"intent", "uploading"}, Upload!Asks(x, s), rec' = rec,
         NEW u \in Upload!Uploads, u = run[x].op, Holds(u, n)',
         s = "uploading" => n = run[x].seen.offset + 1, Upload!Accepted(x, n)
  PROVE  /\ run' \in [Upload!Runners -> UploadRuns]
         /\ \A y \in Upload!Runners : run'[y] = run[y] \/ UploadRunIsSound(y)'
<1>1. /\ run' \in [Upload!Runners -> UploadRuns]
      /\ run'[x].pc = "answered" /\ run'[x].ack = n /\ run'[x].op = u
      /\ run'[x].seen = run[x].seen
      /\ \A y \in Upload!Runners : y # x => run'[y] = run[y]
  BY UploadRunAccepted, Zenon DEF UploadInv, UploadTypes
<1>2. UploadRunIsSound(x) /\ run[x].pc = "act" /\ run[x].seen.state = s
  BY DEF UploadInv, Upload!Asks
<1>3. UploadRunIsSound(x)'
  BY ONLY <1>1, <1>2, rec' = rec, u = run[x].op, Holds(u, n)',
          s \in {"intent", "uploading"}, s = "uploading" => n = run[x].seen.offset + 1
     DEF UploadRunIsSound, Holds
<1> QED
  BY <1>1, <1>3

(* A call of the store that is sound for what the runner saw.              *)
LEMMA UploadCall ==
  ASSUME UploadInv, NEW x \in Upload!Runners, NEW t, NEW a,
         NEW u \in Upload!Uploads, u = run[x].op,
         run[x].pc \in {"act", "answered"},
         run[x].seen.state = "unknown" => run[x].answer = a,
         UploadSound(u, rec[u], t, run[x].seen, a),
         Upload!StoreCall(x, t), UNCHANGED <<active, latest, reserved, remote, late>>,
         dirty' \in Nat
  PROVE  /\ UploadTypes' /\ UploadRemote' /\ UploadForward
         /\ rec'[u] = rec[u] \/ rec'[u] = t.rec
         /\ EntryIsSound' => UploadInv'
<1>1. /\ UploadTypes /\ UploadRunIsSound(x) /\ run[x] \in UploadRuns
      /\ rec[u] \in UploadRecords /\ run[x].seen \in UploadRecords
  BY DEF UploadInv, UploadTypes, UploadRuns
<1>2. RemoteGrows /\ UploadRemote'
  BY RestingRemote
<1>3. \A v \in Upload!Uploads : AtMost(rec[v], rec[v])
  BY <1>1, Moving DEF UploadTypes
<1>4. /\ rec[u].state # "none" /\ AtMost(run[x].seen, rec[u])
      /\ run[x].seen.state \notin {"none", "completed"}
      /\ run[x].seen.state = "intent" <=> run[x].seen.offset = Chunks + 1
  BY <1>1 DEF UploadRunIsSound
<1>5. CASE run[x].gen # active
  <2>0. rec' = rec
    BY <1>5, Zenon DEF Upload!StoreCall
  <2>1. run' = [run EXCEPT ![x].pc = "observe", ![x].status = "fenced"]
    BY <1>5, Zenon DEF Upload!StoreCall
  <2>2. /\ run' \in [Upload!Runners -> UploadRuns]
        /\ run'[x].pc = "observe" /\ run'[x].status = "fenced" /\ run'[x].op = u
        /\ run'[x].seen = run[x].seen
        /\ \A y \in Upload!Runners : y # x => run'[y] = run[y]
    BY <1>1, <2>1, UploadRunCalled, Zenon DEF UploadTypes
  <2>3. UploadTypes'
    BY <1>1, <2>0, <2>2 DEF UploadTypes
  <2>4. UploadForward
    BY <1>2, <1>3, <2>0 DEF UploadForward
  <2>5. UploadRunIsSound(x)'
    BY ONLY <1>4, <2>0, <2>2, u \in Upload!Uploads DEF UploadRunIsSound
  <2> QED
    BY <1>2, <2>0, <2>2, <2>3, <2>4, <2>5, UploadStep, Zenon
<1>6. CASE run[x].gen = active /\ t.status = "error"
  <2>1. rec' = rec /\ Upload!Ends(x)
    BY <1>6, Zenon DEF Upload!StoreCall
  <2>2. /\ run' \in [Upload!Runners -> UploadRuns]
        /\ \A y \in Upload!Runners : run'[y] = run[y] \/ UploadRunIsSound(y)'
    BY <2>1, UploaderRests
  <2>3. UploadTypes'
    BY <1>1, <2>1, <2>2 DEF UploadTypes
  <2>4. UploadForward
    BY <1>2, <1>3, <2>1 DEF UploadForward
  <2> QED
    BY <1>2, <2>1, <2>2, <2>3, <2>4, UploadStep
<1>7. CASE run[x].gen = active /\ t.status # "error"
  <2> DEFINE n == t.rec
             s == t.status
  <2>1. /\ rec' = [rec EXCEPT ![u] = n]
        /\ run' = [run EXCEPT ![x].pc = "observe", ![x].status = s]
    BY <1>7, Zenon DEF Upload!StoreCall
  <2>2. /\ n \in UploadRecords /\ s \in {"applied", "already", "fenced"}
        /\ AtMost(rec[u], n) /\ n.snap = rec[u].snap
        /\ UploadTells(u, n)
        /\ \/ s = "fenced"
           \/ Before(run[x].seen, n)
           \/ run[x].seen.state = "unknown" /\ a = "unknown" /\ s = "already"
    BY <1>7, Zenon DEF UploadSound
  <2> HIDE DEF n, s
  <2>3. /\ run' \in [Upload!Runners -> UploadRuns]
        /\ run'[x].pc = "observe" /\ run'[x].status = s /\ run'[x].op = u
        /\ run'[x].seen = run[x].seen /\ run'[x].answer = run[x].answer
        /\ \A y \in Upload!Runners : y # x => run'[y] = run[y]
    BY <1>1, <2>1, <2>2, UploadRunCalled, Zenon DEF UploadTypes
  <2>4. /\ rec' \in [Upload!Uploads -> UploadRecords] /\ rec'[u] = n
        /\ \A v \in Upload!Uploads : v # u => rec'[v] = rec[v]
    BY <1>1, <2>1, <2>2, Zenon DEF UploadTypes
  <2>5. UploadTypes'
    BY <1>1, <2>3, <2>4 DEF UploadTypes
  <2>6. UploadForward
    BY ONLY <1>2, <1>3, <2>2, <2>4 DEF UploadForward
  <2>7. UploadTells(u, rec[u])'
    BY ONLY <2>2, <2>4, UNCHANGED <<active, latest, reserved, remote, late>>
       DEF UploadTells, UploadTruth, Holds
  <2>8. UploadRunIsSound(x)'
    <3>1. n.state # "none" /\ AtMost(run[x].seen, n)
      BY ONLY <1>1, <1>4, <2>2, Moving
    <3> QED
      BY ONLY <1>4, <2>2, <2>3, <2>4, <3>1, u \in Upload!Uploads,
              run[x].seen.state = "unknown" => run[x].answer = a
         DEF UploadRunIsSound
  <2> QED
    BY <1>2, <2>3, <2>4, <2>5, <2>6, <2>7, <2>8, UploadStep, Zenon DEF n
<1> QED
  BY <1>5, <1>6, <1>7

-----------------------------------------------------------------------------
(* The actions of the upload.                                              *)

(* Nothing is uploaded at first.                                           *)
LEMMA UploadInit == Upload!Init => UploadInv
<1> SUFFICES ASSUME Upload!Init PROVE UploadInv
  OBVIOUS
<1>1. /\ \A u \in Upload!Uploads : rec[u] = Upload!NoRecord
      /\ \A x \in Upload!Runners : run[x] = Upload!Idle
      /\ remote.done = {} /\ dirty = 0 /\ latest = 0 /\ reserved = FALSE
  BY DEF Upload!Init
<1>2. UploadTypes
  <2>1. Upload!NoSession \in 0 .. Chunks + 1
    BY UploadValues, BoundsAssumption
  <2> QED
    BY <2>1, UploadValues DEF Upload!Init, UploadTypes
<1>3. \A u \in Upload!Uploads : UploadTells(u, rec[u])
  BY <1>1, UploadValues DEF UploadTells
<1>4. \A x \in Upload!Runners : UploadRunIsSound(x)
  BY <1>1, UploadValues DEF UploadRunIsSound
<1>5. EntryIsSound /\ UploadRemote
  BY <1>1 DEF EntryIsSound, Upload!NoChangeIsLost, UploadRemote
<1> QED
  BY <1>2, <1>3, <1>4, <1>5 DEF UploadInv

(* An edit makes the entry dirty with the latest generation; an eviction   *)
(* takes a clean entry and gives it back; a session changes who may write. *)
LEMMA EntryKeeps ==
  ASSUME UploadInv,
         \/ \E g \in 1 .. MaxEdits : Upload!MarkDirty(g)
         \/ Upload!BeginEviction \/ Upload!CompleteEviction \/ Upload!ActivateGeneration
  PROVE  UploadInv'
<1>1. UNCHANGED <<rec, run, remote, late>>
  BY DEF Upload!MarkDirty, Upload!BeginEviction, Upload!CompleteEviction,
         Upload!ActivateGeneration
<1>2. RemoteGrows /\ UploadRemote' /\ UploadTypes
  BY <1>1, RestingRemote DEF UploadInv
<1>3. UploadForward
  <2>1. \A u \in Upload!Uploads : AtMost(rec[u], rec[u])
    BY <1>2, Moving DEF UploadTypes
  <2> QED
    BY <1>1, <1>2, <2>1 DEF UploadForward
<1>4. UploadTypes' /\ EntryIsSound'
  <2>1. ASSUME NEW g \in 1 .. MaxEdits, Upload!MarkDirty(g) PROVE UploadTypes' /\ EntryIsSound'
    <3>1. /\ g \in Nat /\ g # 0 /\ g \in {latest, latest + 1} /\ latest' = g
          /\ dirty' = IF dirty < g THEN g ELSE dirty
          /\ reserved = FALSE /\ reserved' = FALSE /\ active' = active
      BY <1>2, <2>1 DEF Upload!MarkDirty, UploadTypes
    <3>2. dirty \in Nat /\ latest \in Nat /\ dirty \in {0, latest}
      BY DEF UploadInv, UploadTypes, EntryIsSound
    <3>3. dirty' = g
      BY <3>1, <3>2
    <3> QED
      BY <1>1, <1>2, <3>1, <3>3 DEF UploadTypes, EntryIsSound, Upload!NoChangeIsLost
  <2>2. CASE Upload!BeginEviction
    BY <1>1, <1>2, <2>2 DEF Upload!BeginEviction, UploadInv, UploadTypes, EntryIsSound,
                            Upload!NoChangeIsLost
  <2>3. CASE Upload!CompleteEviction
    BY <1>1, <1>2, <2>3 DEF Upload!CompleteEviction, UploadInv, UploadTypes, EntryIsSound,
                            Upload!NoChangeIsLost
  <2>4. CASE Upload!ActivateGeneration
    BY <1>1, <1>2, <2>4 DEF Upload!ActivateGeneration, Upload!entry, UploadInv, UploadTypes,
                            EntryIsSound, Upload!NoChangeIsLost
  <2> QED
    BY <2>1, <2>2, <2>3, <2>4
<1> QED
  BY <1>1, <1>2, <1>3, <1>4, UploadStep

(* submit takes the dirty snapshot as it is.                               *)
LEMMA UploadSubmitKeeps ==
  ASSUME UploadInv, NEW x \in Upload!Runners, NEW u \in Upload!Uploads, Upload!Submit(x, u)
  PROVE  UploadInv'
<1>1. /\ UNCHANGED <<active, latest, dirty, reserved, remote, late>>
      /\ dirty # 0 /\ reserved = FALSE /\ rec[u].state = "none"
  BY DEF Upload!Submit, Upload!Fresh, UploadInv, UploadTypes
<1>2. UploadTypes /\ RemoteGrows /\ UploadRemote'
  BY <1>1, RestingRemote DEF UploadInv
<1>3. PICK r : r = [Upload!NoRecord EXCEPT !.state = "intent", !.snap = dirty]
  BY Zenon
<1>4. /\ r \in UploadRecords /\ r.state = "intent" /\ r.outcome = "none"
      /\ r.offset = Chunks + 1
  <2>1. dirty \in Nat /\ Upload!NoRecord \in UploadRecords
    BY <1>2, UploadValues DEF UploadTypes
  <2>2. /\ r \in UploadRecords /\ r.state = "intent"
        /\ r.outcome = Upload!NoRecord.outcome /\ r.offset = Upload!NoRecord.offset
    BY ONLY <1>3, <2>1, Zenon DEF UploadRecords
  <2> QED
    BY <2>2, UploadValues
<1>5. rec' = [rec EXCEPT ![u] = r]
  BY <1>3, Zenon DEF Upload!Submit
<1>6. /\ rec' \in [Upload!Uploads -> UploadRecords] /\ rec'[u] = r
      /\ \A v \in Upload!Uploads : v # u => rec'[v] = rec[v]
  BY <1>2, <1>4, <1>5, Zenon DEF UploadTypes
<1>7. PICK g \in Nat : g = active
  BY <1>2 DEF UploadTypes
<1>8. run' = [run EXCEPT ![x] = Upload!Looks(u, g, r)]
  BY <1>6, <1>7, Zenon DEF Upload!Submit
<1>9. /\ run' \in [Upload!Runners -> UploadRuns]
      /\ \A y \in Upload!Runners : run'[y] = run[y] \/ UploadRunIsSound(y)'
  BY ONLY UploadInv, <1>4, <1>6, <1>8, UploaderLooks
<1>10. UploadTypes'
  BY ONLY <1>1, <1>2, <1>6, <1>9 DEF UploadTypes
<1>11. UploadForward
  <2>1. \A v \in Upload!Uploads : AtMost(rec[v], rec[v])
    BY <1>2, Moving DEF UploadTypes
  <2>2. AtMost(rec[u], r)
    BY ONLY <1>1, <1>4, UploadRanks DEF AtMost, Before
  <2> QED
    BY ONLY <1>1, <1>2, <1>6, <2>1, <2>2 DEF UploadForward
<1>12. EntryIsSound'
  BY ONLY <1>1, UploadInv DEF UploadInv, EntryIsSound, Upload!NoChangeIsLost
<1>13. UploadTells(u, rec[u])'
  BY ONLY <1>4, <1>6 DEF UploadTells
<1> QED
  BY ONLY UploadInv, <1>2, <1>6, <1>9, <1>10, <1>11, <1>12, <1>13, UploadStep

(* A resumed upload starts from its record.                                *)
LEMMA UploadResumeKeeps ==
  ASSUME UploadInv, NEW x \in Upload!Runners, NEW u \in Upload!Uploads, Upload!Resume(x, u)
  PROVE  UploadInv'
<1>1. /\ UNCHANGED <<active, latest, dirty, leases, reserved, rec, remote, late>>
      /\ rec[u].state # "none"
  BY DEF Upload!Resume, Upload!entry
<1>2. UploadTypes /\ UploadTells(u, rec[u])
  BY DEF UploadInv
<1>3. PICK g \in Nat, r \in UploadRecords : g = active /\ r = rec[u]
  BY <1>2 DEF UploadTypes
<1>4. run' = [run EXCEPT ![x] = Upload!Looks(u, g, r)]
  BY <1>3, Zenon DEF Upload!Resume
<1>5. /\ rec'[u] = r /\ r.state # "none"
      /\ r.state = "intent" <=> r.offset = Chunks + 1
  BY <1>1, <1>2, <1>3 DEF UploadTells
<1>6. /\ run' \in [Upload!Runners -> UploadRuns]
      /\ \A y \in Upload!Runners : run'[y] = run[y] \/ UploadRunIsSound(y)'
  BY ONLY UploadInv, <1>3, <1>4, <1>5, UploaderLooks
<1>7. active' \in Nat /\ late' \subseteq Upload!Uploads
  BY <1>1, <1>2 DEF UploadTypes
<1> QED
  BY ONLY UploadInv, <1>1, <1>6, <1>7, RestingRemote, UploadKeeps

(* Nobody is taken for stuck: no record comes before itself.               *)
LEMMA UploadObserveKeeps ==
  ASSUME UploadInv, NEW x \in Upload!Runners, Upload!Observe(x)
  PROVE  UploadInv'
<1>1. /\ UNCHANGED <<active, latest, dirty, leases, reserved, rec, remote, late>>
      /\ run[x].pc = "observe"
  BY DEF Upload!Observe, Upload!entry
<1>2. UploadTypes /\ UploadRunIsSound(x) /\ run[x] \in UploadRuns
  BY DEF UploadInv, UploadTypes
<1>3. PICK u \in Upload!Uploads, g \in Nat : u = run[x].op /\ g = run[x].gen
  BY <1>1, <1>2 DEF UploadRunIsSound, UploadRuns
<1>4. PICK r \in UploadRecords : r = rec[u]
  BY <1>2 DEF UploadTypes
<1>5. /\ rec'[u] = r /\ r.state # "none"
      /\ r.state = "intent" <=> r.offset = Chunks + 1
  BY <1>1, <1>2, <1>3, <1>4 DEF UploadRunIsSound, UploadInv, UploadTells
<1>6. r = run[x].seen => \/ run[x].status = "fenced"
                         \/ /\ run[x].seen.state = "unknown" /\ run[x].answer = "unknown"
                            /\ run[x].status = "already"
  <2>1. ~Before(r, r)
    BY ONLY <1>4, Moving
  <2> QED
    BY ONLY <1>1, <1>2, <1>3, <1>4, <2>1 DEF UploadRunIsSound
<1>7. Upload!Ends(x) \/ run' = [run EXCEPT ![x] = Upload!Looks(u, g, r)]
  BY <1>3, <1>4, <1>6, Zenon DEF Upload!Observe, Upload!Ends
<1>8. /\ run' \in [Upload!Runners -> UploadRuns]
      /\ \A y \in Upload!Runners : run'[y] = run[y] \/ UploadRunIsSound(y)'
  BY ONLY UploadInv, <1>3, <1>4, <1>5, <1>7, UploaderRests, UploaderLooks
<1>9. active' \in Nat /\ late' \subseteq Upload!Uploads
  BY <1>1, <1>2 DEF UploadTypes
<1> QED
  BY ONLY UploadInv, <1>1, <1>8, <1>9, RestingRemote, UploadKeeps

(* What holds of a runner that is about to call the store.                 *)
LEMMA Uploading ==
  ASSUME UploadInv, NEW x \in Upload!Runners, run[x].pc # "idle"
  PROVE  /\ run[x].op \in Upload!Uploads /\ rec[run[x].op] \in UploadRecords
         /\ UploadTells(run[x].op, rec[run[x].op])
         /\ run[x].seen \in UploadRecords /\ AtMost(run[x].seen, rec[run[x].op])
         /\ run[x].seen.state = "intent" <=> run[x].seen.offset = Chunks + 1
BY DEF UploadInv, UploadTypes, UploadRuns, UploadRunIsSound

(* Session, chunk offset or outcome are recorded as the remote said.       *)
LEMMA UploadRecordKeeps ==
  ASSUME UploadInv, NEW x \in Upload!Runners, Upload!Record(x)
  PROVE  UploadInv'
<1>1. /\ UNCHANGED <<active, latest, dirty, leases, reserved, remote, late>>
      /\ run[x].pc = "answered"
  BY DEF Upload!Record, Upload!entry
<1>2. PICK u \in Upload!Uploads : u = run[x].op
  BY <1>1, Uploading
<1>3. /\ UploadTypes /\ UploadRunIsSound(x) /\ run[x] \in UploadRuns
      /\ rec[u] \in UploadRecords /\ UploadTells(u, rec[u])
      /\ run[x].seen \in UploadRecords /\ AtMost(run[x].seen, rec[u])
      /\ run[x].ack \in Nat /\ run[x].answer \in UploadOutcomes
  BY <1>1, <1>2, Uploading DEF UploadInv, UploadTypes, UploadRuns
<1>4. PICK a : a = run[x].answer
  OBVIOUS
<1>5. PICK t : /\ Upload!StoreCall(x, t) /\ UploadSound(u, rec[u], t, run[x].seen, a)
  <2>1. CASE run[x].seen.state \in {"intent", "uploading"}
    <3>1. Upload!StoreCall(x, Upload!RecordSession(rec[u], run[x].ack))
      BY <1>2, <2>1, Zenon DEF Upload!Record
    <3>2. /\ Holds(u, run[x].ack)
          /\ run[x].seen.state = "uploading" => run[x].ack = run[x].seen.offset + 1
      BY <1>1, <1>2, <1>3, <2>1 DEF UploadRunIsSound
    <3>3. UploadSound(u, rec[u], Upload!RecordSession(rec[u], run[x].ack), run[x].seen, a)
      BY ONLY <1>2, <1>3, <2>1, <3>2, SessionIsSound
    <3> QED
      BY <3>1, <3>3, Zenon
  <2>2. CASE run[x].seen.state \notin {"intent", "uploading"}
    <3>1. Upload!StoreCall(x, Upload!RecordRemoteOutcome(rec[u], a))
      BY <1>2, <1>4, <2>2, Zenon DEF Upload!Record
    <3>2. /\ run[x].seen.state \in {"committing", "unknown"}
          /\ a = "unknown" \/ UploadTruth(u, a)
      BY <1>1, <1>2, <1>3, <1>4, <2>2 DEF UploadRunIsSound
    <3>3. UploadSound(u, rec[u], Upload!RecordRemoteOutcome(rec[u], a), run[x].seen, a)
      BY ONLY <1>2, <1>3, <1>4, <3>2, OutcomeIsSound
    <3> QED
      BY <3>1, <3>3, Zenon
  <2> QED
    BY <2>1, <2>2
<1>6. /\ run[x].pc \in {"act", "answered"} /\ dirty' \in Nat
      /\ run[x].seen.state = "unknown" => run[x].answer = a
      /\ leases' \subseteq leases
  BY <1>1, <1>3, <1>4 DEF UploadTypes
<1>7. UploadTypes' /\ UploadForward /\ (EntryIsSound' => UploadInv')
  BY ONLY UploadInv, <1>1, <1>2, <1>5, <1>6, UploadCall
<1> QED
  BY ONLY UploadInv, <1>1, <1>6, <1>7, EntryRests

(* begin_remote_commit after the last chunk.                               *)
LEMMA BeginCommitKeeps ==
  ASSUME UploadInv, NEW x \in Upload!Runners, Upload!BeginCommit(x)
  PROVE  UploadInv'
<1>1. /\ UNCHANGED <<active, latest, dirty, leases, reserved, remote, late>>
      /\ run[x].pc = "act" /\ run[x].seen.state = "uploading" /\ run[x].seen.offset = Chunks
  BY DEF Upload!BeginCommit, Upload!Asks, Upload!entry
<1>2. PICK u \in Upload!Uploads : u = run[x].op
  BY <1>1, Uploading
<1>3. PICK t : t = Upload!BeginRemoteCommit(rec[u])
  BY Zenon
<1>4. /\ rec[u] \in UploadRecords /\ UploadTells(u, rec[u]) /\ run[x].seen \in UploadRecords
      /\ AtMost(run[x].seen, rec[u])
  BY <1>1, <1>2, Uploading
<1>5. UploadSound(u, rec[u], t, run[x].seen, "none")
  BY ONLY <1>1, <1>2, <1>3, <1>4, BeginCommitIsSound
<1>6. Upload!StoreCall(x, t)
  BY <1>2, <1>3, Zenon DEF Upload!BeginCommit
<1>7. /\ run[x].pc \in {"act", "answered"} /\ dirty' \in Nat
      /\ run[x].seen.state # "unknown" /\ leases' \subseteq leases
  BY <1>1 DEF UploadInv, UploadTypes
<1>8. UploadTypes' /\ UploadForward /\ (EntryIsSound' => UploadInv')
  BY ONLY UploadInv, <1>1, <1>2, <1>5, <1>6, <1>7, UploadCall
<1> QED
  BY ONLY UploadInv, <1>1, <1>7, <1>8, EntryRests

(* The dirty generation is cleared only for the snapshot that is committed *)
(* remotely.                                                               *)
LEMMA ReconcileKeeps ==
  ASSUME UploadInv, NEW x \in Upload!Runners, Upload!ReconcileMetadata(x)
  PROVE  UploadInv'
<1>1. /\ UNCHANGED <<active, latest, leases, reserved, remote, late>>
      /\ run[x].pc = "act" /\ run[x].seen.state = "known"
  BY DEF Upload!ReconcileMetadata, Upload!Asks
<1>2. PICK u \in Upload!Uploads : u = run[x].op
  BY <1>1, Uploading
<1>3. PICK t : t = Upload!MarkMetadataReconciled(rec[u])
  BY Zenon
<1>4. /\ rec[u] \in UploadRecords /\ UploadTells(u, rec[u]) /\ run[x].seen \in UploadRecords
      /\ AtMost(run[x].seen, rec[u])
  BY <1>1, <1>2, Uploading
<1>5. /\ UploadSound(u, rec[u], t, run[x].seen, "none")
      /\ t.rec # rec[u] => UploadTruth(u, rec[u].outcome)
  BY ONLY <1>1, <1>2, <1>3, <1>4, MarkReconciledIsSound
<1>6. Upload!StoreCall(x, t)
  BY <1>2, <1>3, Zenon DEF Upload!ReconcileMetadata
<1>7. dirty' = IF rec'[u] # rec[u] /\ Upload!Committed(rec[u].outcome)
               THEN Upload!ClearDirty(rec[u].snap) ELSE dirty
  BY <1>2, Zenon DEF Upload!ReconcileMetadata
<1>8. /\ dirty \in Nat /\ latest \in Nat /\ dirty \in {0, latest} /\ dirty' \in {0, dirty}
      /\ dirty' # dirty => /\ dirty = rec[u].snap /\ rec'[u] # rec[u]
                           /\ Upload!Committed(rec[u].outcome)
  BY ONLY UploadInv, <1>7 DEF Upload!ClearDirty, UploadInv, UploadTypes, EntryIsSound
<1>9. /\ run[x].pc \in {"act", "answered"} /\ dirty' \in Nat /\ run[x].seen.state # "unknown"
  BY ONLY <1>1, <1>8
<1>10. /\ UploadTypes' /\ UploadForward /\ (rec'[u] = rec[u] \/ rec'[u] = t.rec)
       /\ EntryIsSound' => UploadInv'
  BY ONLY UploadInv, <1>1, <1>2, <1>5, <1>6, <1>9, UploadCall
<1>11. CASE dirty' = dirty
  <2>1. leases' \subseteq leases
    BY <1>1
  <2> QED
    BY ONLY UploadInv, <1>1, <1>10, <1>11, <2>1, EntryRests
<1>12. CASE dirty' # dirty
  <2>1. dirty' = 0 /\ rec[u].snap = latest /\ u \in remote.done
    BY ONLY <1>5, <1>8, <1>10, <1>12 DEF UploadTruth, Upload!Committed
  <2>2. latest > 0 =>
          (\E v \in Upload!Uploads : rec[v].snap = latest /\ v \in remote.done)'
    BY ONLY UploadInv, <1>1, <1>2, <1>10, <2>1, LatestStays
  <2>3. (reserved => dirty = 0 /\ leases = {})'
    BY ONLY UploadInv, <1>1, <2>1 DEF UploadInv, EntryIsSound, Upload!NoChangeIsLost
  <2>4. EntryIsSound'
    BY ONLY <1>1, <2>1, <2>2, <2>3 DEF EntryIsSound, Upload!NoChangeIsLost
  <2> QED
    BY <1>10, <2>4
<1> QED
  BY <1>11, <1>12

(* Completion gives the lease back.                                        *)
LEMMA UploadCompleteKeeps ==
  ASSUME UploadInv, NEW x \in Upload!Runners, Upload!CompleteUpload(x)
  PROVE  UploadInv'
<1>1. /\ UNCHANGED <<active, latest, dirty, reserved, remote, late>>
      /\ run[x].pc = "act" /\ run[x].seen.state = "reconciled" /\ leases' \subseteq leases
  BY DEF Upload!CompleteUpload, Upload!Asks
<1>2. PICK u \in Upload!Uploads : u = run[x].op
  BY <1>1, Uploading
<1>3. PICK t : t = Upload!Complete(rec[u])
  BY Zenon
<1>4. /\ rec[u] \in UploadRecords /\ UploadTells(u, rec[u]) /\ run[x].seen \in UploadRecords
      /\ AtMost(run[x].seen, rec[u])
  BY <1>1, <1>2, Uploading
<1>5. UploadSound(u, rec[u], t, run[x].seen, "none")
  BY ONLY <1>1, <1>2, <1>3, <1>4, CompleteIsSound
<1>6. Upload!StoreCall(x, t)
  BY <1>2, <1>3, Zenon DEF Upload!CompleteUpload
<1>7. /\ run[x].pc \in {"act", "answered"} /\ dirty' \in Nat /\ run[x].seen.state # "unknown"
  BY <1>1 DEF UploadInv, UploadTypes
<1>8. UploadTypes' /\ UploadForward /\ (EntryIsSound' => UploadInv')
  BY ONLY UploadInv, <1>1, <1>2, <1>5, <1>6, <1>7, UploadCall
<1> QED
  BY ONLY UploadInv, <1>1, <1>8, EntryRests

-----------------------------------------------------------------------------
(* The steps of the remote.                                                *)

(* More chunks of one upload.                                              *)
LEMMA SessionGrows ==
  ASSUME UploadInv, NEW u \in Upload!Uploads, NEW n \in 0 .. Chunks,
         remote.open[u] # Chunks + 1 => remote.open[u] <= n,
         u \in remote.done => n = Chunks,
         remote' = [remote EXCEPT !.open[u] = n]
  PROVE  /\ remote' \in [open : [Upload!Uploads -> 0 .. Chunks + 1], moved : BOOLEAN,
                          done : SUBSET Upload!Uploads]
         /\ RemoteGrows /\ UploadRemote' /\ Holds(u, n)'
<1>1. /\ remote \in [open : [Upload!Uploads -> 0 .. Chunks + 1], moved : BOOLEAN,
                      done : SUBSET Upload!Uploads]
      /\ \A v \in Upload!Uploads : remote.open[v] \in Nat
      /\ n \in 0 .. Chunks + 1 /\ n \in Nat /\ n # Chunks + 1
  BY BoundsAssumption DEF UploadInv, UploadTypes
<1>2. /\ remote' \in [open : [Upload!Uploads -> 0 .. Chunks + 1], moved : BOOLEAN,
                       done : SUBSET Upload!Uploads]
      /\ remote'.open[u] = n /\ \A v \in Upload!Uploads : v # u => remote'.open[v] = remote.open[v]
      /\ remote'.moved = remote.moved /\ remote'.done = remote.done
  BY ONLY <1>1, u \in Upload!Uploads, remote' = [remote EXCEPT !.open[u] = n], Zenon
<1>3. RemoteGrows
  BY ONLY <1>1, <1>2, remote.open[u] # Chunks + 1 => remote.open[u] <= n DEF RemoteGrows
<1>4. UploadRemote'
  BY ONLY UploadInv, <1>1, <1>2, u \in remote.done => n = Chunks DEF UploadInv, UploadRemote
<1>5. Holds(u, n)'
  BY ONLY <1>1, <1>2 DEF Holds
<1> QED
  BY <1>2, <1>3, <1>4, <1>5

(* At most one upload commits, with all its chunks.                        *)
LEMMA CommitEffect ==
  ASSUME UploadInv, NEW u \in Upload!Uploads, remote' = Upload!Commit(u)
  PROVE  /\ remote' \in [open : [Upload!Uploads -> 0 .. Chunks + 1], moved : BOOLEAN,
                          done : SUBSET Upload!Uploads]
         /\ RemoteGrows /\ UploadRemote'
<1>1. CASE u \notin remote.done /\ remote.open[u] = Chunks /\ ~remote.moved
  <2>1. remote' = [remote EXCEPT !.moved = TRUE, !.done = @ \cup {u}]
    BY <1>1, Zenon DEF Upload!Commit
  <2>2. /\ remote \in [open : [Upload!Uploads -> 0 .. Chunks + 1], moved : BOOLEAN,
                        done : SUBSET Upload!Uploads]
        /\ \A v \in Upload!Uploads : remote.open[v] \in Nat
    BY BoundsAssumption DEF UploadInv, UploadTypes
  <2>3. /\ remote' \in [open : [Upload!Uploads -> 0 .. Chunks + 1], moved : BOOLEAN,
                         done : SUBSET Upload!Uploads]
        /\ remote'.open = remote.open /\ remote'.moved = TRUE
        /\ remote'.done = remote.done \cup {u}
    BY ONLY <2>1, <2>2, u \in Upload!Uploads, Zenon
  <2>4. RemoteGrows
    BY ONLY <1>1, <2>2, <2>3 DEF RemoteGrows
  <2>5. UploadRemote'
    BY ONLY UploadInv, <1>1, <2>3 DEF UploadInv, UploadRemote
  <2> QED
    BY <2>3, <2>4, <2>5
<1>2. CASE ~(u \notin remote.done /\ remote.open[u] = Chunks /\ ~remote.moved)
  <2>1. remote' = remote
    BY <1>2, Zenon DEF Upload!Commit
  <2> QED
    BY <2>1, RestingRemote
<1> QED
  BY <1>1, <1>2

(* What the remote says of an upload is unknown or true.                   *)
LEMMA UploadVerdict ==
  ASSUME UploadInv, NEW u \in Upload!Uploads
  PROVE  /\ Upload!Verdict(u, remote) \in UploadOutcomes
         /\ \/ Upload!Verdict(u, remote) = "unknown"
            \/ UploadTruth(u, Upload!Verdict(u, remote))
<1>1. remote.moved \in BOOLEAN
  BY DEF UploadInv, UploadTypes
<1> QED
  BY <1>1, Zenon DEF Upload!Verdict, UploadOutcomes, UploadTruth, Upload!Committed

(* A session opens once, and a second start finds it.                      *)
LEMMA StartKeeps ==
  ASSUME UploadInv, NEW x \in Upload!Runners, Upload!StartUpload(x)
  PROVE  UploadInv'
<1>1. /\ UNCHANGED <<active, latest, dirty, leases, reserved, rec, late>>
      /\ Upload!Asks(x, "intent") /\ run[x].pc = "act"
  BY DEF Upload!StartUpload, Upload!Asks, Upload!entry
<1>2. PICK u \in Upload!Uploads : u = run[x].op
  BY <1>1, Uploading
<1>3. PICK n : n = IF remote.open[u] = Upload!NoSession THEN 0 ELSE remote.open[u]
  BY Zenon
<1>4. /\ n \in 0 .. Chunks /\ n \in Nat
      /\ remote.open[u] # Chunks + 1 => remote.open[u] <= n
      /\ u \in remote.done => n = Chunks
  <2>1. remote.open[u] \in 0 .. Chunks + 1 /\ (u \in remote.done => remote.open[u] = Chunks)
    BY DEF UploadInv, UploadTypes, UploadRemote
  <2> QED
    BY ONLY <1>3, <2>1, UploadValues, BoundsAssumption
<1>5. remote' = [remote EXCEPT !.open[u] = n] /\ Upload!Accepted(x, n)
  BY <1>2, <1>3, Zenon DEF Upload!StartUpload
<1>6. /\ remote' \in [open : [Upload!Uploads -> 0 .. Chunks + 1], moved : BOOLEAN,
                       done : SUBSET Upload!Uploads]
      /\ RemoteGrows /\ UploadRemote' /\ Holds(u, n)'
  BY ONLY UploadInv, <1>2, <1>4, <1>5, SessionGrows
<1>7. /\ run' \in [Upload!Runners -> UploadRuns]
      /\ \A y \in Upload!Runners : run'[y] = run[y] \/ UploadRunIsSound(y)'
  BY ONLY UploadInv, <1>1, <1>2, <1>4, <1>5, <1>6, UploaderIsAccepted
<1>8. active' \in Nat /\ late' \subseteq Upload!Uploads
  BY <1>1 DEF UploadInv, UploadTypes
<1> QED
  BY ONLY UploadInv, <1>1, <1>6, <1>7, <1>8, UploadKeeps

(* A chunk is accepted in order, or was accepted before.                   *)
LEMMA ChunkKeeps ==
  ASSUME UploadInv, NEW x \in Upload!Runners, Upload!UploadChunk(x)
  PROVE  UploadInv'
<1>1. /\ UNCHANGED <<active, latest, dirty, leases, reserved, rec, late>>
      /\ Upload!Asks(x, "uploading") /\ run[x].pc = "act" /\ run[x].seen.state = "uploading"
  BY DEF Upload!UploadChunk, Upload!Asks, Upload!entry
<1>2. PICK u \in Upload!Uploads : u = run[x].op
  BY <1>1, Uploading
<1>3. active' \in Nat /\ late' \subseteq Upload!Uploads
  BY <1>1 DEF UploadInv, UploadTypes
<1>4. /\ run[x].seen \in UploadRecords /\ rec[u] \in UploadRecords /\ UploadTells(u, rec[u])
      /\ AtMost(run[x].seen, rec[u]) /\ run[x].seen.offset \in Nat
      /\ run[x].seen.offset < Chunks
  BY <1>1, <1>2, Uploading, BoundsAssumption DEF Upload!UploadChunk, UploadRecords
<1>5. PICK n \in 0 .. Chunks : n = run[x].seen.offset + 1 /\ n \in Nat
  BY <1>4, BoundsAssumption
<1>6. remote.open[u] # Chunks + 1 /\ remote.open[u] \in Nat
  <2>1. Upload!Rank("uploading") <= Upload!Rank(rec[u].state)
    BY ONLY <1>1, <1>4, Moving
  <2>2. rec[u].state \notin {"none", "intent"}
    BY ONLY <2>1, UploadRanks
  <2> QED
    BY <1>4, <2>2, BoundsAssumption DEF UploadTells, Holds, UploadInv, UploadTypes
<1>7. CASE remote.open[u] = run[x].seen.offset
  <2>1. remote' = [remote EXCEPT !.open[u] = n] /\ Upload!Accepted(x, n)
    BY <1>2, <1>5, <1>7, Zenon DEF Upload!UploadChunk
  <2>2. remote.open[u] <= n /\ u \notin remote.done
    BY <1>4, <1>5, <1>7, BoundsAssumption DEF UploadInv, UploadRemote
  <2>3. /\ remote' \in [open : [Upload!Uploads -> 0 .. Chunks + 1], moved : BOOLEAN,
                         done : SUBSET Upload!Uploads]
        /\ RemoteGrows /\ UploadRemote' /\ Holds(u, n)'
    BY ONLY UploadInv, <1>2, <1>5, <2>1, <2>2, SessionGrows
  <2>4. /\ run' \in [Upload!Runners -> UploadRuns]
        /\ \A y \in Upload!Runners : run'[y] = run[y] \/ UploadRunIsSound(y)'
    BY ONLY UploadInv, <1>1, <1>2, <1>5, <2>1, <2>3, UploaderIsAccepted
  <2> QED
    BY ONLY UploadInv, <1>1, <1>3, <2>3, <2>4, UploadKeeps
<1>8. CASE remote.open[u] > run[x].seen.offset /\ remote.open[u] # run[x].seen.offset
  <2>1. remote' = remote /\ Upload!Accepted(x, n)
    BY <1>2, <1>5, <1>8, Zenon DEF Upload!UploadChunk
  <2>2. Holds(u, n)'
    BY ONLY <1>4, <1>5, <1>6, <1>8, <2>1 DEF Holds
  <2>3. /\ run' \in [Upload!Runners -> UploadRuns]
        /\ \A y \in Upload!Runners : run'[y] = run[y] \/ UploadRunIsSound(y)'
    BY ONLY UploadInv, <1>1, <1>2, <1>5, <2>1, <2>2, UploaderIsAccepted
  <2> QED
    BY ONLY UploadInv, <1>1, <1>3, <2>1, <2>3, RestingRemote, UploadKeeps
<1>9. CASE ~(remote.open[u] > run[x].seen.offset) /\ remote.open[u] # run[x].seen.offset
  <2>1. remote' = remote /\ Upload!Ends(x)
    BY <1>2, <1>9, Zenon DEF Upload!UploadChunk
  <2> QED
    BY ONLY UploadInv, <1>1, <1>3, <2>1, UploaderRests, RestingRemote, UploadKeeps
<1> QED
  BY <1>7, <1>8, <1>9

(* A conditional commit, and an answer about it.                           *)
LEMMA CommitKeeps ==
  ASSUME UploadInv, NEW x \in Upload!Runners, Upload!CommitUpload(x)
  PROVE  UploadInv'
<1>1. /\ UNCHANGED <<active, latest, dirty, leases, reserved, rec, late>>
      /\ Upload!Asks(x, "committing") /\ run[x].pc = "act"
  BY DEF Upload!CommitUpload, Upload!Asks, Upload!entry
<1>2. PICK u \in Upload!Uploads : u = run[x].op
  BY <1>1, Uploading
<1>3. active' \in Nat /\ late' \subseteq Upload!Uploads
  BY <1>1 DEF UploadInv, UploadTypes
<1>4. remote' = Upload!Commit(u)
  BY <1>2, Zenon DEF Upload!CommitUpload
<1>5. /\ remote' \in [open : [Upload!Uploads -> 0 .. Chunks + 1], moved : BOOLEAN,
                       done : SUBSET Upload!Uploads]
      /\ RemoteGrows /\ UploadRemote'
  BY ONLY UploadInv, <1>2, <1>4, CommitEffect
<1>6. PICK a : a = IF u \in remote'.done \ remote.done THEN "committed"
                   ELSE Upload!Verdict(u, remote)
  BY Zenon
<1>7. Upload!Answered(x, a)
  BY <1>2, <1>6, Zenon DEF Upload!CommitUpload
<1>8. a \in UploadOutcomes /\ (a = "unknown" \/ UploadTruth(u, a)')
  <2>1. CASE u \in remote'.done \ remote.done
    BY ONLY <1>6, <2>1 DEF UploadOutcomes, UploadTruth, Upload!Committed
  <2>2. CASE ~(u \in remote'.done \ remote.done)
    <3>1. a \in UploadOutcomes /\ (a = "unknown" \/ UploadTruth(u, a))
      BY ONLY UploadInv, <1>2, <1>6, <2>2, UploadVerdict
    <3> QED
      BY ONLY <1>2, <1>5, <3>1, UploadTruthStays
  <2> QED
    BY <2>1, <2>2
<1>9. /\ run' \in [Upload!Runners -> UploadRuns]
      /\ \A y \in Upload!Runners : run'[y] = run[y] \/ UploadRunIsSound(y)'
  BY ONLY UploadInv, <1>1, <1>2, <1>7, <1>8, UploaderIsAnswered
<1> QED
  BY ONLY UploadInv, <1>1, <1>3, <1>5, <1>9, UploadKeeps

(* An answer that proves nothing, or what the remote says when asked.      *)
LEMMA UploadAnswerKeeps ==
  ASSUME UploadInv, NEW x \in Upload!Runners,
         Upload!CommitUnanswered(x) \/ Upload!ReconcileUpload(x)
  PROVE  UploadInv'
<1>1. /\ UNCHANGED <<active, latest, dirty, leases, reserved, rec, remote>>
      /\ run[x].pc = "act"
  BY DEF Upload!CommitUnanswered, Upload!ReconcileUpload, Upload!Asks, Upload!entry
<1>2. PICK u \in Upload!Uploads : u = run[x].op
  BY <1>1, Uploading
<1>3. active' \in Nat /\ late' \subseteq Upload!Uploads
  BY <1>1, <1>2
     DEF Upload!CommitUnanswered, Upload!ReconcileUpload, UploadInv, UploadTypes
<1>4. PICK a \in UploadOutcomes, s \in {"committing", "unknown"} :
        /\ a = "unknown" \/ UploadTruth(u, a)
        /\ Upload!Answered(x, a) /\ Upload!Asks(x, s)
  <2>1. CASE Upload!CommitUnanswered(x)
    BY <2>1, Zenon DEF Upload!CommitUnanswered, UploadOutcomes
  <2>2. CASE Upload!ReconcileUpload(x)
    <3>1. Upload!Answered(x, Upload!Verdict(u, remote)) /\ Upload!Asks(x, "unknown")
      BY <1>2, <2>2, Zenon DEF Upload!ReconcileUpload
    <3> QED
      BY <1>2, <3>1, UploadVerdict, Zenon
  <2> QED
    BY <2>1, <2>2
<1>5. a = "unknown" \/ UploadTruth(u, a)'
  BY ONLY <1>1, <1>4 DEF UploadTruth
<1>6. /\ run' \in [Upload!Runners -> UploadRuns]
      /\ \A y \in Upload!Runners : run'[y] = run[y] \/ UploadRunIsSound(y)'
  BY ONLY UploadInv, <1>1, <1>2, <1>4, <1>5, UploaderIsAnswered
<1> QED
  BY ONLY UploadInv, <1>1, <1>3, <1>6, RestingRemote, UploadKeeps

(* A crash loses the runner and nothing durable.                           *)
LEMMA UploadCrashKeeps ==
  ASSUME UploadInv, NEW x \in Upload!Runners, Upload!Crash(x)
  PROVE  UploadInv'
<1>1. /\ UNCHANGED <<active, latest, dirty, leases, reserved, rec, remote>> /\ Upload!Ends(x)
      /\ run[x].pc # "idle"
  BY DEF Upload!Crash, Upload!entry
<1>2. run[x].op \in Upload!Uploads
  BY <1>1, Uploading
<1>3. active' \in Nat /\ late' \subseteq Upload!Uploads
  BY <1>1, <1>2 DEF Upload!Crash, UploadInv, UploadTypes
<1> QED
  BY ONLY UploadInv, <1>1, <1>3, UploaderRests, RestingRemote, UploadKeeps

(* A commit that arrives late is still conditional.                        *)
LEMMA UploadArriveKeeps ==
  ASSUME UploadInv, NEW u \in Upload!Uploads, Upload!Arrive(u)
  PROVE  UploadInv'
<1>1. /\ UNCHANGED <<active, latest, dirty, leases, reserved, rec, run>>
      /\ remote' = Upload!Commit(u)
  BY DEF Upload!Arrive, Upload!entry
<1>2. /\ active' \in Nat /\ late' \subseteq Upload!Uploads
      /\ run' \in [Upload!Runners -> UploadRuns]
  BY <1>1 DEF Upload!Arrive, UploadInv, UploadTypes
<1> QED
  BY ONLY UploadInv, <1>1, <1>2, u \in Upload!Uploads, CommitEffect, UploadKeeps

(* Another writer moves the item, and no upload commits any more.          *)
LEMMA UploadOtherWriterKeeps ==
  ASSUME UploadInv, Upload!OtherWriter
  PROVE  UploadInv'
<1>1. /\ UNCHANGED <<active, latest, dirty, leases, reserved, rec, run, late>>
      /\ ~remote.moved
  BY DEF Upload!OtherWriter, Upload!entry
<1>2. remote' = [remote EXCEPT !.moved = TRUE]
  BY DEF Upload!OtherWriter
<1>3. /\ active' \in Nat /\ late' \subseteq Upload!Uploads
      /\ run' \in [Upload!Runners -> UploadRuns]
      /\ \A u \in Upload!Uploads : remote.open[u] \in Nat
      /\ remote \in [open : [Upload!Uploads -> 0 .. Chunks + 1], moved : BOOLEAN,
                      done : SUBSET Upload!Uploads]
  BY <1>1, BoundsAssumption DEF UploadInv, UploadTypes
<1>4. /\ remote' \in [open : [Upload!Uploads -> 0 .. Chunks + 1], moved : BOOLEAN,
                       done : SUBSET Upload!Uploads]
      /\ remote'.open = remote.open /\ remote'.moved = TRUE /\ remote'.done = remote.done
  BY ONLY <1>2, <1>3, Zenon
<1>5. RemoteGrows
  BY ONLY <1>1, <1>3, <1>4 DEF RemoteGrows
<1>6. UploadRemote'
  BY ONLY UploadInv, <1>4 DEF UploadInv, UploadRemote
<1> QED
  BY ONLY UploadInv, <1>1, <1>3, <1>4, <1>5, <1>6, UploadKeeps

(* Every step of the upload keeps the invariant.                           *)
LEMMA UploadNext ==
  ASSUME UploadInv, Upload!Next
  PROVE  UploadInv'
BY EntryKeeps, UploadSubmitKeeps, UploadResumeKeeps, UploadObserveKeeps, UploadRecordKeeps,
   BeginCommitKeeps, ReconcileKeeps, UploadCompleteKeeps, StartKeeps, ChunkKeeps, CommitKeeps,
   UploadAnswerKeeps, UploadCrashKeeps, UploadArriveKeeps, UploadOtherWriterKeeps
   DEF Upload!Next, Upload!RunnerStep

(* The upload's invariant contains its safety properties.                  *)
LEMMA UploadInvGives ==
  ASSUME UploadInv
  PROVE  Upload!UploadIsTrue /\ Upload!NoFalseStall /\ Upload!NoChangeIsLost
<1>1. Upload!UploadIsTrue
  <2> SUFFICES ASSUME NEW u \in Upload!Uploads
               PROVE  /\ Upload!Decided(rec[u].state) =>
                           \/ Upload!Committed(rec[u].outcome) /\ u \in remote.done
                           \/ rec[u].outcome = "precondition" /\ u \notin remote.done
                      /\ u \in remote.done => remote.open[u] = Chunks
                      /\ rec[u].offset # Chunks + 1 => rec[u].offset <= remote.open[u]
    BY UploadValues DEF Upload!UploadIsTrue
  <2>1. rec[u] \in UploadRecords /\ UploadTells(u, rec[u]) /\ UploadRemote
    BY DEF UploadInv, UploadTypes
  <2>2. Upload!Decided(rec[u].state) => rec[u].state \in {"known", "reconciled", "completed"}
    BY <2>1, RankTells
  <2> QED
    BY <2>1, <2>2 DEF UploadTells, UploadTruth, Holds, UploadRemote
<1>2. Upload!NoFalseStall
  BY DEF UploadInv, UploadRunIsSound, Upload!NoFalseStall
<1>3. Upload!NoChangeIsLost
  BY DEF UploadInv, EntryIsSound
<1> QED
  BY <1>1, <1>2, <1>3

-----------------------------------------------------------------------------
(* The theorems.                                                           *)

(* A step in which nothing happens.                                        *)
LEMMA JournalsRest ==
  ASSUME UNCHANGED vars
  PROVE  /\ MutationInv => MutationInv' /\ Forward
         /\ UploadInv => UploadInv'
<1>1. /\ UNCHANGED <<session, base, rec, run, remote, late>>
      /\ UNCHANGED <<active, latest, dirty, leases, reserved>>
  BY DEF vars, journalVars, mutationVars, entryVars, uploadVars
<1>2. ASSUME MutationInv PROVE MutationInv' /\ Forward
  <2>1. late' \subseteq Ops /\ run' \in [Mutation!Runners -> Runs]
    BY <1>1, <1>2 DEF MutationInv, MutationTypes
  <2> QED
    BY ONLY <1>1, <1>2, <2>1, RunnerKeeps
<1>3. ASSUME UploadInv PROVE UploadInv'
  <2>1. /\ active' \in Nat /\ late' \subseteq Upload!Uploads
        /\ run' \in [Upload!Runners -> UploadRuns]
    BY <1>1, <1>3 DEF UploadInv, UploadTypes
  <2> QED
    BY ONLY <1>1, <1>3, <2>1, RestingRemote, UploadKeeps
<1> QED
  BY <1>2, <1>3

(* A step of the whole is a step of the part it is about.                  *)
LEMMA MutationPart ==
  ASSUME part = "mutation" => MutationInv, [Next]_vars, part' = "mutation"
  PROVE  part = "mutation" /\ MutationInv' /\ Forward
<1>1. CASE InMutation(Mutation!Next)
  BY <1>1, MutationNext DEF InMutation
<1>2. CASE UNCHANGED vars
  <2>1. part' = part
    BY <1>2 DEF vars
  <2> QED
    BY <1>2, <2>1, JournalsRest
<1>3. CASE \/ InUpload(Upload!Next) \/ InCache(Cache!Next)
           \/ InFragments(Fragmented!Next) \/ InHydration(Hydrate!Next)
           \/ InNamespace("local", Local!Next) \/ InNamespace("feed", Feed!Next)
  BY <1>3 DEF InUpload, InCache, InFragments, InHydration, InNamespace
<1> QED
  BY <1>1, <1>2, <1>3 DEF Next

(* The same for the upload.                                                *)
LEMMA UploadPart ==
  ASSUME part = "upload" => UploadInv, [Next]_vars, part' = "upload"
  PROVE  UploadInv'
<1>1. CASE InUpload(Upload!Next)
  BY <1>1, UploadNext DEF InUpload
<1>2. CASE UNCHANGED vars
  <2>1. part' = part
    BY <1>2 DEF vars
  <2> QED
    BY <1>2, <2>1, JournalsRest
<1>3. CASE \/ InMutation(Mutation!Next) \/ InCache(Cache!Next)
           \/ InFragments(Fragmented!Next) \/ InHydration(Hydrate!Next)
           \/ InNamespace("local", Local!Next) \/ InNamespace("feed", Feed!Next)
  BY <1>3 DEF InMutation, InCache, InFragments, InHydration, InNamespace
<1> QED
  BY <1>1, <1>2, <1>3 DEF Next

(* Both journals keep their invariant, whatever part a behaviour is about. *)
THEOREM JournalInvariant ==
  Spec => []((part = "mutation" => MutationInv) /\ (part = "upload" => UploadInv))
<1> DEFINE Inv == (part = "mutation" => MutationInv) /\ (part = "upload" => UploadInv)
<1>1. Init => Inv
  <2>1. ASSUME Init, part = "mutation" PROVE Mutation!Init
    BY <2>1 DEF Init, InitOfCore, InitOfMount
  <2>2. ASSUME Init, part = "upload" PROVE Upload!Init
    BY <2>2 DEF Init, InitOfCore, InitOfMount
  <2> QED
    BY <2>1, <2>2, MutationInit, UploadInit
<1>2. Inv /\ [Next]_vars => Inv'
  BY MutationPart, UploadPart
<1> QED
  BY <1>1, <1>2, PTL DEF Spec

(* A durable record that claims a decision tells the truth about the       *)
(* remote, also about requests that arrive later; a mutation's and an      *)
(* upload's outcome alike (record_remote_outcome of both journals).        *)
THEOREM DecisionsAreTrue == Spec => []OutcomesAreTrue
<1>1. (part = "mutation" => MutationInv) /\ (part = "upload" => UploadInv) => OutcomesAreTrue
  BY MutationInvGives, UploadInvGives DEF OutcomesAreTrue
<1> QED
  BY <1>1, JournalInvariant, PTL

(* However runners interleave on one record, none takes another's          *)
(* progress, a fence or an outcome still pending for a stuck store         *)
(* (observe_mutation_transition, observe_transition).                      *)
THEOREM ProgressIsNoStall == Spec => []NoFalseStall
<1>1. (part = "mutation" => MutationInv) /\ (part = "upload" => UploadInv) => NoFalseStall
  BY MutationInvGives, UploadInvGives DEF NoFalseStall
<1> QED
  BY <1>1, JournalInvariant, PTL

(* An entry is clean only once its latest generation is committed, and     *)
(* only a clean entry without an upload is evicted                         *)
(* (reconcile_content_upload_metadata, clear_dirty, reserve_eviction).     *)
THEOREM ChangesAreKept == Spec => []NoChangeIsLost
<1>1. (part = "mutation" => MutationInv) /\ (part = "upload" => UploadInv) => NoChangeIsLost
  BY UploadInvGives DEF NoChangeIsLost
<1> QED
  BY <1>1, JournalInvariant, PTL

(* A recorded decision is final: no slower runner, of whatever generation, *)
(* moves a record back or replaces its outcome (with_fenced_mutation,      *)
(* record_remote_outcome).                                                 *)
THEOREM DecisionsStay == Spec => DecisionsAreFinal
<1> DEFINE Inv == (part = "mutation" => MutationInv) /\ (part = "upload" => UploadInv)
<1>1. Inv /\ [Next]_vars => [part = "mutation" => Mutation!KeepsDecisions]_vars
  <2> SUFFICES ASSUME Inv, [Next]_vars, part = "mutation", ~UNCHANGED vars
               PROVE  Mutation!KeepsDecisions
    OBVIOUS
  <2>1. Next /\ part' = "mutation"
    BY DEF Next, InMutation, InUpload, InCache, InFragments, InHydration, InNamespace
  <2>2. MutationInv /\ MutationInv' /\ Forward
    BY <2>1, MutationPart
  <2> QED
    BY <2>2, ForwardKeepsDecisions DEF MutationInv
<1>2. Spec => []Inv
  BY JournalInvariant
<1> QED
  BY <1>1, <1>2, PTL DEF Spec, DecisionsAreFinal

-----------------------------------------------------------------------------
(* Numbers.  A least counterexample stands for an induction.               *)

(* Every set of naturals that is not empty has a least element.            *)
LEMMA LeastNat ==
  ASSUME NEW S, S \subseteq Nat, S # {}
  PROVE  \E m \in S : \A n \in S : m <= n
<1> DEFINE R == OpToRel(<, Nat)
<1>1. IsWellFoundedOn(R, Nat)
  BY NatLessThanWellFounded, Zenon
<1>2. \A x, y \in Nat : x < y => <<x, y>> \in R
  BY DEF OpToRel
<1> HIDE DEF R
<1>3. PICK m \in S : \A n \in S : ~(<<n, m>> \in R)
  BY <1>1, WFMin, Zenon
<1>4. \A n \in S : m <= n
  <2> SUFFICES ASSUME NEW n \in S PROVE m <= n
    OBVIOUS
  <2>1. m \in Nat /\ n \in Nat /\ ~(n < m)
    BY <1>2, <1>3
  <2> QED
    BY <2>1
<1> QED
  BY <1>3, <1>4

(* A set of leading numbers is the interval up to its cardinality: what    *)
(* makes partition_point the length of the prefix.                         *)
LEMMA LeadingNumbers ==
  ASSUME NEW n \in Nat, NEW S, S \subseteq 1 .. n,
         \A i, j \in 1 .. n : i <= j /\ j \in S => i \in S
  PROVE  Cardinality(S) \in 0 .. n /\ S = 1 .. Cardinality(S)
<1> DEFINE T == {i \in 1 .. n + 1 : i \notin S}
<1>1. n + 1 \in T /\ T \subseteq Nat
  OBVIOUS
<1>2. PICK m \in T : \A i \in T : m <= i
  BY <1>1, LeastNat
<1>3. m \in 1 .. n + 1 /\ m \notin S
  BY <1>2
<1>4. \A i \in 1 .. m - 1 : i \in S
  <2> SUFFICES ASSUME NEW i \in 1 .. m - 1, i \notin S PROVE FALSE
    OBVIOUS
  <2>1. i \in T
    BY <1>3
  <2> QED
    BY <1>2, <1>3, <2>1
<1>5. \A i \in S : i < m
  <2> SUFFICES ASSUME NEW i \in S, ~(i < m) PROVE FALSE
    OBVIOUS
  <2>1. i \in 1 .. n /\ m \in 1 .. n /\ m <= i
    BY <1>3
  <2> QED
    BY <1>3, <2>1
<1>6. S = 1 .. m - 1
  <2>1. S \subseteq 1 .. m - 1
    <3> SUFFICES ASSUME NEW i \in S PROVE i \in 1 .. m - 1
      OBVIOUS
    <3>1. i \in 1 .. n /\ i < m /\ m \in 1 .. n + 1
      BY <1>3, <1>5
    <3> QED
      BY ONLY <3>1, n \in Nat
  <2> QED
    BY <1>4, <2>1, Zenon
<1>7. Cardinality(1 .. m - 1) = m - 1
  BY <1>3, FS_Interval
<1> QED
  BY <1>3, <1>6, <1>7

(* The instance counts as this module does.                                *)
LEMMA SameCardinality == \A S : Cache!Cardinality(S) = Cardinality(S)
BY DEF Cache!Cardinality, Cardinality

-----------------------------------------------------------------------------
(* The set of ranges.                                                      *)

(* The ranges of a sequence, as numbers.                                   *)
LEMMA RangeFacts ==
  ASSUME NEW rs \in Seq(Cache!Ranges)
  PROVE  /\ Len(rs) \in Nat
         /\ \A i \in 1 .. Len(rs) : /\ rs[i] \in Cache!Ranges
                                    /\ rs[i].off \in Nat /\ rs[i].end \in Nat
                                    /\ rs[i].off < rs[i].end
<1>1. Len(rs) \in Nat /\ \A i \in 1 .. Len(rs) : rs[i] \in Cache!Ranges
  BY ElementOfSeq, LenProperties
<1>2. \A r \in Cache!Ranges : r.off \in Nat /\ r.end \in Nat /\ r.off < r.end
  BY BoundsAssumption DEF Cache!Ranges
<1> QED
  BY <1>1, <1>2

(* Neighbours in order put all ranges in order.                            *)
LEMMA NormalIsOrdered ==
  ASSUME NEW rs \in Seq(Cache!Ranges), Cache!Normal(rs)
  PROVE  \A i, j \in 1 .. Len(rs) : i < j => rs[i].end < rs[j].off
<1> SUFFICES ASSUME NEW i \in 1 .. Len(rs), NEW k \in 1 .. Len(rs), i < k,
                    ~(rs[i].end < rs[k].off)
             PROVE  FALSE
  OBVIOUS
<1> DEFINE S == {j \in 1 .. Len(rs) : i < j /\ ~(rs[i].end < rs[j].off)}
<1>1. k \in S /\ S \subseteq Nat
  BY RangeFacts
<1>2. PICK m \in S : \A j \in S : m <= j
  BY <1>1, LeastNat
<1>3. m \in 1 .. Len(rs) /\ i < m /\ ~(rs[i].end < rs[m].off)
  BY <1>2
<1>4. Len(rs) \in Nat /\ m \in Nat /\ i \in Nat /\ m - 1 \in 1 .. Len(rs) - 1
  BY <1>3, RangeFacts
<1>5. rs[m - 1].end < rs[m].off
  BY <1>4 DEF Cache!Normal
<1>6. CASE m - 1 = i
  BY <1>3, <1>5, <1>6
<1>7. CASE m - 1 # i
  <2>1. m - 1 \notin S /\ i < m - 1 /\ m - 1 \in 1 .. Len(rs)
    BY <1>2, <1>3, <1>4, <1>7
  <2>2. rs[i].end < rs[m - 1].off
    BY <2>1
  <2>3. rs[m - 1].off < rs[m - 1].end /\ rs[m].off \in Nat /\ rs[i].end \in Nat
        /\ rs[m - 1].off \in Nat /\ rs[m - 1].end \in Nat
    BY <1>3, <2>1, RangeFacts
  <2> QED
    <3>1. rs[m - 1].end < rs[m].off /\ ~(rs[i].end < rs[m].off)
      BY ONLY <1>3, <1>5
    <3>2. \A a, b, c, d \in Nat : a < b /\ b < c /\ c < d => a < d
      OBVIOUS
    <3> QED
      BY ONLY <2>2, <2>3, <3>1, <3>2, Zenon
<1> QED
  BY <1>6, <1>7

(* What partition_point finds for the three tests.                         *)
LEMMA Partitions ==
  ASSUME NEW rs \in Seq(Cache!Ranges), Cache!Normal(rs), NEW x \in Nat
  PROVE  /\ Cache!EndingBefore(rs, x) \in 0 .. Len(rs)
         /\ \A i \in 1 .. Len(rs) : rs[i].end < x <=> i <= Cache!EndingBefore(rs, x)
         /\ Cache!EndingBy(rs, x) \in 0 .. Len(rs)
         /\ \A i \in 1 .. Len(rs) : rs[i].end <= x <=> i <= Cache!EndingBy(rs, x)
         /\ Cache!StartingBy(rs, x) \in 0 .. Len(rs)
         /\ \A i \in 1 .. Len(rs) : rs[i].off <= x <=> i <= Cache!StartingBy(rs, x)
<1> DEFINE n == Len(rs)
<1>1. /\ n \in Nat
      /\ \A i \in 1 .. n : rs[i].off \in Nat /\ rs[i].end \in Nat /\ rs[i].off < rs[i].end
      /\ \A i, j \in 1 .. n : i < j => rs[i].end < rs[j].off
  BY RangeFacts, NormalIsOrdered
<1>0. \A i, j \in 1 .. n : i <= j => rs[i].end <= rs[j].end /\ rs[i].off <= rs[j].off
  <2> SUFFICES ASSUME NEW i \in 1 .. n, NEW j \in 1 .. n, i < j
               PROVE  rs[i].end <= rs[j].end /\ rs[i].off <= rs[j].off
    BY <1>1
  <2>1. rs[i].end < rs[j].off
    BY ONLY <1>1, i \in 1 .. n, j \in 1 .. n, i < j
  <2> QED
    BY ONLY <1>1, <2>1, i \in 1 .. n, j \in 1 .. n
<1>2. /\ Cache!EndingBefore(rs, x) \in 0 .. Len(rs)
      /\ \A i \in 1 .. Len(rs) : rs[i].end < x <=> i <= Cache!EndingBefore(rs, x)
  <2> DEFINE S == {i \in 1 .. n : rs[i].end < x}
  <2>1. \A i, j \in 1 .. n : i <= j /\ j \in S => i \in S
    BY <1>0, <1>1
  <2>2. Cardinality(S) \in 0 .. n /\ S = 1 .. Cardinality(S)
    BY <1>1, <2>1, LeadingNumbers
  <2>3. PICK k \in 0 .. n : k = Cache!EndingBefore(rs, x) /\ S = 1 .. k
    BY <2>2, SameCardinality, Zenon DEF Cache!EndingBefore
  <2>4. \A i \in 1 .. n : rs[i].end < x <=> i \in 1 .. k
    BY <2>3, Zenon
  <2> QED
    BY <1>1, <2>3, <2>4
<1>3. /\ Cache!EndingBy(rs, x) \in 0 .. Len(rs)
      /\ \A i \in 1 .. Len(rs) : rs[i].end <= x <=> i <= Cache!EndingBy(rs, x)
  <2> DEFINE S == {i \in 1 .. n : rs[i].end <= x}
  <2>1. \A i, j \in 1 .. n : i <= j /\ j \in S => i \in S
    BY <1>0, <1>1
  <2>2. Cardinality(S) \in 0 .. n /\ S = 1 .. Cardinality(S)
    BY <1>1, <2>1, LeadingNumbers
  <2>3. PICK k \in 0 .. n : k = Cache!EndingBy(rs, x) /\ S = 1 .. k
    BY <2>2, SameCardinality, Zenon DEF Cache!EndingBy
  <2>4. \A i \in 1 .. n : rs[i].end <= x <=> i \in 1 .. k
    BY <2>3, Zenon
  <2> QED
    BY <1>1, <2>3, <2>4
<1>4. /\ Cache!StartingBy(rs, x) \in 0 .. Len(rs)
      /\ \A i \in 1 .. Len(rs) : rs[i].off <= x <=> i <= Cache!StartingBy(rs, x)
  <2> DEFINE S == {i \in 1 .. n : rs[i].off <= x}
  <2>1. \A i, j \in 1 .. n : i <= j /\ j \in S => i \in S
    BY <1>0, <1>1
  <2>2. Cardinality(S) \in 0 .. n /\ S = 1 .. Cardinality(S)
    BY <1>1, <2>1, LeadingNumbers
  <2>3. PICK k \in 0 .. n : k = Cache!StartingBy(rs, x) /\ S = 1 .. k
    BY <2>2, SameCardinality, Zenon DEF Cache!StartingBy
  <2>4. \A i \in 1 .. n : rs[i].off <= x <=> i \in 1 .. k
    BY <2>3, Zenon
  <2> QED
    BY <1>1, <2>3, <2>4
<1> QED
  BY <1>2, <1>3, <1>4

(* A byte is covered when it lies in one of the ranges.                    *)
LEMMA CoveredBytes ==
  ASSUME NEW rs \in Seq(Cache!Ranges)
  PROVE  \A b : b \in Cache!Covered(rs) <=>
           b \in Nat /\ \E i \in 1 .. Len(rs) : rs[i].off <= b /\ b < rs[i].end
<1>1. \A i \in 1 .. Len(rs) : \A b : b \in Cache!Bytes(rs[i]) <=>
        b \in Nat /\ rs[i].off <= b /\ b < rs[i].end
  <2> SUFFICES ASSUME NEW i \in 1 .. Len(rs), NEW b
               PROVE  b \in Cache!Bytes(rs[i]) <=> b \in Nat /\ rs[i].off <= b /\ b < rs[i].end
    OBVIOUS
  <2> QED
    BY RangeFacts DEF Cache!Bytes
<1>2. \A b : b \in Cache!Covered(rs) <=> \E i \in 1 .. Len(rs) : b \in Cache!Bytes(rs[i])
  BY Zenon DEF Cache!Covered
<1> QED
  BY <1>1, <1>2, Zenon

(* The answer of covers is exact on a normal set.                          *)
LEMMA CoversIsExact ==
  ASSUME NEW rs \in Seq(Cache!Ranges), Cache!Normal(rs), NEW r \in Cache!Ranges
  PROVE  Cache!Covers(rs, r) <=> Cache!Bytes(r) \subseteq Cache!Covered(rs)
<1> DEFINE n == Len(rs)
<1>1. /\ n \in Nat
      /\ \A i \in 1 .. n : rs[i].off \in Nat /\ rs[i].end \in Nat /\ rs[i].off < rs[i].end
      /\ \A i, j \in 1 .. n : i < j => rs[i].end < rs[j].off
  BY RangeFacts, NormalIsOrdered
<1>2. /\ r.off \in Nat /\ r.end \in Nat /\ r.off < r.end
      /\ \A b : b \in Cache!Bytes(r) <=> b \in Nat /\ r.off <= b /\ b < r.end
  BY BoundsAssumption DEF Cache!Ranges, Cache!Bytes
<1>3. \A b \in Nat : b \in Cache!Covered(rs) <=>
        \E i \in 1 .. n : rs[i].off <= b /\ b < rs[i].end
  BY CoveredBytes
<1>4. PICK k \in 0 .. n : k = Cache!EndingBy(rs, r.off)
                         /\ \A i \in 1 .. n : rs[i].end <= r.off <=> i <= k
  BY <1>2, Partitions
<1>5. Cache!Covers(rs, r) <=> k + 1 <= n /\ rs[k + 1].off <= r.off /\ rs[k + 1].end >= r.end
  BY <1>4 DEF Cache!Covers
<1>6. ASSUME k + 1 <= n, rs[k + 1].off <= r.off, rs[k + 1].end >= r.end
      PROVE  Cache!Bytes(r) \subseteq Cache!Covered(rs)
  <2> SUFFICES ASSUME NEW b \in Cache!Bytes(r) PROVE b \in Cache!Covered(rs)
    OBVIOUS
  <2>1. b \in Nat /\ r.off <= b /\ b < r.end
    BY <1>2
  <2>2. k + 1 \in 1 .. n /\ rs[k + 1].off <= b /\ b < rs[k + 1].end
    BY <1>1, <1>2, <1>6, <2>1
  <2> QED
    BY <1>3, <2>1, <2>2
<1>7. ASSUME Cache!Bytes(r) \subseteq Cache!Covered(rs)
      PROVE  k + 1 <= n /\ rs[k + 1].off <= r.off /\ rs[k + 1].end >= r.end
  <2>1. PICK i \in 1 .. n : rs[i].off <= r.off /\ r.off < rs[i].end
    BY <1>2, <1>3, <1>7
  <2>2. ~(i <= k) /\ i \in Nat
    BY <1>1, <1>2, <1>4, <2>1
  <2>3. k + 1 \in 1 .. n /\ ~(rs[k + 1].end <= r.off)
    BY <1>1, <1>4, <2>2
  <2>4. i = k + 1
    <3> SUFFICES ASSUME k + 1 < i PROVE FALSE
      BY <2>2, <2>3
    <3>1. rs[k + 1].end < rs[i].off
      BY <1>1, <2>3
    <3> QED
      BY <1>1, <1>2, <2>1, <2>3, <3>1
  <2>5. rs[i].end >= r.end
    <3> SUFFICES ASSUME rs[i].end < r.end PROVE FALSE
      BY <1>1, <1>2
    <3>1. rs[i].end \in Cache!Bytes(r)
      BY <1>1, <1>2, <2>1
    <3>2. PICK j \in 1 .. n : rs[j].off <= rs[i].end /\ rs[i].end < rs[j].end
      BY <1>1, <1>3, <1>7, <3>1
    <3>3. i < j \/ j < i
      BY <1>1, <3>2
    <3>4. i < j => rs[i].end < rs[j].off
      BY <1>1
    <3>5. j < i => rs[j].end < rs[i].off
      BY <1>1
    <3> QED
      BY <1>1, <3>2, <3>3, <3>4, <3>5
  <2> QED
    BY <2>1, <2>3, <2>4, <2>5
<1> QED
  BY <1>5, <1>6, <1>7

(* A prefix, one range, and a suffix in one sequence.                      *)
Splice(rs, f, w, k) == SubSeq(rs, 1, f) \o <<w>> \o SubSeq(rs, k + 1, Len(rs))

(* The elements of such a sequence.                                        *)
LEMMA Spliced ==
  ASSUME NEW rs \in Seq(Cache!Ranges), NEW w \in Cache!Ranges,
         NEW f \in 0 .. Len(rs), NEW k \in f .. Len(rs)
  PROVE  /\ Splice(rs, f, w, k) \in Seq(Cache!Ranges)
         /\ Len(Splice(rs, f, w, k)) = f + 1 + (Len(rs) - k)
         /\ \A i \in 1 .. f : Splice(rs, f, w, k)[i] = rs[i]
         /\ Splice(rs, f, w, k)[f + 1] = w
         /\ \A i \in f + 2 .. Len(Splice(rs, f, w, k)) :
               Splice(rs, f, w, k)[i] = rs[i - f - 1 + k]
<1> DEFINE n == Len(rs)
           q == Splice(rs, f, w, k)
           a == SubSeq(rs, 1, f)
           c == SubSeq(rs, k + 1, n)
           m == <<w>>
           am == a \o m
<1>1. n \in Nat /\ \A i \in 1 .. n : rs[i] \in Cache!Ranges
  BY RangeFacts
<1>2. a \in Seq(Cache!Ranges) /\ Len(a) = f /\ \A i \in 1 .. f : a[i] = rs[i]
  <2>1. \A i \in 1 .. f : rs[i] \in Cache!Ranges
    BY <1>1
  <2>2. /\ a \in Seq(Cache!Ranges) /\ Len(a) = IF 1 <= f THEN f - 1 + 1 ELSE 0
        /\ \A i \in 1 .. f - 1 + 1 : a[i] = rs[1 + i - 1]
    BY <2>1, SubSeqProperties
  <2> QED
    BY ONLY <1>1, <2>2, f \in 0 .. n
<1>3. c \in Seq(Cache!Ranges) /\ Len(c) = n - k /\ \A i \in 1 .. n - k : c[i] = rs[k + i]
  <2>1. \A i \in k + 1 .. n : rs[i] \in Cache!Ranges
    BY <1>1
  <2>2. /\ c \in Seq(Cache!Ranges) /\ Len(c) = IF k + 1 <= n THEN n - (k + 1) + 1 ELSE 0
        /\ \A i \in 1 .. n - (k + 1) + 1 : c[i] = rs[(k + 1) + i - 1]
    BY <1>1, <2>1, SubSeqProperties
  <2> QED
    BY ONLY <1>1, <2>2, f \in 0 .. n, k \in f .. n
<1>4. m \in Seq(Cache!Ranges) /\ Len(m) = 1 /\ m[1] = w
  OBVIOUS
<1> HIDE DEF a, c, m
<1>5. /\ am \in Seq(Cache!Ranges) /\ Len(am) = f + 1
      /\ \A i \in 1 .. f + 1 : am[i] = IF i <= f THEN a[i] ELSE m[i - f]
  <2>1. /\ a \o m \in Seq(Cache!Ranges) /\ Len(a \o m) = Len(a) + Len(m)
        /\ \A i \in 1 .. Len(a) + Len(m) : (a \o m)[i] =
             IF i <= Len(a) THEN a[i] ELSE m[i - Len(a)]
    BY <1>2, <1>4, ConcatProperties
  <2> QED
    BY <1>2, <1>4, <2>1
<1> HIDE DEF am, q
<1>6. /\ q \in Seq(Cache!Ranges) /\ Len(q) = f + 1 + (n - k)
      /\ \A i \in 1 .. f + 1 + (n - k) : q[i] = IF i <= f + 1 THEN am[i] ELSE c[i - (f + 1)]
  <2>1. q = am \o c
    BY DEF q, Splice, am, a, m, c
  <2>2. /\ am \o c \in Seq(Cache!Ranges) /\ Len(am \o c) = Len(am) + Len(c)
        /\ \A i \in 1 .. Len(am) + Len(c) : (am \o c)[i] =
             IF i <= Len(am) THEN am[i] ELSE c[i - Len(am)]
    BY <1>3, <1>5, ConcatProperties
  <2> QED
    BY <1>3, <1>5, <2>1, <2>2
<1>7. \A i \in 1 .. f : q[i] = rs[i]
  <2> SUFFICES ASSUME NEW i \in 1 .. f PROVE q[i] = rs[i]
    OBVIOUS
  <2>1. i \in 1 .. f + 1 /\ i \in 1 .. f + 1 + (n - k) /\ i <= f /\ i <= f + 1
    BY ONLY <1>1, i \in 1 .. f, f \in 0 .. n, k \in f .. n
  <2> QED
    BY ONLY <1>2, <1>5, <1>6, <2>1, i \in 1 .. f
<1>8. q[f + 1] = w
  BY ONLY <1>1, <1>4, <1>5, <1>6, f \in 0 .. n, k \in f .. n
<1>9. \A i \in f + 2 .. Len(q) : q[i] = rs[i - f - 1 + k]
  <2> SUFFICES ASSUME NEW i \in f + 2 .. Len(q) PROVE q[i] = rs[i - f - 1 + k]
    OBVIOUS
  <2>0. i \in f + 2 .. f + 1 + (n - k) /\ i \in 1 .. f + 1 + (n - k) /\ ~(i <= f + 1)
    BY ONLY <1>1, <1>6, i \in f + 2 .. Len(q), f \in 0 .. n, k \in f .. n
  <2>1. q[i] = c[i - (f + 1)] /\ i - (f + 1) \in 1 .. n - k
    BY ONLY <1>1, <1>6, <2>0, f \in 0 .. n, k \in f .. n
  <2>2. c[i - (f + 1)] = rs[k + (i - (f + 1))]
    BY <1>3, <2>1
  <2>3. k + (i - (f + 1)) = i - f - 1 + k
    BY ONLY <2>0, f \in 0 .. n, k \in f .. n, <1>1
  <2> QED
    BY <2>1, <2>2, <2>3
<1> QED
  BY <1>6, <1>7, <1>8, <1>9 DEF q

(* insert merges a range with the neighbours it touches: the set stays     *)
(* normal and covers exactly the bytes of the range in addition.           *)
LEMMA InsertIsExact ==
  ASSUME NEW rs \in Seq(Cache!Ranges), Cache!Normal(rs), NEW r \in Cache!Ranges
  PROVE  /\ Cache!Insert(rs, r) \in Seq(Cache!Ranges) /\ Cache!Normal(Cache!Insert(rs, r))
         /\ Cache!Covered(Cache!Insert(rs, r)) = Cache!Covered(rs) \cup Cache!Bytes(r)
<1> DEFINE n == Len(rs)
<1>1. /\ n \in Nat
      /\ \A i \in 1 .. n : /\ rs[i].off \in Nat /\ rs[i].end \in Nat /\ rs[i].off < rs[i].end
                           /\ rs[i].off <= CacheSize /\ rs[i].end <= CacheSize
      /\ \A i, j \in 1 .. n : i < j => rs[i].end < rs[j].off
  <2>1. /\ n \in Nat
        /\ \A i \in 1 .. n : /\ rs[i] \in Cache!Ranges /\ rs[i].off \in Nat
                             /\ rs[i].end \in Nat /\ rs[i].off < rs[i].end
    BY RangeFacts
  <2>2. \A i, j \in 1 .. n : i < j => rs[i].end < rs[j].off
    BY NormalIsOrdered
  <2>3. \A u \in Cache!Ranges : u.off <= CacheSize /\ u.end <= CacheSize
    BY BoundsAssumption DEF Cache!Ranges
  <2> QED
    BY <2>1, <2>2, <2>3
<1>2. /\ r.off \in Nat /\ r.end \in Nat /\ r.off < r.end
      /\ r.off <= CacheSize /\ r.end <= CacheSize
      /\ \A b : b \in Cache!Bytes(r) <=> b \in Nat /\ r.off <= b /\ b < r.end
  BY BoundsAssumption DEF Cache!Ranges, Cache!Bytes
<1>3. CASE Cache!Covers(rs, r)
  <2>1. Cache!Insert(rs, r) = rs
    BY <1>3 DEF Cache!Insert
  <2>2. Cache!Bytes(r) \subseteq Cache!Covered(rs)
    BY <1>3, CoversIsExact
  <2> QED
    BY <2>1, <2>2, Zenon
<1>4. CASE ~Cache!Covers(rs, r)
  <2>1. PICK f \in 0 .. n : f = Cache!EndingBefore(rs, r.off)
                           /\ \A i \in 1 .. n : rs[i].end < r.off <=> i <= f
    BY <1>2, Partitions
  <2>2. PICK k \in 0 .. n : k = Cache!StartingBy(rs, r.end)
                           /\ \A i \in 1 .. n : rs[i].off <= r.end <=> i <= k
    BY <1>2, Partitions
  <2>3. f <= k
    <3> SUFFICES ASSUME k < f PROVE FALSE
      BY <2>1, <2>2
    <3>1. f \in 1 .. n /\ rs[f].end < r.off /\ ~(rs[f].off <= r.end)
      BY <1>1, <2>1, <2>2
    <3> QED
      BY <1>1, <1>2, <3>1
  <2>4. PICK w : w = IF f = k THEN r
                     ELSE [off |-> Cache!Smaller(r.off, rs[f + 1].off),
                           end |-> Cache!Larger(r.end, rs[k].end)]
    BY Zenon
  <2>5. PICK q : q = Splice(rs, f, w, k)
    BY Zenon
  <2>6. Cache!Insert(rs, r) = q
    BY <1>4, <2>1, <2>2, <2>4, <2>5, Zenon DEF Cache!Insert, Splice
  <2>7. f # k => /\ f + 1 \in 1 .. n /\ k \in 1 .. n /\ f + 1 <= k
                 /\ rs[f + 1].end >= r.off /\ rs[k].off <= r.end
    <3> SUFFICES ASSUME f # k
                 PROVE  /\ f + 1 \in 1 .. n /\ k \in 1 .. n /\ f + 1 <= k
                        /\ rs[f + 1].end >= r.off /\ rs[k].off <= r.end
      OBVIOUS
    <3>1. f + 1 \in 1 .. n /\ k \in 1 .. n /\ f + 1 <= k
      BY <1>1, <2>1, <2>2, <2>3
    <3>2. ~(rs[f + 1].end < r.off) /\ rs[k].off <= r.end
      BY <2>1, <2>2, <3>1
    <3> QED
      BY <1>1, <1>2, <3>1, <3>2
  <2>8. /\ w.off = IF f = k \/ r.off < rs[f + 1].off THEN r.off ELSE rs[f + 1].off
        /\ w.end = IF f = k \/ rs[k].end <= r.end THEN r.end ELSE rs[k].end
    <3>1. CASE f = k
      BY <2>4, <3>1
    <3>2. CASE f # k
      BY <1>1, <1>2, <2>4, <2>7, <3>2 DEF Cache!Smaller, Cache!Larger
    <3> QED
      BY <3>1, <3>2
  <2>9. w \in Cache!Ranges /\ w.off \in Nat /\ w.end \in Nat /\ w.off < w.end
    <3>1. CASE f = k
      BY <1>2, <2>4, <3>1
    <3>2. CASE f # k
      <4>0. /\ rs[f + 1].off \in Nat /\ rs[f + 1].off <= CacheSize
            /\ rs[k].end \in Nat /\ rs[k].end <= CacheSize
        BY ONLY <1>1, <2>7, <3>2
      <4>3. r.off \in Nat /\ r.end \in Nat /\ r.end <= CacheSize /\ r.off < r.end
        BY ONLY <1>2
      <4>4. CacheSize \in Nat
        BY ONLY BoundsAssumption
      <4>5. w.off \in Nat /\ w.off <= r.off
        BY ONLY <2>8, <3>2, <4>0, <4>3
      <4>6. w.end \in Nat /\ r.end <= w.end /\ w.end <= CacheSize
        BY ONLY <2>8, <3>2, <4>0, <4>3, <4>4
      <4>1. /\ w.off \in 0 .. CacheSize /\ w.end \in 0 .. CacheSize /\ w.off < w.end
        BY ONLY <4>3, <4>4, <4>5, <4>6
      <4>2. w = [off |-> w.off, end |-> w.end]
        BY <2>4, <3>2
      <4> QED
        BY ONLY <4>1, <4>2, BoundsAssumption DEF Cache!Ranges
    <3> QED
      BY <3>1, <3>2
  <2>10. /\ q \in Seq(Cache!Ranges) /\ Len(q) = f + 1 + (n - k)
         /\ \A i \in 1 .. f : q[i] = rs[i]
         /\ q[f + 1] = w
         /\ \A i \in f + 2 .. Len(q) : q[i] = rs[i - f - 1 + k]
    <3>1. k \in f .. n
      BY <1>1, <2>1, <2>2, <2>3
    <3>2. f \in 0 .. Len(rs) /\ k \in f .. Len(rs) /\ w \in Cache!Ranges
      BY <2>1, <2>9, <3>1
    <3>3. /\ Splice(rs, f, w, k) \in Seq(Cache!Ranges)
          /\ Len(Splice(rs, f, w, k)) = f + 1 + (Len(rs) - k)
          /\ \A i \in 1 .. f : Splice(rs, f, w, k)[i] = rs[i]
          /\ Splice(rs, f, w, k)[f + 1] = w
          /\ \A i \in f + 2 .. Len(Splice(rs, f, w, k)) :
                Splice(rs, f, w, k)[i] = rs[i - f - 1 + k]
      BY <3>2, Spliced, Zenon
    <3> QED
      BY <2>5, <3>3
  <2>14. /\ n \in Nat /\ f \in Nat /\ k \in Nat /\ f <= k /\ k <= n
        /\ Len(q) = f + 1 + (n - k)
    BY <1>1, <2>1, <2>2, <2>3, <2>10
  <2>11. Cache!Normal(q)
    <3> SUFFICES ASSUME NEW i \in 1 .. Len(q) - 1 PROVE q[i].end < q[i + 1].off
      BY DEF Cache!Normal
    <3>0. i \in Nat /\ i >= 1 /\ i <= f + (n - k)
      BY ONLY <2>14, i \in 1 .. Len(q) - 1
    <3>1. CASE i < f
      <4>1. q[i] = rs[i] /\ q[i + 1] = rs[i + 1] /\ i \in 1 .. n /\ i + 1 \in 1 .. n
        BY <1>1, <2>1, <2>10, <3>0, <3>1
      <4> QED
        BY <1>1, <4>1
    <3>2. CASE i = f
      <4>1. q[i] = rs[f] /\ q[i + 1] = w /\ f \in 1 .. n /\ rs[f].end < r.off
        BY <1>1, <2>1, <2>10, <3>0, <3>2
      <4>2. f # k => rs[f].end < rs[f + 1].off
        BY <1>1, <2>7, <4>1
      <4> QED
        BY <1>1, <1>2, <2>8, <4>1, <4>2
    <3>3. CASE i = f + 1
      <4>1. /\ q[i] = w /\ i + 1 \in f + 2 .. Len(q) /\ (i + 1) - f - 1 + k = k + 1
            /\ k + 1 \in 1 .. n /\ k < k + 1 /\ ~(k + 1 <= k)
        <5>1. i + 1 \in f + 2 .. Len(q) /\ (i + 1) - f - 1 + k = k + 1 /\ k + 1 \in 1 .. n
              /\ k < k + 1 /\ ~(k + 1 <= k)
          BY ONLY <2>14, <3>0, <3>3
        <5> QED
          BY ONLY <2>10, <3>3, <5>1
      <4>2. q[i + 1] = rs[k + 1]
        BY ONLY <2>10, <4>1
      <4>3. ~(rs[k + 1].off <= r.end)
        BY ONLY <2>2, <4>1
      <4>4. f # k => rs[k].end < rs[k + 1].off
        BY ONLY <1>1, <2>7, <4>1
      <4> QED
        BY <1>1, <1>2, <2>8, <4>1, <4>2, <4>3, <4>4
    <3>4. CASE i > f + 1
      <4>1. /\ i \in f + 2 .. Len(q) /\ i + 1 \in f + 2 .. Len(q)
            /\ i - f - 1 + k \in 1 .. n /\ (i + 1) - f - 1 + k \in 1 .. n
            /\ i - f - 1 + k < (i + 1) - f - 1 + k
        BY ONLY <2>14, <3>0, <3>4
      <4>2. q[i] = rs[i - f - 1 + k] /\ q[i + 1] = rs[(i + 1) - f - 1 + k]
        BY <2>10, <4>1
      <4> QED
        BY <1>1, <4>1, <4>2
    <3> QED
      BY ONLY <2>14, <3>0, <3>1, <3>2, <3>3, <3>4
  <2>12. ASSUME NEW b \in Nat
         PROVE  (\E i \in 1 .. Len(q) : q[i].off <= b /\ b < q[i].end) <=>
                  \/ \E i \in 1 .. n : rs[i].off <= b /\ b < rs[i].end
                  \/ r.off <= b /\ b < r.end
    <3>1. ASSUME NEW i \in 1 .. Len(q), q[i].off <= b, b < q[i].end
          PROVE  \/ \E j \in 1 .. n : rs[j].off <= b /\ b < rs[j].end
                 \/ r.off <= b /\ b < r.end
      <4>1. CASE i <= f
        <5>1. i \in 1 .. f /\ i \in 1 .. n
          BY <1>1, <2>1, <2>10, <4>1
        <5> QED
          BY <2>10, <3>1, <5>1
      <4>2. CASE i = f + 1
        <5>1. w.off <= b /\ b < w.end
          BY <2>10, <3>1, <4>2
        <5>2. CASE b < r.off
          <6>1. f # k /\ rs[f + 1].off <= b /\ b < rs[f + 1].end /\ f + 1 \in 1 .. n
            BY <1>1, <1>2, <2>7, <2>8, <5>1, <5>2
          <6> QED
            BY <6>1
        <5>3. CASE b >= r.end
          <6>1. f # k /\ rs[k].off <= b /\ b < rs[k].end /\ k \in 1 .. n
            BY <1>1, <1>2, <2>7, <2>8, <5>1, <5>3
          <6> QED
            BY <6>1
        <5> QED
          BY <1>2, <5>2, <5>3
      <4>3. CASE i > f + 1
        <5>1. i \in f + 2 .. Len(q) /\ i - f - 1 + k \in 1 .. n
          BY ONLY <2>14, <4>3, i \in 1 .. Len(q)
        <5> QED
          BY ONLY <2>10, <3>1, <5>1
      <4> QED
        BY <2>1, <4>1, <4>2, <4>3
    <3>2. ASSUME r.off <= b, b < r.end
          PROVE  \E i \in 1 .. Len(q) : q[i].off <= b /\ b < q[i].end
      <4>0. f + 1 \in 1 .. Len(q)
        BY ONLY <2>14
      <4>1. f + 1 \in 1 .. Len(q) /\ w.off <= b /\ b < w.end
        BY ONLY b \in Nat, <1>1, <1>2, <2>7, <2>8, <3>2, <4>0
      <4> QED
        BY <2>10, <4>1
    <3>3. ASSUME NEW j \in 1 .. n, rs[j].off <= b, b < rs[j].end
          PROVE  \E i \in 1 .. Len(q) : q[i].off <= b /\ b < q[i].end
      <4>1. CASE j <= f
        <5>1. j \in 1 .. f /\ j \in 1 .. Len(q)
          BY <1>1, <2>1, <2>2, <2>10, <4>1
        <5> QED
          BY <2>10, <3>3, <5>1
      <4>2. CASE f < j /\ j <= k
        <5>1. f # k /\ f + 1 \in 1 .. n /\ k \in 1 .. n
          BY <2>1, <2>2, <2>7, <4>2
        <5>2. rs[f + 1].off <= rs[j].off
          <6>1. f + 1 = j \/ f + 1 < j
            BY <2>1, <4>2
          <6>2. f + 1 < j => rs[f + 1].end < rs[j].off
            BY <1>1, <5>1
          <6> QED
            BY <1>1, <5>1, <6>1, <6>2
        <5>3. rs[j].end <= rs[k].end
          <6>1. j = k \/ j < k
            BY <2>2, <4>2
          <6>2. j < k => rs[j].end < rs[k].off
            BY <1>1, <5>1
          <6> QED
            BY <1>1, <5>1, <6>1, <6>2
        <5>0. f + 1 \in 1 .. Len(q)
          BY ONLY <2>14
        <5>4. f + 1 \in 1 .. Len(q) /\ w.off <= b /\ b < w.end
          <6>1. /\ rs[f + 1].off \in Nat /\ rs[k].end \in Nat
                /\ rs[j].off \in Nat /\ rs[j].end \in Nat
            BY ONLY <1>1, <5>1, j \in 1 .. n
          <6>2. w.off \in Nat /\ w.off <= rs[f + 1].off
            BY ONLY <1>2, <2>8, <5>1, <6>1
          <6>3. w.end \in Nat /\ rs[k].end <= w.end
            BY ONLY <1>2, <2>8, <5>1, <6>1
          <6>0. rs[j].off <= b /\ b < rs[j].end
            BY <3>3
          <6>5. PICK a1 \in Nat, a2 \in Nat, a3 \in Nat :
                   a1 = w.off /\ a2 = rs[f + 1].off /\ a3 = rs[j].off
            BY ONLY <6>1, <6>2
          <6>6. PICK e1 \in Nat, e2 \in Nat, e3 \in Nat :
                   e1 = w.end /\ e2 = rs[k].end /\ e3 = rs[j].end
            BY ONLY <6>1, <6>3
          <6>7. a1 <= a2 /\ a2 <= a3 /\ a3 <= b
            BY ONLY <5>2, <6>0, <6>2, <6>5
          <6>8. b < e3 /\ e3 <= e2 /\ e2 <= e1
            BY ONLY <5>3, <6>0, <6>3, <6>6
          <6>9. a1 <= b /\ b < e1
            BY ONLY b \in Nat, a1 \in Nat, a2 \in Nat, a3 \in Nat,
                    e1 \in Nat, e2 \in Nat, e3 \in Nat, <6>7, <6>8
          <6>4. w.off <= b /\ b < w.end
            BY ONLY <6>5, <6>6, <6>9
          <6> QED
            BY <5>0, <6>4
        <5> QED
          BY <2>10, <5>4
      <4>3. CASE k < j
        <5>1. PICK i \in f + 2 .. Len(q) : i = j + f + 1 - k
          BY ONLY <2>14, <4>3, j \in 1 .. n
        <5>2. i - f - 1 + k = j /\ i \in 1 .. Len(q)
          BY ONLY <2>14, <5>1, j \in 1 .. n
        <5>3. q[i] = rs[j]
          BY ONLY <2>10, <5>1, <5>2
        <5> QED
          BY <3>3, <5>2, <5>3
      <4> QED
        BY <2>1, <2>2, <4>1, <4>2, <4>3
    <3> QED
      BY <3>1, <3>2, <3>3
  <2>13. \A b : b \in Cache!Covered(q) <=> b \in Cache!Covered(rs) \/ b \in Cache!Bytes(r)
    <3>1. \A b : b \in Cache!Covered(q) <=>
            b \in Nat /\ \E i \in 1 .. Len(q) : q[i].off <= b /\ b < q[i].end
      BY <2>10, CoveredBytes
    <3>2. \A b : b \in Cache!Covered(rs) <=>
            b \in Nat /\ \E i \in 1 .. n : rs[i].off <= b /\ b < rs[i].end
      BY CoveredBytes
    <3> QED
      BY <1>2, <2>12, <3>1, <3>2, Zenon
  <2> QED
    BY <2>6, <2>10, <2>11, <2>13, Zenon
<1> QED
  BY <1>3, <1>4

-----------------------------------------------------------------------------
(* The entry and its journals.                                             *)

Effects == {"remove", "evict", "invalidate"}

WriteRecords ==
  [state : {"none", "intent", "physical", "coverage", "completed"},
   range : [off : 0 .. CacheSize, end : 0 .. CacheSize]]

EvictionRecords ==
  [state : {"none", "intent", "effects", "metadata", "completed"},
   plan : SUBSET Effects, seen : SUBSET Effects]

CacheTypes ==
  /\ ranges \in Seq(Cache!Ranges)
  /\ pinned \in BOOLEAN /\ dirty \in BOOLEAN /\ reserved \in BOOLEAN
  /\ activeWrites \in Nat
  /\ write \in [Writes -> WriteRecords]
  /\ eviction \in [Evictions -> EvictionRecords]

(* A write that began has a proper range, and once its physical commit is  *)
(* recorded its bytes are on disk until its coverage is.                   *)
WriteIsSound(w) ==
  /\ write[w].state # "none" => write[w].range \in Cache!Ranges
  /\ write[w].state = "physical" => Cache!Bytes(write[w].range) \subseteq bytes

(* What the entry claims is on disk, unless an eviction that removes it is *)
(* about to say so.                                                        *)
Removing(v) == eviction[v].state \in {"intent", "effects"} /\ "remove" \in eviction[v].plan
Backed == Cache!Covered(ranges) \subseteq bytes \/ \E v \in Evictions : Removing(v)

CacheInv ==
  /\ CacheTypes
  /\ Cache!EvictionIsExclusive
  /\ \A w \in Writes : WriteIsSound(w)
  /\ Cache!Normal(ranges)
  /\ Backed
  /\ Cache!CommittedIsCovered

(* The parts of EvictionIsExclusive.                                       *)
Guarded == reserved => ~pinned /\ ~dirty /\ leases = {} /\ activeWrites = 0
Alone ==
  /\ reserved <=> \E v \in Evictions : Cache!Open(v)
  /\ \A u, v \in Evictions : Cache!Open(u) /\ Cache!Open(v) => u = v
PendingWrites == {w \in Writes : Cache!Pending(w)}
Counted == activeWrites = Cardinality(PendingWrites)

(* These three are the property EvictionIsExclusive.                       *)
LEMMA ExclusiveParts ==
  /\ Cache!EvictionIsExclusive <=> Guarded /\ Alone /\ Counted
  /\ (Cache!EvictionIsExclusive)' <=> Guarded' /\ Alone' /\ Counted'
<1>1. /\ Cache!Cardinality(PendingWrites) = Cardinality(PendingWrites)
      /\ Cache!Cardinality(PendingWrites') = Cardinality(PendingWrites')
  BY SameCardinality
<1> QED
  BY <1>1 DEF Cache!EvictionIsExclusive, Guarded, Alone, Counted, PendingWrites

(* The counter follows one write.                                          *)
LEMMA PendingCounts ==
  ASSUME NEW w \in Writes, \A u \in Writes : u # w => write'[u] = write[u]
  PROVE  /\ Cardinality(PendingWrites) \in Nat
         /\ Cache!Pending(w)' /\ Cache!Pending(w)
              => Cardinality(PendingWrites') = Cardinality(PendingWrites)
         /\ Cache!Pending(w)' /\ ~Cache!Pending(w)
              => Cardinality(PendingWrites') = Cardinality(PendingWrites) + 1
         /\ ~Cache!Pending(w)' /\ Cache!Pending(w)
              => Cardinality(PendingWrites') = Cardinality(PendingWrites) - 1
<1> DEFINE P == PendingWrites
           Q == PendingWrites'
<1>1. IsFiniteSet(P)
  BY BoundsAssumption, FS_Subset DEF PendingWrites
<1>2. \A u \in Writes : u # w => (u \in Q <=> u \in P)
  BY DEF PendingWrites, Cache!Pending
<1>3. P \subseteq Writes /\ Q \subseteq Writes
  BY DEF PendingWrites
<1>4. (w \in P <=> Cache!Pending(w)) /\ (w \in Q <=> Cache!Pending(w)')
  BY DEF PendingWrites
<1>5. Cardinality(P) \in Nat
  BY <1>1, FS_CardinalityType
<1>6. w \in P /\ w \in Q => Q = P
  BY <1>2, <1>3
<1>7. w \notin P /\ w \in Q => Q = P \cup {w}
  BY <1>2, <1>3
<1>8. w \in P /\ w \notin Q => Q = P \ {w}
  BY <1>2, <1>3
<1>9. Cardinality(P \cup {w}) = IF w \in P THEN Cardinality(P) ELSE Cardinality(P) + 1
  BY <1>1, FS_AddElement
<1>10. Cardinality(P \ {w}) = IF w \in P THEN Cardinality(P) - 1 ELSE Cardinality(P)
  BY <1>1, FS_RemoveElement
<1> HIDE DEF P, Q
<1>11. /\ w \in P /\ w \in Q => Cardinality(Q) = Cardinality(P)
       /\ w \notin P /\ w \in Q => Cardinality(Q) = Cardinality(P) + 1
       /\ w \in P /\ w \notin Q => Cardinality(Q) = Cardinality(P) - 1
  BY <1>6, <1>7, <1>8, <1>9, <1>10
<1> QED
  BY <1>4, <1>5, <1>11 DEF P, Q

(* A pending write keeps evictions away: the entry is not reserved.        *)
LEMMA PendingBlocks ==
  ASSUME CacheInv, NEW w \in Writes, Cache!Pending(w)
  PROVE  ~reserved /\ \A v \in Evictions : ~Cache!Open(v) /\ ~Removing(v)
<1>1. Guarded /\ Alone /\ Counted
  BY ExclusiveParts DEF CacheInv
<1>2. IsFiniteSet(PendingWrites) /\ w \in PendingWrites
  BY BoundsAssumption, FS_Subset DEF PendingWrites
<1>3. Cardinality(PendingWrites) # 0
  BY <1>2, FS_EmptySet
<1>4. ~reserved
  BY <1>1, <1>3 DEF Guarded, Counted
<1> QED
  BY <1>1, <1>4 DEF Alone, Removing, Cache!Open

(* A write's record whose state alone is replaced.                         *)
LEMMA WriteMoves ==
  ASSUME write \in [Writes -> WriteRecords], NEW w \in Writes,
         NEW s \in {"none", "intent", "physical", "coverage", "completed"},
         write' = [write EXCEPT ![w].state = s]
  PROVE  /\ write' \in [Writes -> WriteRecords]
         /\ write'[w].state = s /\ write'[w].range = write[w].range
         /\ \A u \in Writes : u # w => write'[u] = write[u]
BY Zenon DEF WriteRecords

(* The entry is empty and free at first.                                   *)
LEMMA CacheInit == Cache!Init => CacheInv
<1> SUFFICES ASSUME Cache!Init PROVE CacheInv
  OBVIOUS
<1>1. Cache!Idle /\ bytes = Cache!Covered(ranges)
  BY DEF Cache!Init
<1>2. ranges \in Seq(Cache!Ranges) /\ Cache!Normal(ranges)
  <2>1. PICK n \in 0 .. Cache!Smaller(MaxRanges, (CacheSize + 1) \div 2) :
          \E rs \in [1 .. n -> Cache!Ranges] : Cache!Normal(rs) /\ ranges = rs
    BY DEF Cache!Init
  <2>2. n \in Nat
    BY <2>1
  <2> QED
    BY <2>1, <2>2, SeqDef
<1>3. \A w \in Writes : write[w] = [state |-> "none", range |-> [off |-> 0, end |-> 0]]
  BY <1>1 DEF Cache!Idle
<1>4. \A v \in Evictions : eviction[v] = [state |-> "none", plan |-> {}, seen |-> {}]
  BY <1>1 DEF Cache!Idle
<1>5. CacheTypes
  <2>1. [state |-> "none", range |-> [off |-> 0, end |-> 0]] \in WriteRecords
    BY BoundsAssumption DEF WriteRecords
  <2>2. [state |-> "none", plan |-> {}, seen |-> {}] \in EvictionRecords
    BY DEF EvictionRecords
  <2> QED
    BY <1>1, <1>2, <2>1, <2>2 DEF CacheTypes, Cache!Idle
<1>6. Guarded /\ Alone /\ Counted
  <2>1. PendingWrites = {}
    BY <1>3 DEF PendingWrites, Cache!Pending
  <2>2. Cardinality(PendingWrites) = 0
    BY <2>1, FS_EmptySet
  <2> QED
    BY <1>1, <1>4, <2>2 DEF Guarded, Alone, Counted, Cache!Idle, Cache!Open
<1>7. \A w \in Writes : WriteIsSound(w)
  BY <1>3 DEF WriteIsSound
<1>8. Backed /\ Cache!CommittedIsCovered
  BY <1>1, <1>3 DEF Backed, Cache!CommittedIsCovered
<1> QED
  BY <1>2, <1>5, <1>6, <1>7, <1>8, ExclusiveParts DEF CacheInv

-----------------------------------------------------------------------------
(* The actions.                                                            *)

(* Nothing below the guards changes.                                       *)
LEMMA GuardsKeep ==
  ASSUME CacheInv, UNCHANGED <<ranges, activeWrites, reserved, write, eviction, bytes>>,
         pinned' \in BOOLEAN, dirty' \in BOOLEAN, Guarded'
  PROVE  CacheInv'
<1>1. CacheTypes'
  BY DEF CacheInv, CacheTypes
<1>2. Alone' /\ Counted'
  <2>1. Alone /\ Counted
    BY ExclusiveParts DEF CacheInv
  <2> QED
    BY <2>1 DEF Alone, Counted, PendingWrites, Cache!Open, Cache!Pending
<1>3. \A w \in Writes : WriteIsSound(w)'
  BY DEF CacheInv, WriteIsSound
<1>4. Cache!Normal(ranges)' /\ Backed' /\ (Cache!CommittedIsCovered)'
  BY DEF CacheInv, Backed, Removing, Cache!CommittedIsCovered, Cache!Normal, Cache!Covered
<1> QED
  BY <1>1, <1>2, <1>3, <1>4, ExclusiveParts DEF CacheInv

(* Pins, dirty marks and leases.                                           *)
LEMMA GuardSteps ==
  ASSUME CacheInv,
         \/ \E q \in BOOLEAN : Cache!SetPinned(q)
         \/ Cache!MarkDirty \/ Cache!ClearDirty
         \/ \E l \in Leases : Cache!AcquireLease(l) \/ Cache!ReleaseLease(l)
  PROVE  CacheInv'
<1>1. CacheTypes /\ Guarded
  BY ExclusiveParts DEF CacheInv
<1>2. UNCHANGED <<ranges, activeWrites, reserved, write, eviction, bytes>>
  BY DEF Cache!SetPinned, Cache!MarkDirty, Cache!ClearDirty, Cache!AcquireLease,
         Cache!ReleaseLease
<1>3. pinned' \in BOOLEAN /\ dirty' \in BOOLEAN
  BY <1>1, Zenon
     DEF CacheTypes, Cache!SetPinned, Cache!MarkDirty, Cache!ClearDirty, Cache!AcquireLease,
         Cache!ReleaseLease
<1>4. Guarded'
  BY <1>1
     DEF Guarded, Cache!SetPinned, Cache!MarkDirty, Cache!ClearDirty, Cache!AcquireLease,
         Cache!ReleaseLease
<1> QED
  BY <1>2, <1>3, <1>4, GuardsKeep

(* One write moves, evictions and the guards do not.                       *)
LEMMA WriteKeeps ==
  ASSUME CacheInv, NEW w \in Writes, UNCHANGED <<pinned, dirty, leases, reserved, eviction>>,
         write' \in [Writes -> WriteRecords],
         \A u \in Writes : u # w => write'[u] = write[u],
         activeWrites' \in Nat, Counted', reserved => activeWrites' = 0,
         ranges' \in Seq(Cache!Ranges), Cache!Normal(ranges'),
         Cache!Covered(ranges) \subseteq Cache!Covered(ranges'), bytes \subseteq bytes',
         Backed', WriteIsSound(w)',
         write'[w].state \in {"coverage", "completed"}
           => \/ Cache!Bytes(write'[w].range) \subseteq Cache!Covered(ranges')
              \/ \E v \in Evictions : eviction[v].state # "none"
  PROVE  CacheInv'
<1>1. CacheTypes'
  BY DEF CacheInv, CacheTypes
<1>2. Guarded' /\ Alone'
  <2>1. Guarded /\ Alone
    BY ExclusiveParts DEF CacheInv
  <2> QED
    BY <2>1 DEF Guarded, Alone, Cache!Open
<1>3. \A u \in Writes : WriteIsSound(u)'
  BY DEF CacheInv, WriteIsSound
<1>4. (Cache!CommittedIsCovered)'
  <2> SUFFICES ASSUME \A v \in Evictions : eviction'[v].state = "none", NEW u \in Writes,
                      write'[u].state \in {"coverage", "completed"}
               PROVE  Cache!Bytes(write'[u].range) \subseteq Cache!Covered(ranges')
    BY DEF Cache!CommittedIsCovered
  <2>1. CASE u = w
    BY <2>1
  <2>2. CASE u # w
    <3>1. Cache!Bytes(write[u].range) \subseteq Cache!Covered(ranges) /\ write'[u] = write[u]
      BY <2>2 DEF CacheInv, Cache!CommittedIsCovered
    <3> QED
      BY <3>1
  <2> QED
    BY <2>1, <2>2
<1>5. Cache!Normal(ranges)'
  BY DEF Cache!Normal
<1> QED
  BY <1>1, <1>2, <1>3, <1>4, <1>5, ExclusiveParts DEF CacheInv

(* begin_cache_write is refused while an eviction is open.                 *)
LEMMA BeginWriteKeeps ==
  ASSUME CacheInv, NEW w \in Writes, NEW r \in Cache!Ranges, Cache!BeginCacheWrite(w, r)
  PROVE  CacheInv'
<1>1. /\ UNCHANGED <<ranges, pinned, dirty, leases, reserved, eviction, bytes>>
      /\ ~reserved /\ activeWrites' = activeWrites + 1 /\ write[w].state = "none"
      /\ write' = [write EXCEPT ![w] = [state |-> "intent", range |-> r]]
  BY DEF Cache!BeginCacheWrite
<1>2. CacheTypes /\ Counted /\ Backed
  BY ExclusiveParts DEF CacheInv
<1>3. [state |-> "intent", range |-> r] \in WriteRecords
  BY DEF WriteRecords, Cache!Ranges
<1>4. /\ write' \in [Writes -> WriteRecords] /\ write'[w].state = "intent" /\ write'[w].range = r
      /\ \A u \in Writes : u # w => write'[u] = write[u]
  BY <1>1, <1>2, <1>3 DEF CacheTypes
<1>5. activeWrites' \in Nat /\ Counted'
  <2>1. Cache!Pending(w)' /\ ~Cache!Pending(w)
    BY <1>1, <1>4 DEF Cache!Pending
  <2>2. Cardinality(PendingWrites') = Cardinality(PendingWrites) + 1
    BY <1>4, <2>1, PendingCounts
  <2> QED
    BY <1>1, <1>2, <2>2 DEF Counted, CacheTypes
<1>6. WriteIsSound(w)'
  BY <1>4 DEF WriteIsSound
<1>7. Backed'
  BY <1>1, <1>2 DEF Backed, Removing, Cache!Covered
<1>8. ranges' \in Seq(Cache!Ranges) /\ Cache!Normal(ranges')
  BY <1>1 DEF CacheInv, CacheTypes
<1> QED
  BY <1>1, <1>4, <1>5, <1>6, <1>7, <1>8, WriteKeeps

(* The bytes reach the disk before any record claims them.                 *)
LEMMA InstallKeeps ==
  ASSUME CacheInv, NEW w \in Writes, Cache!InstallBytes(w)
  PROVE  CacheInv'
<1>1. /\ UNCHANGED <<ranges, pinned, dirty, leases, reserved, eviction, activeWrites, write>>
      /\ bytes \subseteq bytes' /\ write[w].state = "intent"
  BY DEF Cache!InstallBytes, Cache!entry
<1>2. CacheTypes /\ Guarded /\ Counted /\ Backed /\ WriteIsSound(w)
  BY ExclusiveParts DEF CacheInv
<1>3. activeWrites' \in Nat /\ Counted' /\ (reserved => activeWrites' = 0)
  BY <1>1, <1>2 DEF CacheTypes, Counted, PendingWrites, Cache!Pending, Guarded
<1>4. WriteIsSound(w)'
  BY <1>1, <1>2 DEF WriteIsSound
<1>5. Backed'
  BY <1>1, <1>2 DEF Backed, Removing, Cache!Covered
<1>6. /\ ranges' \in Seq(Cache!Ranges) /\ Cache!Normal(ranges')
      /\ write' \in [Writes -> WriteRecords]
  BY <1>1 DEF CacheInv, CacheTypes
<1> QED
  BY <1>1, <1>3, <1>4, <1>5, <1>6, WriteKeeps

(* The physical outcome is recorded, again if it was before.               *)
LEMMA RecordPhysicalKeeps ==
  ASSUME CacheInv, NEW w \in Writes, Cache!RecordPhysicalCommit(w)
  PROVE  CacheInv'
<1>1. /\ UNCHANGED <<ranges, pinned, dirty, leases, reserved, eviction, activeWrites, bytes>>
      /\ Cache!Bytes(write[w].range) \subseteq bytes /\ write[w].state = "intent"
      /\ write' = [write EXCEPT ![w].state = "physical"]
  BY Zenon DEF Cache!RecordPhysicalCommit, Cache!Moves, Cache!entry
<1>2. CacheTypes /\ Guarded /\ Counted /\ Backed /\ WriteIsSound(w)
  BY ExclusiveParts, Zenon DEF CacheInv
<1>3. /\ write' \in [Writes -> WriteRecords]
      /\ write'[w].state = "physical" /\ write'[w].range = write[w].range
      /\ \A u \in Writes : u # w => write'[u] = write[u]
  BY <1>1, <1>2, WriteMoves, Zenon DEF CacheTypes
<1>4. /\ UNCHANGED <<ranges, pinned, dirty, leases, reserved, eviction, activeWrites, bytes>>
      /\ Cache!Bytes(write[w].range) \subseteq bytes /\ write[w].state = "intent"
  BY <1>1, Zenon
<1>5. activeWrites' \in Nat /\ Counted' /\ (reserved => activeWrites' = 0)
  <2>1. Cache!Pending(w)' /\ Cache!Pending(w)
    BY ONLY <1>3, <1>4 DEF Cache!Pending
  <2>2. Cardinality(PendingWrites') = Cardinality(PendingWrites)
    BY ONLY <1>3, <2>1, PendingCounts
  <2> QED
    BY ONLY <1>2, <1>4, <2>2 DEF CacheTypes, Counted, Guarded
<1>6. WriteIsSound(w)'
  BY ONLY <1>2, <1>3, <1>4 DEF WriteIsSound
<1>7. Backed'
  BY ONLY <1>2, <1>4 DEF Backed, Removing, Cache!Covered
<1>8. ranges' \in Seq(Cache!Ranges) /\ Cache!Normal(ranges')
  BY ONLY CacheInv, <1>4 DEF CacheInv, CacheTypes
<1> QED
  BY ONLY CacheInv, <1>3, <1>4, <1>5, <1>6, <1>7, <1>8, WriteKeeps

(* The recorded bytes are on disk, and nobody evicts them now.             *)
LEMMA ReconcileCoverageKeeps ==
  ASSUME CacheInv, NEW w \in Writes, Cache!ReconcileCoverage(w)
  PROVE  CacheInv'
<1>1. /\ UNCHANGED <<pinned, dirty, leases, reserved, eviction, activeWrites, bytes>>
      /\ write[w].state = "physical" /\ write' = [write EXCEPT ![w].state = "coverage"]
      /\ ranges' = Cache!Insert(ranges, write[w].range)
  BY Zenon DEF Cache!ReconcileCoverage, Cache!Moves
<1>2. CacheTypes /\ Guarded /\ Counted /\ Backed /\ WriteIsSound(w) /\ Cache!Normal(ranges)
  BY ExclusiveParts, Zenon DEF CacheInv
<1>3. /\ write' \in [Writes -> WriteRecords]
      /\ write'[w].state = "coverage" /\ write'[w].range = write[w].range
      /\ \A u \in Writes : u # w => write'[u] = write[u]
  BY <1>1, <1>2, WriteMoves, Zenon DEF CacheTypes
<1>4. /\ UNCHANGED <<pinned, dirty, leases, reserved, eviction, activeWrites, bytes>>
      /\ write[w].state = "physical" /\ ranges' = Cache!Insert(ranges, write[w].range)
  BY <1>1, Zenon
<1>5. activeWrites' \in Nat /\ Counted' /\ (reserved => activeWrites' = 0)
  <2>1. Cache!Pending(w)' /\ Cache!Pending(w)
    BY ONLY <1>3, <1>4 DEF Cache!Pending
  <2>2. Cardinality(PendingWrites') = Cardinality(PendingWrites)
    BY ONLY <1>3, <2>1, PendingCounts
  <2> QED
    BY ONLY <1>2, <1>4, <2>2 DEF CacheTypes, Counted, Guarded
<1>6. PICK r \in Cache!Ranges : r = write[w].range /\ Cache!Bytes(r) \subseteq bytes
  BY ONLY <1>2, <1>4 DEF WriteIsSound
<1>7. /\ ranges' \in Seq(Cache!Ranges) /\ Cache!Normal(ranges')
      /\ Cache!Covered(ranges') = Cache!Covered(ranges) \cup Cache!Bytes(r)
  BY <1>2, <1>4, <1>6, InsertIsExact, Zenon DEF CacheTypes
<1>8. WriteIsSound(w)'
  BY ONLY <1>3, <1>6 DEF WriteIsSound
<1>9. Backed'
  <2>1. \A v \in Evictions : ~Removing(v)
    BY PendingBlocks, <1>4 DEF Cache!Pending
  <2>2. Cache!Covered(ranges) \subseteq bytes
    BY ONLY <1>2, <2>1 DEF Backed
  <2>3. Cache!Covered(ranges') \subseteq bytes'
    BY ONLY <1>4, <1>6, <1>7, <2>2
  <2> QED
    BY ONLY <2>3 DEF Backed, Cache!Covered
<1>10. /\ Cache!Covered(ranges) \subseteq Cache!Covered(ranges')
       /\ Cache!Bytes(write'[w].range) \subseteq Cache!Covered(ranges')
  BY ONLY <1>3, <1>6, <1>7
<1> QED
  BY ONLY CacheInv, <1>3, <1>4, <1>5, <1>7, <1>8, <1>9, <1>10, WriteKeeps

(* A range recorded without a journal only adds bytes that are on disk.    *)
LEMMA RecordRangeKeeps ==
  ASSUME CacheInv, NEW r \in Cache!Ranges, Cache!RecordProviderRange(r)
  PROVE  CacheInv'
<1>1. /\ UNCHANGED <<pinned, dirty, leases, reserved, write, eviction, activeWrites, bytes>>
      /\ Cache!Bytes(r) \subseteq bytes /\ ranges' = Cache!Insert(ranges, r)
  BY Zenon DEF Cache!RecordProviderRange
<1>2. CacheTypes /\ Guarded /\ Alone /\ Counted /\ Backed /\ Cache!Normal(ranges)
  BY ExclusiveParts DEF CacheInv
<1>3. /\ ranges' \in Seq(Cache!Ranges) /\ Cache!Normal(ranges')
      /\ Cache!Covered(ranges') = Cache!Covered(ranges) \cup Cache!Bytes(r)
  BY <1>1, <1>2, InsertIsExact, Zenon DEF CacheTypes
<1>4. CacheTypes'
  BY <1>1, <1>2, <1>3 DEF CacheTypes
<1>5. Guarded' /\ Alone' /\ Counted'
  BY ONLY <1>1, <1>2 DEF Guarded, Alone, Counted, PendingWrites, Cache!Open, Cache!Pending
<1>6. \A w \in Writes : WriteIsSound(w)'
  BY <1>1 DEF CacheInv, WriteIsSound
<1>7. Backed'
  <2>1. CASE Cache!Covered(ranges) \subseteq bytes
    <3>1. Cache!Covered(ranges') \subseteq bytes'
      BY ONLY <1>1, <1>3, <2>1
    <3> QED
      BY ONLY <3>1 DEF Backed, Cache!Covered
  <2>2. CASE \E v \in Evictions : Removing(v)
    BY ONLY <1>1, <2>2 DEF Backed, Removing
  <2> QED
    BY ONLY <1>2, <2>1, <2>2 DEF Backed
<1>8. (Cache!CommittedIsCovered)'
  <2>1. Cache!CommittedIsCovered
    BY DEF CacheInv
  <2>2. Cache!Covered(ranges) \subseteq Cache!Covered(ranges')
    BY ONLY <1>3
  <2> QED
    BY ONLY <1>1, <2>1, <2>2 DEF Cache!CommittedIsCovered, Cache!Covered
<1> QED
  BY <1>3, <1>4, <1>5, <1>6, <1>7, <1>8, ExclusiveParts DEF CacheInv, Cache!Normal

(* Completion counts the write out once.                                   *)
LEMMA CompleteWriteKeeps ==
  ASSUME CacheInv, NEW w \in Writes, Cache!CompleteCacheWrite(w)
  PROVE  CacheInv'
<1>1. /\ UNCHANGED <<ranges, pinned, dirty, leases, reserved, eviction, bytes>>
      /\ write[w].state = "coverage" /\ write' = [write EXCEPT ![w].state = "completed"]
      /\ activeWrites > 0 /\ activeWrites' = activeWrites - 1
  BY Zenon DEF Cache!CompleteCacheWrite, Cache!Moves
<1>2. CacheTypes /\ Guarded /\ Counted /\ Backed /\ WriteIsSound(w) /\ Cache!CommittedIsCovered
  BY ExclusiveParts, Zenon DEF CacheInv
<1>3. /\ write' \in [Writes -> WriteRecords]
      /\ write'[w].state = "completed" /\ write'[w].range = write[w].range
      /\ \A u \in Writes : u # w => write'[u] = write[u]
  BY <1>1, <1>2, WriteMoves, Zenon DEF CacheTypes
<1>4. /\ UNCHANGED <<ranges, pinned, dirty, leases, reserved, eviction, bytes>>
      /\ write[w].state = "coverage" /\ activeWrites > 0 /\ activeWrites' = activeWrites - 1
  BY <1>1, Zenon
<1>5. activeWrites' \in Nat /\ Counted' /\ (reserved => activeWrites' = 0)
  <2>1. ~Cache!Pending(w)' /\ Cache!Pending(w)
    BY ONLY <1>3, <1>4 DEF Cache!Pending
  <2>2. Cardinality(PendingWrites') = Cardinality(PendingWrites) - 1
    BY ONLY <1>3, <2>1, PendingCounts
  <2> QED
    BY ONLY <1>2, <1>4, <2>2 DEF CacheTypes, Counted, Guarded
<1>6. WriteIsSound(w)'
  BY ONLY <1>2, <1>3, <1>4 DEF WriteIsSound
<1>7. Backed'
  BY ONLY <1>2, <1>4 DEF Backed, Removing, Cache!Covered
<1>8. ranges' \in Seq(Cache!Ranges) /\ Cache!Normal(ranges')
  BY ONLY CacheInv, <1>4 DEF CacheInv, CacheTypes
<1>9. \/ Cache!Bytes(write'[w].range) \subseteq Cache!Covered(ranges')
      \/ \E v \in Evictions : eviction[v].state # "none"
  BY ONLY <1>2, <1>3, <1>4 DEF Cache!CommittedIsCovered
<1> QED
  BY ONLY CacheInv, <1>3, <1>4, <1>5, <1>6, <1>7, <1>8, <1>9, WriteKeeps

(* What an update of an eviction changes.                                  *)
LEMMA EvictionMoves ==
  ASSUME eviction \in [Evictions -> EvictionRecords], NEW v \in Evictions,
         NEW s \in {"none", "intent", "effects", "metadata", "completed"},
         eviction' = [eviction EXCEPT ![v].state = s]
  PROVE  /\ eviction' \in [Evictions -> EvictionRecords]
         /\ eviction'[v].state = s /\ eviction'[v].plan = eviction[v].plan
         /\ \A u \in Evictions : u # v => eviction'[u] = eviction[u]
BY Zenon DEF EvictionRecords

(* An eviction that records its effects.                                   *)
LEMMA EvictionSees ==
  ASSUME eviction \in [Evictions -> EvictionRecords], NEW v \in Evictions,
         NEW s \in {"none", "intent", "effects", "metadata", "completed"}, NEW n \in SUBSET Effects,
         eviction' = [eviction EXCEPT ![v].seen = n, ![v].state = s]
  PROVE  /\ eviction' \in [Evictions -> EvictionRecords]
         /\ eviction'[v].state = s /\ eviction'[v].plan = eviction[v].plan
         /\ \A u \in Evictions : u # v => eviction'[u] = eviction[u]
BY Zenon DEF EvictionRecords

(* An open eviction means that no write is pending and no other is open.   *)
LEMMA OpenExcludes ==
  ASSUME CacheInv, NEW v \in Evictions, Cache!Open(v)
  PROVE  /\ reserved /\ Guarded
         /\ \A w \in Writes : write[w].state # "physical"
         /\ \A u \in Evictions : u # v => ~Cache!Open(u) /\ ~Removing(u)
<1>1. Guarded /\ Alone
  BY ExclusiveParts DEF CacheInv
<1>2. reserved /\ \A u \in Evictions : u # v => ~Cache!Open(u) /\ ~Removing(u)
  BY <1>1 DEF Alone, Removing, Cache!Open
<1>3. \A w \in Writes : write[w].state # "physical"
  BY <1>2, PendingBlocks DEF Cache!Pending
<1> QED
  BY <1>1, <1>2, <1>3

(* A step of an eviction that has begun.                                   *)
LEMMA EvictionKeeps ==
  ASSUME CacheInv, NEW v \in Evictions,
         UNCHANGED <<pinned, dirty, leases, activeWrites, write>>,
         reserved' \in BOOLEAN, eviction' \in [Evictions -> EvictionRecords],
         eviction'[v].state # "none", Guarded', Alone', Backed',
         \A w \in Writes : write[w].state = "physical" => bytes' = bytes,
         ranges' \in Seq(Cache!Ranges), Cache!Normal(ranges')
  PROVE  CacheInv'
<1>1. CacheTypes'
  BY DEF CacheInv, CacheTypes
<1>2. Counted'
  <2>1. Counted
    BY ExclusiveParts DEF CacheInv
  <2> QED
    BY <2>1 DEF Counted, PendingWrites, Cache!Pending
<1>3. \A w \in Writes : WriteIsSound(w)'
  BY DEF CacheInv, WriteIsSound
<1>4. (Cache!CommittedIsCovered)'
  BY DEF Cache!CommittedIsCovered
<1>5. Cache!Normal(ranges)'
  BY DEF Cache!Normal
<1> QED
  BY <1>1, <1>2, <1>3, <1>4, <1>5, ExclusiveParts DEF CacheInv

(* reserve_eviction finds no blocker, and becomes one.                     *)
LEMMA BeginEvictionKeeps ==
  ASSUME CacheInv, NEW v \in Evictions, NEW t \in {"provider", "platform", "all"},
         Cache!BeginEviction(v, t)
  PROVE  CacheInv'
<1>1. /\ UNCHANGED <<ranges, pinned, dirty, leases, activeWrites, write, bytes>>
      /\ eviction[v].state = "none" /\ ~Cache!Blocked /\ reserved' = TRUE
      /\ eviction' = [eviction EXCEPT ![v] =
           [state |-> "intent", plan |-> Cache!ForTarget(t), seen |-> {}]]
  BY DEF Cache!BeginEviction
<1>2. CacheTypes /\ Guarded /\ Alone /\ Backed /\ Cache!Normal(ranges)
  BY ExclusiveParts DEF CacheInv
<1>3. Cache!ForTarget(t) \in SUBSET Effects
  BY DEF Cache!ForTarget, Effects
<1>4. [state |-> "intent", plan |-> Cache!ForTarget(t), seen |-> {}] \in EvictionRecords
  BY <1>3 DEF EvictionRecords
<1>5. /\ eviction' \in [Evictions -> EvictionRecords] /\ eviction'[v].state = "intent"
      /\ \A u \in Evictions : u # v => eviction'[u] = eviction[u]
  BY <1>1, <1>2, <1>4 DEF CacheTypes
<1>6. Guarded'
  BY <1>1, <1>2 DEF Cache!Blocked, Guarded, CacheTypes
<1>7. Alone'
  BY <1>1, <1>2, <1>5 DEF Cache!Blocked, Alone, Cache!Open
<1>8. Backed'
  <2>1. \A u \in Evictions : ~Removing(u)
    BY <1>1, <1>2 DEF Cache!Blocked, Alone, Removing, Cache!Open
  <2> QED
    BY <1>1, <1>2, <2>1 DEF Backed, Cache!Covered
<1>9. ranges' \in Seq(Cache!Ranges) /\ Cache!Normal(ranges')
  BY <1>1, <1>2 DEF CacheTypes
<1>10. reserved' \in BOOLEAN /\ eviction'[v].state # "none"
  BY <1>1, <1>5
<1> QED
  BY <1>1, <1>5, <1>6, <1>7, <1>8, <1>9, <1>10, EvictionKeeps

(* The bytes go only while the eviction still owes the entry the news.     *)
LEMMA CarryOutKeeps ==
  ASSUME CacheInv, NEW v \in Evictions, NEW e \in Effects, Cache!CarryOut(v, e)
  PROVE  CacheInv'
<1>1. /\ UNCHANGED <<ranges, pinned, dirty, leases, activeWrites, reserved, write, eviction>>
      /\ eviction[v].state = "intent" /\ e \in eviction[v].plan
      /\ bytes' = IF e = "remove" THEN {} ELSE bytes
  BY DEF Cache!CarryOut, Cache!entry
<1>2. CacheTypes /\ Guarded /\ Alone /\ Backed /\ Cache!Normal(ranges)
  BY ExclusiveParts DEF CacheInv
<1>3. \A w \in Writes : write[w].state # "physical"
  BY <1>1, OpenExcludes DEF Cache!Open
<1>4. Guarded' /\ Alone'
  BY <1>1, <1>2 DEF Guarded, Alone, Cache!Open
<1>5. Backed'
  BY <1>1, <1>2 DEF Backed, Removing, Cache!Covered
<1>6. /\ ranges' \in Seq(Cache!Ranges) /\ Cache!Normal(ranges') /\ reserved' \in BOOLEAN
      /\ eviction' \in [Evictions -> EvictionRecords] /\ eviction'[v].state # "none"
  BY <1>1, <1>2 DEF CacheTypes
<1> QED
  BY <1>1, <1>3, <1>4, <1>5, <1>6, EvictionKeeps

(* The effects of an eviction are recorded after they happened.            *)
LEMMA RecordEffectKeeps ==
  ASSUME CacheInv, NEW v \in Evictions, NEW e \in Effects, Cache!RecordEffect(v, e)
  PROVE  CacheInv'
<1>1. CacheTypes /\ Guarded /\ Alone /\ Backed /\ Cache!Normal(ranges)
  BY ExclusiveParts DEF CacheInv
<1>2. PICK n \in SUBSET Effects : n = eviction[v].seen \cup {e}
  BY <1>1 DEF CacheTypes, EvictionRecords
<1>3. PICK s \in {"intent", "effects"} :
        s = IF Cache!AllEffectsSeen(v, n) THEN "effects" ELSE eviction[v].state
  BY DEF Cache!RecordEffect
<1>4. /\ UNCHANGED <<ranges, pinned, dirty, leases, activeWrites, reserved, write, bytes>>
      /\ eviction[v].state = "intent"
  BY DEF Cache!RecordEffect, Cache!entry
<1>5. eviction' = [eviction EXCEPT ![v].seen = n, ![v].state = s]
  BY <1>2, <1>3, Zenon DEF Cache!RecordEffect
<1>6. /\ eviction' \in [Evictions -> EvictionRecords]
      /\ eviction'[v].state = s /\ eviction'[v].plan = eviction[v].plan
      /\ \A u \in Evictions : u # v => eviction'[u] = eviction[u]
  <2>1. s \in {"none", "intent", "effects", "metadata", "completed"}
    BY Zenon
  <2> QED
    BY <1>1, <1>5, <2>1, EvictionSees, Zenon DEF CacheTypes
<1>7. Guarded' /\ Alone'
  BY ONLY <1>1, <1>4, <1>6, s \in {"intent", "effects"} DEF Guarded, Alone, Cache!Open
<1>8. Backed'
  BY ONLY <1>1, <1>4, <1>6, s \in {"intent", "effects"} DEF Backed, Removing, Cache!Covered
<1>9. /\ ranges' \in Seq(Cache!Ranges) /\ Cache!Normal(ranges') /\ reserved' \in BOOLEAN
      /\ eviction'[v].state # "none"
  BY ONLY <1>1, <1>4, <1>6, s \in {"intent", "effects"} DEF CacheTypes
<1> QED
  BY ONLY CacheInv, <1>4, <1>6, <1>7, <1>8, <1>9, EvictionKeeps

(* The metadata forgets exactly what the eviction removed.                 *)
LEMMA ReconcileEvictionKeeps ==
  ASSUME CacheInv, NEW v \in Evictions, Cache!ReconcileEviction(v)
  PROVE  CacheInv'
<1>1. /\ UNCHANGED <<pinned, dirty, leases, activeWrites, reserved, write, bytes>>
      /\ eviction[v].state = "effects"
      /\ ranges' = IF "remove" \in eviction[v].plan THEN <<>> ELSE ranges
  BY DEF Cache!ReconcileEviction
<1>2. CacheTypes /\ Guarded /\ Alone /\ Backed /\ Cache!Normal(ranges)
  BY ExclusiveParts DEF CacheInv
<1>3. eviction' = [eviction EXCEPT ![v].state = "metadata"]
  BY DEF Cache!ReconcileEviction
<1>4. /\ eviction' \in [Evictions -> EvictionRecords]
      /\ eviction'[v].state = "metadata" /\ eviction'[v].plan = eviction[v].plan
      /\ \A u \in Evictions : u # v => eviction'[u] = eviction[u]
  BY <1>2, <1>3, EvictionMoves, Zenon DEF CacheTypes
<1>5. Guarded' /\ Alone'
  BY ONLY <1>1, <1>2, <1>4 DEF Guarded, Alone, Cache!Open
<1>6. ranges' \in Seq(Cache!Ranges) /\ Cache!Normal(ranges')
      /\ Cache!Covered(ranges') \subseteq bytes'
  <2>1. CASE "remove" \in eviction[v].plan
    <3>1. ranges' = <<>> /\ Len(<<>>) = 0
      BY <1>1, <2>1
    <3>2. Cache!Covered(<<>>) = {} /\ Cache!Normal(<<>>)
      BY DEF Cache!Covered, Cache!Normal
    <3> QED
      BY ONLY <3>1, <3>2
  <2>2. CASE "remove" \notin eviction[v].plan
    <3>1. ranges' = ranges /\ bytes' = bytes
      BY <1>1, <2>2
    <3>2. \A u \in Evictions : ~Removing(u)
      BY <1>1, <2>2, OpenExcludes DEF Removing, Cache!Open
    <3>3. Cache!Covered(ranges) \subseteq bytes
      BY ONLY <1>2, <3>2 DEF Backed
    <3> QED
      BY ONLY <1>2, <3>1, <3>3 DEF CacheTypes
  <2> QED
    BY <2>1, <2>2
<1>7. Backed'
  BY ONLY <1>6 DEF Backed, Cache!Covered
<1>8. reserved' \in BOOLEAN /\ eviction'[v].state # "none"
  BY ONLY <1>1, <1>2, <1>4 DEF CacheTypes
<1> QED
  BY ONLY CacheInv, <1>1, <1>4, <1>5, <1>6, <1>7, <1>8, EvictionKeeps

(* Completion frees the entry.                                             *)
LEMMA CompleteEvictionKeeps ==
  ASSUME CacheInv, NEW v \in Evictions, Cache!CompleteEviction(v)
  PROVE  CacheInv'
<1>1. /\ UNCHANGED <<ranges, pinned, dirty, leases, activeWrites, write, bytes>>
      /\ eviction[v].state = "metadata" /\ reserved' = FALSE
  BY DEF Cache!CompleteEviction
<1>2. CacheTypes /\ Guarded /\ Alone /\ Backed /\ Cache!Normal(ranges)
  BY ExclusiveParts DEF CacheInv
<1>3. eviction' = [eviction EXCEPT ![v].state = "completed"]
  BY DEF Cache!CompleteEviction
<1>4. /\ eviction' \in [Evictions -> EvictionRecords]
      /\ eviction'[v].state = "completed" /\ eviction'[v].plan = eviction[v].plan
      /\ \A u \in Evictions : u # v => eviction'[u] = eviction[u]
  BY <1>2, <1>3, EvictionMoves, Zenon DEF CacheTypes
<1>5. \A u \in Evictions : ~Removing(u) /\ (u # v => ~Cache!Open(u))
  BY <1>1, OpenExcludes DEF Removing, Cache!Open
<1>6. Guarded' /\ Alone'
  BY ONLY <1>1, <1>2, <1>4, <1>5 DEF Guarded, Alone, Cache!Open
<1>7. Backed'
  BY ONLY <1>1, <1>2, <1>5 DEF Backed, Cache!Covered
<1>8. /\ ranges' \in Seq(Cache!Ranges) /\ Cache!Normal(ranges') /\ reserved' \in BOOLEAN
      /\ eviction'[v].state # "none"
  BY ONLY <1>1, <1>2, <1>4 DEF CacheTypes
<1> QED
  BY ONLY CacheInv, <1>1, <1>4, <1>6, <1>7, <1>8, EvictionKeeps

(* Every step of the entry keeps the invariant.                            *)
LEMMA CacheNext ==
  ASSUME CacheInv, Cache!Next
  PROVE  CacheInv'
BY GuardSteps, BeginWriteKeeps, InstallKeeps, RecordPhysicalKeeps, ReconcileCoverageKeeps,
   RecordRangeKeeps,
   CompleteWriteKeeps, BeginEvictionKeeps, CarryOutKeeps, RecordEffectKeeps,
   ReconcileEvictionKeeps, CompleteEvictionKeeps
   DEF Cache!Next, Cache!WriteStep, Cache!Journals, Cache!EvictionStep, Effects

(* A step of another part leaves the entry.                                *)
LEMMA CacheRests ==
  ASSUME CacheInv, UNCHANGED <<entryVars, cacheVars>>
  PROVE  CacheInv'
<1>1. UNCHANGED <<ranges, activeWrites, reserved, write, eviction, bytes, pinned, dirty, leases>>
  BY DEF entryVars, cacheVars
<1>2. Guarded /\ CacheTypes
  BY ExclusiveParts DEF CacheInv
<1>3. Guarded' /\ pinned' \in BOOLEAN /\ dirty' \in BOOLEAN
  BY <1>1, <1>2 DEF Guarded, CacheTypes
<1> QED
  BY <1>1, <1>3, GuardsKeep

(* The entry keeps its invariant whatever part a behaviour is about.       *)
THEOREM CacheInvariant == Spec => [](part = "cache" => CacheInv)
<1>1. Init => (part = "cache" => CacheInv)
  BY CacheInit DEF Init, InitOfCore, InitOfMount
<1>2. (part = "cache" => CacheInv) /\ [Next]_vars => (part = "cache" => CacheInv)'
  <2> SUFFICES ASSUME part = "cache" => CacheInv, [Next]_vars, part' = "cache" PROVE CacheInv'
    OBVIOUS
  <2>1. CASE InCache(Cache!Next)
    BY <2>1, CacheNext DEF InCache
  <2>2. CASE UNCHANGED vars
    BY <2>2, CacheRests DEF vars
  <2>3. CASE \/ InMutation(Mutation!Next) \/ InUpload(Upload!Next)
             \/ InFragments(Fragmented!Next) \/ InHydration(Hydrate!Next)
             \/ InNamespace("local", Local!Next) \/ InNamespace("feed", Feed!Next)
    BY <2>3 DEF InMutation, InUpload, InFragments, InHydration, InNamespace
  <2> QED
    BY <2>1, <2>2, <2>3 DEF Next
<1> QED
  BY <1>1, <1>2, PTL DEF Spec

(* An eviction excludes pins, local changes, leases, cache writes and      *)
(* other evictions from its intent to its completion, and the counters     *)
(* say what the journals hold (reserve_eviction, eviction_blockers).       *)
THEOREM EvictionsAreExclusive == Spec => []EvictionIsExclusive
<1>1. (part = "cache" => CacheInv) => EvictionIsExclusive
  BY DEF CacheInv, EvictionIsExclusive
<1> QED
  BY <1>1, CacheInvariant, PTL

(* What the entry claims to hold is on disk, in normal form, answered for  *)
(* exactly, and contains every committed write (ContentRangeSet::insert    *)
(* and covers, the order of effect, record and metadata).                  *)
THEOREM CoverageIsOnDisk == Spec => []CoverageIsBacked
<1>1. (part = "cache" => CacheInv) => CoverageIsBacked
  <2> SUFFICES ASSUME CacheInv PROVE Cache!CoverageIsBacked /\ Cache!CommittedIsCovered
    BY DEF CoverageIsBacked
  <2>1. ranges \in Seq(Cache!Ranges) /\ Cache!Normal(ranges) /\ Backed /\ Alone
    BY ExclusiveParts DEF CacheInv, CacheTypes
  <2>2. ~reserved => Cache!Covered(ranges) \subseteq bytes
    BY <2>1 DEF Backed, Alone, Removing, Cache!Open
  <2>3. \A r \in Cache!Ranges :
          Cache!Covers(ranges, r) <=> Cache!Bytes(r) \subseteq Cache!Covered(ranges)
    BY <2>1, CoversIsExact
  <2> QED
    BY <2>1, <2>2, <2>3 DEF CacheInv, Cache!CoverageIsBacked
<1> QED
  BY <1>1, CacheInvariant, PTL

-----------------------------------------------------------------------------
(* Shared hydration work.                                                  *)

Works == [id : Nat, content : Contents, start : Nat, end : Nat, whole : BOOLEAN, count : Nat,
          read : {"pending", "ok", "failed"}]
Deps == [id : Nat, start : Nat, end : Nat]
WaiterStates == [terminal : {"none", "pending", "completed", "cancelled", "released"},
                 start : Nat, end : Nat, deps : SUBSET Deps]

HydrationTypes ==
  /\ work \subseteq Works /\ IsFiniteSet(work) /\ nextId \in Nat
  /\ waiter \in [Hydrate!Waiters -> WaiterStates]
  /\ \A w \in Hydrate!Waiters : ~Hydrate!Holds(w) => waiter[w].deps = {}

(* An entry has an id of its own, and a whole one spans the content.       *)
EntriesAreDistinct ==
  /\ \A k \in work : k.id < nextId /\ k.start <= k.end
  /\ \A k \in work : k.whole => k.start = 0 /\ k.end = HydrateSize
  /\ \A k, l \in work : k.id = l.id => k = l

(* What a waiter depends on is live, and every byte of its target is in it.*)
TargetsAreCovered ==
  \A w \in Hydrate!Waiters : Hydrate!Holds(w) =>
    /\ waiter[w].start <= waiter[w].end
    /\ \A d \in waiter[w].deps :
         \E k \in work : k.id = d.id /\ k.start = d.start /\ k.end = d.end
    /\ \A x \in Nat : waiter[w].start <= x /\ x < waiter[w].end =>
         \E d \in waiter[w].deps : d.start <= x /\ x < d.end

(* The waiters of an entry.                                                *)
WaitersOf(id) == {w \in Hydrate!Waiters : Hydrate!Holds(w) /\ Hydrate!Depends(w, id)}

CountsAreRight ==
  \A k \in work : k.count > 0 /\ k.count = Cardinality(WaitersOf(k.id))

LimitsHold ==
  /\ Cardinality(work) <= MaxWork
  /\ \A c \in Contents : Cardinality(Hydrate!OfContent(c)) <= MaxPerContent

HydrationInv ==
  /\ HydrationTypes /\ EntriesAreDistinct /\ TargetsAreCovered
  /\ CountsAreRight /\ LimitsHold

(* The instance counts as this module does.                                *)
LEMMA HydrationCardinality == \A S : Hydrate!Cardinality(S) = Cardinality(S)
BY DEF Hydrate!Cardinality, Cardinality

(* A set of numbers with a bound has a greatest one.                       *)
LEMMA MaxFacts ==
  ASSUME NEW b \in Nat, NEW S, S \subseteq 0 .. b, S # {}
  PROVE  Hydrate!MaxOf(S) \in S /\ \A n \in S : n <= Hydrate!MaxOf(S)
<1> DEFINE U == {u \in Nat : \A n \in S : n <= u}
<1>1. b \in U /\ U \subseteq Nat
  OBVIOUS
<1>2. PICK u \in U : \A m \in U : u <= m
  BY <1>1, LeastNat
<1>3. u \in S
  <2> SUFFICES ASSUME u \notin S PROVE FALSE
    OBVIOUS
  <2>1. \A n \in S : n <= u - 1 /\ n \in Nat
    OBVIOUS
  <2>2. PICK n \in S : n \in Nat /\ n <= u - 1
    BY <2>1
  <2>3. u - 1 \in U
    BY <1>1, <1>2, <2>1, <2>2
  <2> QED
    BY <1>1, <1>2, <2>3
<1>4. \E m \in S : \A n \in S : n <= m
  BY <1>3
<1> QED
  BY <1>4 DEF Hydrate!MaxOf

(* A cursor is at the start or where an entry ends, and beyond none.       *)
LEMMA CursorFacts ==
  ASSUME NEW e, e.start \in Nat, e.end \in Nat, e.start <= e.end,
         NEW D, \A d \in D : d.end \in Nat
  PROVE  /\ Hydrate!Cursor(e, D) \in Nat
         /\ e.start <= Hydrate!Cursor(e, D) /\ Hydrate!Cursor(e, D) <= e.end
         /\ \A d \in D : d.end <= Hydrate!Cursor(e, D) \/ Hydrate!Cursor(e, D) = e.end
         /\ Hydrate!Cursor(e, D) = e.start \/ \E d \in D : Hydrate!Cursor(e, D) <= d.end
<1> DEFINE S == {e.start} \cup {Hydrate!Least(d.end, e.end) : d \in D}
<1>1. S \subseteq 0 .. e.end /\ S # {}
  BY DEF Hydrate!Least
<1>2. PICK c : c = Hydrate!Cursor(e, D)
  OBVIOUS
<1>3. c \in S /\ \A n \in S : n <= c
  BY <1>1, <1>2, MaxFacts DEF Hydrate!Cursor
<1>4. c \in Nat /\ e.start <= c /\ c <= e.end
  BY <1>1, <1>3
<1>5. \A d \in D : d.end <= c \/ c = e.end
  BY <1>3, <1>4 DEF Hydrate!Least
<1>6. c = e.start \/ \E d \in D : c <= d.end
  BY <1>3 DEF Hydrate!Least
<1> QED
  BY ONLY <1>2, <1>4, <1>5, <1>6

(* When every byte of a target is in a dependency, a walk over them in     *)
(* their order leaves no hole: the byte at the cursor is in an earlier one.*)
LEMMA WalkIsExact ==
  ASSUME NEW v, v.start \in Nat, v.end \in Nat, v.start <= v.end, v.deps \subseteq Deps,
         \A x \in Nat : v.start <= x /\ x < v.end => \E d \in v.deps : d.start <= x /\ x < d.end
  PROVE  /\ \A d \in v.deps : Hydrate!Contributes(v, d) => d.start <= Hydrate!Copied(v, d)
         /\ Hydrate!Cursor(v, v.deps) = v.end
<1>0. \A d \in v.deps : d.start \in Nat /\ d.end \in Nat
  BY DEF Deps
<1>1. ASSUME NEW d \in v.deps, Hydrate!Contributes(v, d)
      PROVE  d.start <= Hydrate!Copied(v, d)
  <2> DEFINE D == {c \in v.deps : c.start < v.end /\ Hydrate!Before(c, d)}
  <2>1. PICK p : p = Hydrate!Cursor(v, D)
    OBVIOUS
  <2>2. \A c \in D : c.end \in Nat
    BY <1>0
  <2>3. /\ p \in Nat /\ v.start <= p /\ p <= v.end
        /\ \A c \in D : c.end <= p \/ p = v.end
    BY ONLY <2>1, <2>2, v.start \in Nat, v.end \in Nat, v.start <= v.end, CursorFacts
  <2>4. p = Hydrate!Copied(v, d) /\ p < v.end
    BY <1>1, <2>1 DEF Hydrate!Copied, Hydrate!Contributes
  <2>5. PICK c \in v.deps : c.start <= p /\ p < c.end
    BY <2>3, <2>4
  <2>6. ASSUME ~(d.start <= p) PROVE FALSE
    <3>1. c.start < d.start /\ c.start < v.end
      BY <1>0, <2>3, <2>4, <2>5, <2>6
    <3>2. c \in D
      BY <3>1 DEF Hydrate!Before
    <3> QED
      BY <1>0, <2>3, <2>4, <2>5, <3>2
  <2> QED
    BY <2>4, <2>6
<1>2. Hydrate!Cursor(v, v.deps) = v.end
  <2>1. PICK p : p = Hydrate!Cursor(v, v.deps)
    OBVIOUS
  <2>2. /\ p \in Nat /\ v.start <= p /\ p <= v.end
        /\ \A c \in v.deps : c.end <= p \/ p = v.end
    BY <1>0, <2>1, CursorFacts
  <2>3. p = v.end
    <3> SUFFICES ASSUME p < v.end PROVE FALSE
      BY <2>2
    <3>1. PICK c \in v.deps : c.start <= p /\ p < c.end
      BY <2>2
    <3> QED
      BY <1>0, <2>2, <3>1
  <2> QED
    BY <2>1, <2>3
<1> QED
  BY <1>1, <1>2

(* Entries among which the gaps are looked for.                            *)
Extents(e) == e.start \in Nat /\ e.end \in Nat /\ e.start <= e.end
Entries(E) == \A k \in E : k.id \in Nat /\ k.start \in Nat /\ k.end \in Nat /\ k.start <= k.end

(* The place of a gap, after the last entry or before one.                 *)
AfterAll(g, e, E) ==
  g.end = e.end /\ g.start = Hydrate!Cursor(e, E) /\ \A d \in E : d.end <= g.start
JustBefore(g, k, e, E) ==
  /\ g.end = Hydrate!Least(k.start, e.end)
  /\ g.start = Hydrate!Cursor(e, {d \in E : Hydrate!Before(d, k)})
  /\ \A d \in E : Hydrate!Before(d, k) => d.end <= g.start
Inside(g, e) ==
  /\ g.start \in Nat /\ g.end \in Nat /\ g.start < g.end
  /\ e.start <= g.start /\ g.end <= e.end
  /\ g = [start |-> g.start, end |-> g.end]

(* A gap lies in the extent, before an entry or after the last.            *)
LEMMA GapShape ==
  ASSUME NEW e, Extents(e), NEW E, Entries(E), NEW g \in Hydrate!Gaps(e, E)
  PROVE  Inside(g, e) /\ (AfterAll(g, e, E) \/ \E k \in E : JustBefore(g, k, e, E))
<1>1. CASE g = [start |-> Hydrate!Cursor(e, E), end |-> e.end]
  <2>1. PICK c : c = Hydrate!Cursor(e, E)
    OBVIOUS
  <2>2. /\ c \in Nat /\ e.start <= c /\ c <= e.end
        /\ \A d \in E : d.end <= c \/ c = e.end
    BY <2>1, CursorFacts DEF Extents, Entries
  <2>3. g.start = c /\ g.end = e.end /\ g.start < g.end
    BY <1>1, <2>1 DEF Hydrate!Gaps
  <2> QED
    BY <1>1, <2>1, <2>2, <2>3 DEF Extents, Inside, AfterAll
<1>2. CASE \E k \in E : g = [start |-> Hydrate!Cursor(e, {d \in E : Hydrate!Before(d, k)}),
                             end |-> Hydrate!Least(k.start, e.end)]
  <2>1. PICK k \in E : g = [start |-> Hydrate!Cursor(e, {d \in E : Hydrate!Before(d, k)}),
                            end |-> Hydrate!Least(k.start, e.end)]
    BY <1>2
  <2> DEFINE D == {d \in E : Hydrate!Before(d, k)}
  <2>2. PICK c : c = Hydrate!Cursor(e, D)
    OBVIOUS
  <2>3. /\ c \in Nat /\ e.start <= c /\ c <= e.end
        /\ \A d \in D : d.end <= c \/ c = e.end
    <3>1. \A d \in D : d.end \in Nat
      BY DEF Entries
    <3> QED
      BY ONLY <2>2, <3>1, Extents(e), CursorFacts DEF Extents
  <2>4. g.start = c /\ g.end = Hydrate!Least(k.start, e.end) /\ g.start < g.end
    BY <2>1, <2>2 DEF Hydrate!Gaps
  <2>5. g.end \in Nat /\ g.end <= e.end
    BY <2>4 DEF Hydrate!Least, Extents, Entries
  <2>6. \A d \in E : Hydrate!Before(d, k) => d.end <= g.start
    BY <2>3, <2>4, <2>5 DEF Extents
  <2> QED
    BY <2>1, <2>2, <2>3, <2>4, <2>5, <2>6 DEF Inside, JustBefore
<1> QED
  BY <1>1, <1>2 DEF Hydrate!Gaps

(* Entries have an id each, so that their order is total.                  *)
Distinct(E) == \A k, l \in E : k.id = l.id => k = l

LEMMA FirstEntry ==
  ASSUME NEW E, Entries(E), Distinct(E), E # {}
  PROVE  \E k \in E : \A l \in E : ~Hydrate!Before(l, k)
<1>1. PICK s \in {k.start : k \in E} : \A n \in {k.start : k \in E} : s <= n
  <2>1. {k.start : k \in E} \subseteq Nat /\ {k.start : k \in E} # {}
    BY DEF Entries
  <2> QED
    BY ONLY <2>1, LeastNat
<1> DEFINE F == {k \in E : k.start = s}
<1>2. PICK n \in {k.end : k \in F} : \A m \in {k.end : k \in F} : n <= m
  <2>1. {k.end : k \in F} \subseteq Nat /\ {k.end : k \in F} # {}
    BY DEF Entries
  <2> QED
    BY ONLY <2>1, LeastNat
<1> DEFINE G == {k \in F : k.end = n}
<1>3. PICK i \in {k.id : k \in G} : \A m \in {k.id : k \in G} : i <= m
  <2>1. {k.id : k \in G} \subseteq Nat /\ {k.id : k \in G} # {}
    BY DEF Entries
  <2> QED
    BY ONLY <2>1, LeastNat
<1>4. PICK k \in G : k.id = i
  OBVIOUS
<1>5. ASSUME NEW l \in E, Hydrate!Before(l, k) PROVE FALSE
  <2>1. /\ k.start = s /\ k.end = n /\ k.id = i
        /\ s \in Nat /\ n \in Nat /\ i \in Nat
        /\ l.start \in Nat /\ l.end \in Nat /\ l.id \in Nat
    BY <1>4 DEF Entries
  <2>2. s <= l.start
    BY <1>1
  <2>3. l.start = s => n <= l.end
    BY <1>2
  <2>4. l.start = s /\ l.end = n => i <= l.id
    BY <1>3
  <2>5. \/ l.start < k.start
        \/ l.start = k.start /\ l.end < k.end
        \/ l.start = k.start /\ l.end = k.end /\ l.id < k.id
    BY <1>5 DEF Hydrate!Before
  <2> QED
    BY ONLY <2>1, <2>2, <2>3, <2>4, <2>5
<1> QED
  BY <1>4, <1>5

(* Every byte of an extent is in an entry or in a gap.                     *)
LEMMA GapsCover ==
  ASSUME NEW e, Extents(e), NEW E, Entries(E), Distinct(E),
         NEW x \in Nat, e.start <= x, x < e.end
  PROVE  \/ \E k \in E : k.start <= x /\ x < k.end
         \/ \E g \in Hydrate!Gaps(e, E) : g.start <= x /\ x < g.end
<1> SUFFICES ASSUME \A k \in E : k.start <= x => k.end <= x
             PROVE  \E g \in Hydrate!Gaps(e, E) : g.start <= x /\ x < g.end
  BY DEF Entries
<1> DEFINE K == {k \in E : x < k.start}
<1>1. ASSUME NEW D, D \subseteq E, D \cap K = {}
      PROVE  Hydrate!Cursor(e, D) \in Nat /\ Hydrate!Cursor(e, D) <= x
  <2>1. PICK c : c = Hydrate!Cursor(e, D)
    OBVIOUS
  <2>2. \A d \in D : d.end \in Nat /\ d.end <= x
    BY <1>1 DEF Entries
  <2>3. c \in Nat /\ (c = e.start \/ \E d \in D : c <= d.end)
    BY ONLY <2>1, <2>2, Extents(e), CursorFacts DEF Extents
  <2>4. c <= x
    BY ONLY <2>2, <2>3, x \in Nat, e.start <= x
  <2> QED
    BY ONLY <2>1, <2>3, <2>4
<1>2. CASE K = {}
  <2>1. PICK c : c = Hydrate!Cursor(e, E)
    OBVIOUS
  <2>2. c \in Nat /\ c <= x
    BY <1>1, <1>2, <2>1
  <2> DEFINE g == [start |-> c, end |-> e.end]
  <2>3. g.start < g.end /\ g.start <= x /\ x < g.end
    BY ONLY <2>2, x \in Nat, x < e.end, Extents(e) DEF Extents
  <2>4. g \in Hydrate!Gaps(e, E)
    BY <2>1, <2>3 DEF Hydrate!Gaps
  <2> QED
    BY <2>3, <2>4
<1>3. CASE K # {}
  <2>1. PICK k \in K : \A l \in K : ~Hydrate!Before(l, k)
    <3>1. Entries(K) /\ Distinct(K)
      BY DEF Entries, Distinct
    <3> QED
      BY ONLY <3>1, <1>3, FirstEntry
  <2> DEFINE D == {d \in E : Hydrate!Before(d, k)}
  <2>2. PICK c : c = Hydrate!Cursor(e, D)
    OBVIOUS
  <2>3. c \in Nat /\ c <= x
    <3>1. D \subseteq E /\ D \cap K = {}
      BY <2>1
    <3> QED
      BY ONLY <1>1, <2>2, <3>1
  <2> DEFINE g == [start |-> c, end |-> Hydrate!Least(k.start, e.end)]
  <2>4. x < g.end /\ g.end \in Nat
    BY <2>1 DEF Hydrate!Least, Extents, Entries
  <2>5. g.start < g.end /\ g.start <= x /\ x < g.end
    BY ONLY <2>3, <2>4, x \in Nat
  <2>6. g \in Hydrate!Gaps(e, E)
    BY <2>1, <2>2, <2>5 DEF Hydrate!Gaps
  <2> QED
    BY <2>5, <2>6
<1> QED
  BY <1>2, <1>3

(* Gaps do not overlap, as an entry lies between any two of them.          *)
LEMMA GapsAreApart ==
  ASSUME NEW e, Extents(e), NEW E, Entries(E), Distinct(E),
         NEW g \in Hydrate!Gaps(e, E), NEW h \in Hydrate!Gaps(e, E)
  PROVE  g = h \/ g.end <= h.start \/ h.end <= g.start
<1>1. Inside(g, e) /\ Inside(h, e)
  BY GapShape
<1>2. /\ AfterAll(g, e, E) \/ \E k \in E : JustBefore(g, k, e, E)
      /\ AfterAll(h, e, E) \/ \E k \in E : JustBefore(h, k, e, E)
  BY GapShape
<1>3. ASSUME NEW p, NEW k \in E, JustBefore(p, k, e, E), Inside(p, e)
      PROVE  p.end <= k.start /\ k.start <= k.end /\ p.end \in Nat /\ k.end \in Nat
  BY <1>3 DEF Hydrate!Least, Extents, Entries, Inside, JustBefore
<1>4. ASSUME NEW p, NEW q, Inside(p, e), Inside(q, e), AfterAll(q, e, E), NEW k \in E, JustBefore(p, k, e, E)
      PROVE  p.end <= q.start
  <2>1. k.end <= q.start
    BY <1>4 DEF AfterAll
  <2>2. p.end <= k.start /\ k.start <= k.end /\ p.end \in Nat /\ k.end \in Nat
    BY <1>3, <1>4
  <2> QED
    BY <1>4, <2>1, <2>2 DEF Entries, Inside
<1>5. ASSUME NEW p, NEW q, Inside(p, e), Inside(q, e), NEW k \in E, NEW l \in E, JustBefore(p, k, e, E), JustBefore(q, l, e, E),
             Hydrate!Before(k, l)
      PROVE  p.end <= q.start
  <2>1. k.end <= q.start
    BY <1>5 DEF JustBefore
  <2>2. p.end <= k.start /\ k.start <= k.end /\ p.end \in Nat /\ k.end \in Nat
    BY <1>3, <1>5
  <2> QED
    BY <1>5, <2>1, <2>2 DEF Entries, Inside
<1>6. ASSUME NEW k \in E, NEW l \in E
      PROVE  k = l \/ Hydrate!Before(k, l) \/ Hydrate!Before(l, k)
  BY DEF Hydrate!Before, Entries, Distinct
<1>7. CASE AfterAll(g, e, E) /\ AfterAll(h, e, E)
  BY <1>1, <1>7 DEF Inside, AfterAll
<1>8. CASE \E k, l \in E : JustBefore(g, k, e, E) /\ JustBefore(h, l, e, E)
  <2>1. PICK k \in E, l \in E : JustBefore(g, k, e, E) /\ JustBefore(h, l, e, E)
    BY <1>8
  <2>2. CASE k = l
    BY <1>1, <2>1, <2>2 DEF Inside, JustBefore
  <2>3. CASE Hydrate!Before(k, l)
    BY <1>1, <1>5, <2>1, <2>3
  <2>4. CASE Hydrate!Before(l, k)
    BY <1>1, <1>5, <2>1, <2>4
  <2> QED
    BY <1>6, <2>2, <2>3, <2>4
<1> QED
  BY <1>1, <1>2, <1>4, <1>7, <1>8

(* The image of a finite set is finite and not larger.                     *)
LEMMA ImageBound ==
  ASSUME NEW S, IsFiniteSet(S), NEW f, NEW T, T \subseteq {f[x] : x \in S}
  PROVE  IsFiniteSet(T) /\ Cardinality(T) <= Cardinality(S)
<1> DEFINE R == {x \in S : f[x] \in T}
           g == [x \in R |-> f[x]]
<1>1. /\ IsFiniteSet(R) /\ Cardinality(R) <= Cardinality(S)
      /\ Cardinality(R) \in Nat /\ Cardinality(S) \in Nat
  BY FS_Subset, FS_CardinalityType
<1>2. g \in Surjection(R, T)
  <2>1. g \in [R -> T]
    OBVIOUS
  <2>2. \A y \in T : \E x \in R : g[x] = y
    OBVIOUS
  <2> QED
    BY ONLY <2>1, <2>2 DEF Surjection
<1>3. IsFiniteSet(T) /\ Cardinality(T) <= Cardinality(R) /\ Cardinality(T) \in Nat
  BY ONLY <1>1, <1>2, FS_Surjection, FS_CardinalityType
<1> QED
  BY ONLY <1>1, <1>3

(* The gaps are as many as the entries and one, at most.                   *)
LEMMA GapsFinite ==
  ASSUME NEW e, NEW E, IsFiniteSet(E)
  PROVE  IsFiniteSet(Hydrate!Gaps(e, E))
<1> DEFINE f == [k \in E |-> [start |-> Hydrate!Cursor(e, {d \in E : Hydrate!Before(d, k)}),
                              end |-> Hydrate!Least(k.start, e.end)]]
           L == [start |-> Hydrate!Cursor(e, E), end |-> e.end]
           I == {f[k] : k \in E}
<1>1. IsFiniteSet(I)
  BY ImageBound
<1>2. IsFiniteSet(I \cup {L})
  BY ONLY <1>1, FS_AddElement
<1>3. Hydrate!Gaps(e, E) \subseteq I \cup {L}
  BY DEF Hydrate!Gaps
<1> QED
  BY ONLY <1>2, <1>3, FS_Subset

(* Extents that work is created for.                                       *)
NewExtents(X) ==
  /\ IsFiniteSet(X)
  /\ \A e \in X : Extents(e) /\ e = [start |-> e.start, end |-> e.end]
  /\ \A e, f \in X : e.start = f.start => e = f

(* How many extents begin before one of them: its place in their order.    *)
Rank(X, e) == Cardinality({p \in X : p.start < e.start})

LEMMA RankFacts ==
  ASSUME NEW X, NewExtents(X)
  PROVE  /\ Cardinality(X) \in Nat
         /\ \A e \in X : Rank(X, e) \in Nat /\ Rank(X, e) < Cardinality(X)
         /\ \A d, e \in X : Rank(X, d) = Rank(X, e) => d = e
<1> DEFINE Below(e) == {p \in X : p.start < e.start}
<1>0. IsFiniteSet(X) /\ \A e \in X : e.start \in Nat
  BY DEF NewExtents, Extents
<1>1. Cardinality(X) \in Nat
  BY <1>0, FS_CardinalityType
<1>2. ASSUME NEW e \in X
      PROVE  IsFiniteSet(Below(e)) /\ Rank(X, e) \in Nat /\ Rank(X, e) < Cardinality(X)
  <2>1. PICK B : B = Below(e)
    OBVIOUS
  <2>2. B \in SUBSET X /\ e \notin B /\ IsFiniteSet(X)
    BY <1>0, <2>1
  <2>3. /\ IsFiniteSet(B) /\ Cardinality(B) \in Nat
        /\ Cardinality(B) <= Cardinality(X)
        /\ Cardinality(X) = Cardinality(B) => X = B
    BY ONLY <2>2, FS_Subset, FS_CardinalityType
  <2>4. Cardinality(B) < Cardinality(X)
    BY ONLY <1>1, <1>2, <2>2, <2>3
  <2> QED
    BY <2>1, <2>3, <2>4 DEF Rank
<1>3. ASSUME NEW d \in X, NEW e \in X, d.start < e.start
      PROVE  Rank(X, d) < Rank(X, e)
  <2>1. PICK B, C : B = Below(d) /\ C = Below(e)
    OBVIOUS
  <2>2. B \in SUBSET C /\ d \in C /\ d \notin B
    BY <1>0, <1>3, <2>1
  <2>3. IsFiniteSet(C) /\ Cardinality(C) \in Nat /\ Cardinality(B) \in Nat
    BY <1>2, <2>1 DEF Rank
  <2>4. /\ Cardinality(B) <= Cardinality(C)
        /\ Cardinality(C) = Cardinality(B) => C = B
    BY ONLY <2>2, <2>3, FS_Subset
  <2>5. Cardinality(B) < Cardinality(C)
    BY ONLY <2>2, <2>3, <2>4
  <2> QED
    BY <2>1, <2>5 DEF Rank
<1>4. ASSUME NEW d \in X, NEW e \in X, Rank(X, d) = Rank(X, e) PROVE d = e
  <2>1. ~(d.start < e.start) /\ ~(e.start < d.start)
    <3>1. Rank(X, d) \in Nat /\ Rank(X, e) \in Nat
      BY <1>2
    <3>2. d.start < e.start => Rank(X, d) < Rank(X, e)
      BY <1>3
    <3>3. e.start < d.start => Rank(X, e) < Rank(X, d)
      BY <1>3
    <3> QED
      BY ONLY <1>4, <3>1, <3>2, <3>3
  <2>2. d.start = e.start
    BY <1>0, <2>1
  <2> QED
    BY <2>2 DEF NewExtents
<1> QED
  BY <1>1, <1>2, <1>4

(* New entries take the next ids, one each.                                *)
LEMMA NewWorkFacts ==
  ASSUME NEW X, NewExtents(X), nextId \in Nat, NEW c \in Contents, NEW whole \in BOOLEAN
  PROVE  LET N == Hydrate!NewWork(c, X, whole) IN
         /\ N \subseteq Works /\ IsFiniteSet(N) /\ Cardinality(N) <= Cardinality(X)
         /\ \A k \in N : /\ nextId <= k.id /\ k.id < nextId + Cardinality(X)
                         /\ k.content = c /\ k.whole = whole /\ k.count = 0
                         /\ \E e \in X : k.start = e.start /\ k.end = e.end
         /\ \A k, l \in N : k.id = l.id => k = l
         /\ \A e \in X : \E k \in N : k.start = e.start /\ k.end = e.end
<1> DEFINE f == [e \in X |-> Hydrate!Entry(nextId + Rank(X, e), c, e, whole)]
           N == Hydrate!NewWork(c, X, whole)
<1>1. /\ Cardinality(X) \in Nat
      /\ \A e \in X : Rank(X, e) \in Nat /\ Rank(X, e) < Cardinality(X)
      /\ \A d, e \in X : Rank(X, d) = Rank(X, e) => d = e
  BY RankFacts
<1>2. N = {f[e] : e \in X}
  <2>1. \A e \in X : Hydrate!Cardinality({p \in X : p.start < e.start}) = Rank(X, e)
    BY HydrationCardinality DEF Rank
  <2> QED
    BY <2>1 DEF Hydrate!NewWork
<1>3. IsFiniteSet(N) /\ Cardinality(N) <= Cardinality(X)
  <2>1. IsFiniteSet(X)
    BY DEF NewExtents
  <2>2. N \subseteq {f[e] : e \in X}
    BY <1>2
  <2> QED
    BY ONLY <2>1, <2>2, ImageBound
<1>4. ASSUME NEW e \in X
      PROVE  /\ f[e] \in Works /\ f[e].id = nextId + Rank(X, e) /\ f[e].content = c
             /\ f[e].whole = whole /\ f[e].count = 0 /\ f[e].start = e.start /\ f[e].end = e.end
  <2>1. nextId + Rank(X, e) \in Nat /\ e.start \in Nat /\ e.end \in Nat
    BY <1>1 DEF NewExtents, Extents
  <2>2. PICK i \in Nat : i = nextId + Rank(X, e)
    BY <2>1
  <2>3. f[e] = [id |-> i, content |-> c, start |-> e.start, end |-> e.end,
                whole |-> whole, count |-> 0, read |-> "pending"]
    BY <2>2, Zenon DEF Hydrate!Entry
  <2> QED
    BY ONLY <2>1, <2>2, <2>3, c \in Contents, whole \in BOOLEAN DEF Works
<1>5. PICK g : g = f
  OBVIOUS
<1> HIDE DEF f, N
<1>6. \A e \in X : nextId <= nextId + Rank(X, e) /\ nextId + Rank(X, e) < nextId + Cardinality(X)
  BY <1>1
<1>7. \A d, e \in X : g[d].id = g[e].id => d = e
  BY <1>1, <1>4, <1>5
<1>8. /\ N \subseteq Works
      /\ \A k \in N : /\ nextId <= k.id /\ k.id < nextId + Cardinality(X)
                      /\ k.content = c /\ k.whole = whole /\ k.count = 0
                      /\ \E e \in X : k.start = e.start /\ k.end = e.end
  BY <1>2, <1>4, <1>5, <1>6
<1>9. /\ \A k, l \in N : k.id = l.id => k = l
      /\ \A e \in X : \E k \in N : k.start = e.start /\ k.end = e.end
  BY <1>2, <1>4, <1>5, <1>7
<1> QED
  BY <1>3, <1>8, <1>9 DEF N

(* What a step leaves of an entry: all but its count and its read.         *)
SameShape(k, l) ==
  /\ l.id = k.id /\ l.content = k.content /\ l.whole = k.whole
  /\ l.start = k.start /\ l.end = k.end

Recounted(k) == [k EXCEPT !.count = @ + 1]
Uncounted(k) == [k EXCEPT !.count = @ - 1]
Answered(k, res) == [k EXCEPT !.read = res]

LEMMA RecountedFacts ==
  ASSUME NEW k \in Works
  PROVE  Recounted(k) \in Works /\ SameShape(k, Recounted(k)) /\ Recounted(k).count = k.count + 1
<1>1. PICK n \in Nat : n = k.count + 1
  BY DEF Works
<1>2. Recounted(k) = [k EXCEPT !.count = n]
  BY <1>1, Zenon DEF Recounted
<1>3. /\ [k EXCEPT !.count = n] \in Works /\ [k EXCEPT !.count = n].count = n
      /\ SameShape(k, [k EXCEPT !.count = n])
  BY Zenon DEF Works, SameShape
<1> QED
  BY <1>1, <1>2, <1>3

LEMMA UncountedFacts ==
  ASSUME NEW k \in Works, k.count > 1
  PROVE  /\ Uncounted(k) \in Works /\ SameShape(k, Uncounted(k))
         /\ Uncounted(k).count = k.count - 1
<1>1. PICK n \in Nat : n = k.count - 1
  BY DEF Works
<1>2. Uncounted(k) = [k EXCEPT !.count = n]
  BY <1>1, Zenon DEF Uncounted
<1>3. /\ [k EXCEPT !.count = n] \in Works /\ [k EXCEPT !.count = n].count = n
      /\ SameShape(k, [k EXCEPT !.count = n])
  BY Zenon DEF Works, SameShape
<1> QED
  BY <1>1, <1>2, <1>3

LEMMA AnsweredFacts ==
  ASSUME NEW k \in Works, NEW res \in {"pending", "ok", "failed"}
  PROVE  /\ Answered(k, res) \in Works /\ SameShape(k, Answered(k, res))
         /\ Answered(k, res).count = k.count
BY Zenon DEF Works, SameShape, Answered

(* The entries of a content among some.                                    *)
Among(W, c) == {k \in W : k.content = c}

(* m takes the entries P to the entries W.                                 *)
Remaps(m, P, W) ==
  /\ \A k \in P : m[k] \in Works /\ SameShape(k, m[k])
  /\ W = {m[k] : k \in P}

(* A step that maps entries to entries of the same shape keeps them apart  *)
(* and adds none.                                                          *)
LEMMA RemappedWork ==
  ASSUME NEW P, IsFiniteSet(P), \A k, l \in P : k.id = l.id => k = l,
         NEW m, NEW W, Remaps(m, P, W)
  PROVE  /\ W \subseteq Works /\ IsFiniteSet(W)
         /\ Cardinality(W) <= Cardinality(P)
         /\ \A c : Cardinality(Among(W, c)) <= Cardinality(Among(P, c))
         /\ \A k, l \in W : k.id = l.id => k = l
<1>0. W = {m[k] : k \in P} /\ \A k \in P : m[k] \in Works /\ SameShape(k, m[k])
  BY DEF Remaps
<1>1. W \subseteq Works
  BY <1>0
<1>2. IsFiniteSet(W) /\ Cardinality(W) <= Cardinality(P)
  BY <1>0, ImageBound
<1>3. ASSUME NEW c
      PROVE  Cardinality(Among(W, c)) <= Cardinality(Among(P, c))
  <2>1. PICK Q, V : Q = Among(P, c) /\ V = Among(W, c)
    OBVIOUS
  <2>2. IsFiniteSet(Q)
    BY <2>1, FS_Subset DEF Among
  <2>3. V \subseteq {m[k] : k \in Q}
    BY <1>0, <2>1 DEF SameShape, Among
  <2>4. Cardinality(V) <= Cardinality(Q)
    BY ONLY <2>2, <2>3, ImageBound
  <2> QED
    BY <2>1, <2>4
<1>4. \A k, l \in W : k.id = l.id => k = l
  BY <1>0 DEF SameShape
<1> QED
  BY <1>1, <1>2, <1>3, <1>4

(* One waiter changes.                                                     *)
LEMMA OneWaiter ==
  ASSUME waiter \in [Hydrate!Waiters -> WaiterStates], NEW w \in Hydrate!Waiters,
         NEW r \in WaiterStates, waiter' = [waiter EXCEPT ![w] = r]
  PROVE  /\ waiter' \in [Hydrate!Waiters -> WaiterStates] /\ waiter'[w] = r
         /\ \A v \in Hydrate!Waiters : v # w => waiter'[v] = waiter[v]
OBVIOUS

(* The limits, with this module's Cardinality.                             *)
LEMMA LimitsBySets ==
  LimitsHold <=> /\ Cardinality(work) <= MaxWork
                 /\ \A c \in Contents : Cardinality(Among(work, c)) <= MaxPerContent
BY DEF LimitsHold, Hydrate!OfContent, Among

(* A waiter that wins its terminal flag, or fails to register, disturbs    *)
(* no work.                                                                *)
LEMMA WaiterOnlyKeeps ==
  ASSUME HydrationInv, UNCHANGED <<work, nextId>>, NEW w \in Hydrate!Waiters,
         NEW r \in WaiterStates, waiter' = [waiter EXCEPT ![w] = r],
         r.deps = waiter[w].deps,
         r.terminal \notin {"none", "released"} <=> Hydrate!Holds(w),
         Hydrate!Holds(w) => r.start = waiter[w].start /\ r.end = waiter[w].end
  PROVE  HydrationInv'
<1>1. work' = work /\ nextId' = nextId
  OBVIOUS
<1>2. /\ waiter' \in [Hydrate!Waiters -> WaiterStates] /\ waiter'[w] = r
      /\ \A v \in Hydrate!Waiters : v # w => waiter'[v] = waiter[v]
  <2>1. waiter \in [Hydrate!Waiters -> WaiterStates]
    BY DEF HydrationInv, HydrationTypes
  <2> QED
    BY ONLY <2>1, w \in Hydrate!Waiters, r \in WaiterStates,
            waiter' = [waiter EXCEPT ![w] = r], OneWaiter
<1>3. \A v \in Hydrate!Waiters :
        /\ Hydrate!Holds(v)' <=> Hydrate!Holds(v)
        /\ waiter'[v].deps = waiter[v].deps
        /\ Hydrate!Holds(v) => waiter'[v].start = waiter[v].start /\ waiter'[v].end = waiter[v].end
  BY <1>2 DEF Hydrate!Holds
<1>4. \A id : WaitersOf(id)' = WaitersOf(id)
  BY <1>3 DEF WaitersOf, Hydrate!Depends
<1>5. HydrationTypes'
  BY <1>1, <1>2, <1>3 DEF HydrationInv, HydrationTypes
<1>6. EntriesAreDistinct'
  BY <1>1 DEF HydrationInv, EntriesAreDistinct
<1>7. TargetsAreCovered'
  BY <1>1, <1>3 DEF HydrationInv, TargetsAreCovered
<1>8. CountsAreRight'
  BY <1>1, <1>4 DEF HydrationInv, CountsAreRight
<1>9. LimitsHold'
  BY <1>1 DEF HydrationInv, LimitsHold, Hydrate!OfContent
<1> QED
  BY <1>5, <1>6, <1>7, <1>8, <1>9 DEF HydrationInv

(* An entry has finitely many waiters.                                     *)
LEMMA WaitersAreFinite ==
  \A id : IsFiniteSet(WaitersOf(id)) /\ Cardinality(WaitersOf(id)) \in Nat
<1> SUFFICES ASSUME NEW id
             PROVE  IsFiniteSet(WaitersOf(id)) /\ Cardinality(WaitersOf(id)) \in Nat
  OBVIOUS
<1>1. IsFiniteSet(1 .. NumWaiters)
  BY BoundsAssumption, FS_Interval
<1>2. WaitersOf(id) \subseteq 1 .. NumWaiters
  BY DEF WaitersOf, Hydrate!Waiters
<1> QED
  BY ONLY <1>1, <1>2, FS_Subset, FS_CardinalityType

(* What a dependency remembers of an entry.                                *)
DepOf(k) == [id |-> k.id, start |-> k.start, end |-> k.end]

(* A waiter that shares the existing work and adds entries for the rest of *)
(* its target, within the limits.                                          *)
LEMMA JoinedKeeps ==
  ASSUME HydrationInv, NEW w \in Hydrate!Waiters, ~Hydrate!Holds(w), NEW c \in Contents,
         NEW target, Extents(target),
         NEW existing, existing \subseteq Hydrate!OfContent(c),
         NEW X, NewExtents(X), NEW whole \in BOOLEAN,
         whole => \A e \in X : e.start = 0 /\ e.end = HydrateSize,
         \A x \in Nat : target.start <= x /\ x < target.end =>
            \/ \E k \in existing : k.start <= x /\ x < k.end
            \/ \E e \in X : e.start <= x /\ x < e.end,
         X = {} \/ Hydrate!EnsureCapacity(c, Cardinality(X)),
         NEW deps, deps = existing \cup Hydrate!NewWork(c, X, whole),
         work' = (work \ existing) \cup {Recounted(k) : k \in deps},
         nextId' = nextId + Cardinality(X),
         waiter' = [waiter EXCEPT ![w] =
            [terminal |-> "pending", start |-> target.start, end |-> target.end,
             deps |-> {DepOf(k) : k \in deps}]]
  PROVE  HydrationInv'
<1>1. /\ work \subseteq Works /\ IsFiniteSet(work) /\ nextId \in Nat
      /\ waiter \in [Hydrate!Waiters -> WaiterStates]
      /\ \A v \in Hydrate!Waiters : ~Hydrate!Holds(v) => waiter[v].deps = {}
  BY DEF HydrationInv, HydrationTypes
<1>2. /\ \A k \in work : k.id < nextId /\ k.start <= k.end
      /\ \A k \in work : k.whole => k.start = 0 /\ k.end = HydrateSize
      /\ \A k, l \in work : k.id = l.id => k = l
  BY DEF HydrationInv, EntriesAreDistinct
<1>3. PICK N : N = Hydrate!NewWork(c, X, whole)
  OBVIOUS
<1>4. /\ N \subseteq Works /\ IsFiniteSet(N) /\ Cardinality(N) <= Cardinality(X)
      /\ \A k \in N : /\ nextId <= k.id /\ k.id < nextId + Cardinality(X)
                      /\ k.content = c /\ k.whole = whole /\ k.count = 0
                      /\ \E e \in X : k.start = e.start /\ k.end = e.end
      /\ \A k, l \in N : k.id = l.id => k = l
      /\ \A e \in X : \E k \in N : k.start = e.start /\ k.end = e.end
  BY ONLY <1>1, <1>3, NewExtents(X), c \in Contents, whole \in BOOLEAN, NewWorkFacts
<1>5. PICK n \in Nat : n = Cardinality(X)
  BY FS_CardinalityType DEF NewExtents
<1>6. /\ existing \subseteq work /\ (\A k \in existing : k.content = c)
      /\ deps = existing \cup N
  BY <1>3 DEF Hydrate!OfContent
<1> DEFINE P == work \cup N
           m == [k \in P |-> IF k \in deps THEN Recounted(k) ELSE k]
<1>7. /\ P \subseteq Works /\ IsFiniteSet(P) /\ deps \subseteq P
      /\ \A k, l \in P : k.id = l.id => k = l
      /\ \A k \in P : k.id < nextId + n /\ k.id \in Nat
  <2>1. IsFiniteSet(P)
    BY <1>1, <1>4, FS_Union
  <2>2. \A k \in P : k.id \in Nat
    BY <1>1, <1>4 DEF Works
  <2>3. \A k \in work, l \in N : k.id # l.id
    BY <1>1, <1>2, <1>4, <2>2
  <2>4. \A k, l \in P : k.id = l.id => k = l
    BY <1>2, <1>4, <2>3
  <2>5. \A k \in P : k.id < nextId + n
    BY <1>1, <1>2, <1>4, <1>5, <2>2
  <2> QED
    BY <1>1, <1>4, <1>6, <2>1, <2>2, <2>4, <2>5
<1>8. \A k \in P :
        /\ m[k] \in Works /\ SameShape(k, m[k])
        /\ m[k].count = IF k \in deps THEN k.count + 1 ELSE k.count
  BY <1>7, RecountedFacts DEF SameShape
<1>9. work' = {m[k] : k \in P}
  <2>1. \A k \in P : m[k] = IF k \in deps THEN Recounted(k) ELSE k
    OBVIOUS
  <2>2. \A k \in work : k \notin deps <=> k \notin existing
    BY <1>1, <1>2, <1>4, <1>6, <1>7
  <2>3. \A k \in P : m[k] \in work'
    BY <1>6, <2>1, <2>2
  <2>4. ASSUME NEW l \in work' PROVE \E k \in P : l = m[k]
    <3>1. CASE l \in work \ existing
      BY <2>1, <2>2, <3>1
    <3>2. CASE \E k \in deps : l = Recounted(k)
      BY <1>7, <2>1, <3>2
    <3> QED
      BY <3>1, <3>2
  <2> HIDE DEF P, m
  <2> QED
    BY <2>3, <2>4
<1>10. PICK f : f = m
  OBVIOUS
<1>11. PICK r : r = [terminal |-> "pending", start |-> target.start, end |-> target.end,
                     deps |-> {DepOf(k) : k \in deps}]
  OBVIOUS
<1>12. /\ r \in WaiterStates /\ r.terminal = "pending"
       /\ r.start = target.start /\ r.end = target.end /\ r.deps = {DepOf(k) : k \in deps}
  <2>1. {DepOf(k) : k \in deps} \subseteq Deps
    BY <1>7 DEF DepOf, Deps, Works
  <2> QED
    BY <1>11, <2>1 DEF WaiterStates, Extents
<1> HIDE DEF P, m
<1>13. /\ waiter' \in [Hydrate!Waiters -> WaiterStates] /\ waiter'[w] = r
       /\ \A v \in Hydrate!Waiters : v # w => waiter'[v] = waiter[v]
  <2>1. waiter' = [waiter EXCEPT ![w] = r]
    BY <1>11
  <2> QED
    BY ONLY <1>1, <1>12, <2>1, w \in Hydrate!Waiters, OneWaiter
<1>14. /\ Hydrate!Holds(w)'
       /\ \A v \in Hydrate!Waiters : v # w => (Hydrate!Holds(v)' <=> Hydrate!Holds(v))
  BY <1>12, <1>13 DEF Hydrate!Holds
<1>15. /\ work' \subseteq Works /\ IsFiniteSet(work')
       /\ Cardinality(work') <= Cardinality(P)
       /\ \A d : Cardinality(Among(work', d)) <= Cardinality(Among(P, d))
       /\ \A k, l \in work' : k.id = l.id => k = l
  <2>1. PICK W : W = work'
    OBVIOUS
  <2>2. W = {f[k] : k \in P}
    BY <1>9, <1>10, <2>1
  <2>3. Remaps(f, P, W)
    BY <1>8, <1>10, <2>2 DEF Remaps
  <2>4. IsFiniteSet(P) /\ \A k, l \in P : k.id = l.id => k = l
    BY <1>7
  <2>5. /\ W \subseteq Works /\ IsFiniteSet(W) /\ Cardinality(W) <= Cardinality(P)
        /\ \A d : Cardinality(Among(W, d)) <= Cardinality(Among(P, d))
        /\ \A k, l \in W : k.id = l.id => k = l
    BY ONLY <2>3, <2>4, RemappedWork
  <2> QED
    BY ONLY <2>1, <2>5
<1>16. HydrationTypes'
  <2>1. nextId' \in Nat
    BY <1>1, <1>5
  <2>2. \A v \in Hydrate!Waiters : ~Hydrate!Holds(v)' => waiter'[v].deps = {}
    BY <1>1, <1>13, <1>14
  <2> QED
    BY <1>13, <1>15, <2>1, <2>2 DEF HydrationTypes
<1>17. EntriesAreDistinct'
  <2>1. \A k \in P : k.start <= k.end /\ (k.whole => k.start = 0 /\ k.end = HydrateSize)
    <3>1. \A k \in N : k.start <= k.end /\ (k.whole => k.start = 0 /\ k.end = HydrateSize)
      BY <1>4 DEF NewExtents, Extents
    <3> QED
      BY <1>2, <3>1 DEF P
  <2>2. nextId' = nextId + n
    BY <1>5
  <2>3. \A k \in work' : k.id < nextId' /\ k.start <= k.end
    BY <1>7, <1>8, <1>9, <2>1, <2>2 DEF SameShape
  <2>4. \A k \in work' : k.whole => k.start = 0 /\ k.end = HydrateSize
    <3> SUFFICES ASSUME NEW l \in work', l.whole PROVE l.start = 0 /\ l.end = HydrateSize
      OBVIOUS
    <3>1. PICK k \in P : l = f[k]
      BY <1>9, <1>10
    <3>2. k.whole /\ l.start = k.start /\ l.end = k.end
      BY <1>8, <1>10, <3>1 DEF SameShape
    <3> QED
      BY <2>1, <3>2
  <2> QED
    BY <1>15, <2>3, <2>4 DEF EntriesAreDistinct
<1>18. TargetsAreCovered'
  <2>1. ASSUME NEW v \in Hydrate!Waiters, v # w, Hydrate!Holds(v)
        PROVE  /\ waiter'[v].start <= waiter'[v].end
               /\ \A d \in waiter'[v].deps :
                    \E k \in work' : k.id = d.id /\ k.start = d.start /\ k.end = d.end
               /\ \A x \in Nat : waiter'[v].start <= x /\ x < waiter'[v].end =>
                    \E d \in waiter'[v].deps : d.start <= x /\ x < d.end
    <3>1. waiter'[v] = waiter[v]
      BY <1>13, <2>1
    <3>2. /\ waiter[v].start <= waiter[v].end
          /\ \A d \in waiter[v].deps :
               \E k \in work : k.id = d.id /\ k.start = d.start /\ k.end = d.end
          /\ \A x \in Nat : waiter[v].start <= x /\ x < waiter[v].end =>
               \E d \in waiter[v].deps : d.start <= x /\ x < d.end
      BY <2>1 DEF HydrationInv, TargetsAreCovered
    <3>3. \A k \in work : \E l \in work' : l.id = k.id /\ l.start = k.start /\ l.end = k.end
      BY <1>8, <1>9 DEF SameShape, P
    <3> QED
      BY <3>1, <3>2, <3>3
  <2>2. \A d \in r.deps : \E k \in work' : k.id = d.id /\ k.start = d.start /\ k.end = d.end
    BY <1>7, <1>8, <1>9, <1>12 DEF SameShape, DepOf
  <2>3. ASSUME NEW x \in Nat, target.start <= x, x < target.end
        PROVE  \E d \in r.deps : d.start <= x /\ x < d.end
    <3>1. PICK k \in deps : k.start <= x /\ x < k.end
      BY <1>4, <1>6, <2>3
    <3>2. DepOf(k) \in r.deps /\ DepOf(k).start = k.start /\ DepOf(k).end = k.end
      BY <1>12 DEF DepOf
    <3> QED
      BY <3>1, <3>2
  <2>4. /\ waiter'[w].start <= waiter'[w].end
        /\ \A d \in waiter'[w].deps :
             \E k \in work' : k.id = d.id /\ k.start = d.start /\ k.end = d.end
        /\ \A x \in Nat : waiter'[w].start <= x /\ x < waiter'[w].end =>
             \E d \in waiter'[w].deps : d.start <= x /\ x < d.end
    BY <1>12, <1>13, <2>2, <2>3 DEF Extents
  <2> QED
    BY <1>14, <2>1, <2>4 DEF TargetsAreCovered
<1>19. CountsAreRight'
  <2>1. ASSUME NEW k \in P
        PROVE  /\ k \in deps => WaitersOf(k.id)' = WaitersOf(k.id) \cup {w}
               /\ k \notin deps => WaitersOf(k.id)' = WaitersOf(k.id)
    <3>1. (\E d \in waiter'[w].deps : d.id = k.id) <=> k \in deps
      <4>1. waiter'[w].deps = {DepOf(l) : l \in deps} /\ \A l : DepOf(l).id = l.id
        BY <1>12, <1>13 DEF DepOf
      <4>2. \A l \in deps : l.id = k.id => l = k
        BY <1>7, <2>1
      <4> QED
        BY ONLY <4>1, <4>2
    <3>2. \A v \in Hydrate!Waiters :
            v \in WaitersOf(k.id)' <=> IF v = w THEN k \in deps ELSE v \in WaitersOf(k.id)
      BY <1>13, <1>14, <3>1 DEF WaitersOf, Hydrate!Depends
    <3>3. w \notin WaitersOf(k.id)
      BY DEF WaitersOf
    <3>4. WaitersOf(k.id) \subseteq Hydrate!Waiters /\ WaitersOf(k.id)' \subseteq Hydrate!Waiters
      BY DEF WaitersOf, Hydrate!Waiters
    <3> QED
      BY <3>2, <3>3, <3>4
  <2>2. ASSUME NEW k \in P
        PROVE  /\ k.count = Cardinality(WaitersOf(k.id))
               /\ IsFiniteSet(WaitersOf(k.id)) /\ w \notin WaitersOf(k.id)
               /\ k.count > 0 \/ k \in deps
               /\ k.count \in Nat
    <3>1. IsFiniteSet(WaitersOf(k.id)) /\ w \notin WaitersOf(k.id)
      BY WaitersAreFinite DEF WaitersOf
    <3>2. k.count \in Nat
      BY <1>7 DEF Works
    <3>3. CASE k \in work
      BY <3>1, <3>2, <3>3 DEF HydrationInv, CountsAreRight
    <3>4. CASE k \in N
      <4>1. k.count = 0 /\ nextId <= k.id /\ k \in deps
        BY <1>4, <1>6, <3>4
      <4>2. WaitersOf(k.id) = {}
        <5> SUFFICES ASSUME NEW v \in Hydrate!Waiters, Hydrate!Holds(v),
                            NEW d \in waiter[v].deps, d.id = k.id
                     PROVE  FALSE
          BY DEF WaitersOf, Hydrate!Depends
        <5>1. PICK l \in work : l.id = d.id
          BY DEF HydrationInv, TargetsAreCovered
        <5> QED
          BY <1>1, <1>2, <1>7, <4>1, <5>1 DEF P
      <4> QED
        BY <3>1, <3>2, <4>1, <4>2, FS_EmptySet
    <3> QED
      BY <3>3, <3>4 DEF P
  <2>3. ASSUME NEW k \in P
        PROVE  f[k].count > 0 /\ f[k].count = Cardinality(WaitersOf(f[k].id)')
    <3>1. f[k].id = k.id /\ f[k].count = IF k \in deps THEN k.count + 1 ELSE k.count
      BY <1>8, <1>10 DEF SameShape
    <3>2. CASE k \in deps
      <4>1. Cardinality(WaitersOf(k.id) \cup {w}) = Cardinality(WaitersOf(k.id)) + 1
        BY ONLY <2>2, k \in P, FS_AddElement
      <4>2. WaitersOf(k.id)' = WaitersOf(k.id) \cup {w}
        BY <2>1, <3>2
      <4>3. Cardinality(WaitersOf(k.id)') = k.count + 1 /\ k.count \in Nat
        BY ONLY <2>2, <4>1, <4>2, k \in P
      <4> QED
        BY <3>1, <3>2, <4>3
    <3>3. CASE k \notin deps
      BY <2>1, <2>2, <3>1, <3>3
    <3> QED
      BY <3>2, <3>3
  <2>4. \A l \in work' : \E k \in P : l = f[k]
    BY <1>9, <1>10
  <2> QED
    BY <2>3, <2>4 DEF CountsAreRight
<1>20. LimitsHold'
  <2>1. /\ Cardinality(work) <= MaxWork
        /\ \A d \in Contents : Cardinality(Among(work, d)) <= MaxPerContent
    BY LimitsBySets DEF HydrationInv
  <2>2. X # {} => /\ Cardinality(work) + n <= MaxWork
                  /\ Cardinality(Among(work, c)) + n <= MaxPerContent
    BY <1>5, HydrationCardinality DEF Hydrate!EnsureCapacity, Hydrate!OfContent, Among
  <2>3. Cardinality(N) \in Nat /\ Cardinality(N) <= n /\ (X = {} => Cardinality(N) = 0)
    BY <1>4, <1>5, FS_CardinalityType, FS_EmptySet
  <2>4. MaxWork \in Nat /\ MaxPerContent \in Nat
    BY BoundsAssumption
  <2>5. Cardinality(P) <= MaxWork
    <3>1. /\ Cardinality(P) = Cardinality(work) + Cardinality(N) - Cardinality(work \cap N)
          /\ Cardinality(work) \in Nat /\ Cardinality(work \cap N) \in Nat
      BY <1>1, <1>4, FS_Union, FS_CardinalityType, FS_Intersection DEF P
    <3> QED
      BY <2>1, <2>2, <2>3, <2>4, <3>1
  <2>6. ASSUME NEW d \in Contents
        PROVE  Cardinality(Among(P, d)) <= MaxPerContent
    <3>1. PICK Q : Q = Among(work, d)
      OBVIOUS
    <3>2. IsFiniteSet(Q) /\ Cardinality(Q) \in Nat /\ Cardinality(Q) <= MaxPerContent
      BY <1>1, <2>1, <3>1, FS_Subset, FS_CardinalityType DEF Among
    <3>3. CASE d = c
      <4>1. Among(P, d) = Q \cup N
        BY <1>4, <3>1, <3>3 DEF P, Among
      <4>2. /\ Cardinality(Q \cup N) = Cardinality(Q) + Cardinality(N) - Cardinality(Q \cap N)
            /\ Cardinality(Q \cap N) \in Nat
        BY ONLY <1>4, <3>2, FS_Union, FS_CardinalityType, FS_Intersection
      <4>3. X # {} => Cardinality(Q) + n <= MaxPerContent
        BY <2>2, <3>1, <3>3
      <4>4. Cardinality(Q \cup N) <= MaxPerContent
        BY ONLY <2>3, <2>4, <3>2, <4>2, <4>3, n \in Nat
      <4> QED
        BY <4>1, <4>4
    <3>4. CASE d # c
      <4>1. Among(P, d) = Q
        BY <1>4, <3>1, <3>4 DEF P, Among
      <4> QED
        BY <3>2, <4>1
    <3> QED
      BY <3>3, <3>4
  <2>7. Cardinality(work') \in Nat /\ Cardinality(P) \in Nat
    BY <1>7, <1>15, FS_CardinalityType
  <2>8. Cardinality(work') <= MaxWork
    BY <1>15, <2>4, <2>5, <2>7
  <2>9. ASSUME NEW d \in Contents
        PROVE  Cardinality(Among(work', d)) <= MaxPerContent
    <3>1. PICK Q, V : Q = Among(P, d) /\ V = Among(work', d)
      OBVIOUS
    <3>2. Cardinality(Q) \in Nat /\ Cardinality(V) \in Nat
      BY <1>7, <1>15, <3>1, FS_Subset, FS_CardinalityType DEF Among
    <3>3. Cardinality(V) <= Cardinality(Q) /\ Cardinality(Q) <= MaxPerContent
      BY <1>15, <2>6, <3>1
    <3> QED
      BY <2>4, <3>1, <3>2, <3>3
  <2> QED
    BY <2>8, <2>9 DEF LimitsHold, Hydrate!OfContent, Among
<1> QED
  BY <1>16, <1>17, <1>18, <1>19, <1>20 DEF HydrationInv

(* A step that only maps and removes entries keeps them apart and within   *)
(* the limits.                                                             *)
LEMMA RemapKeeps ==
  ASSUME HydrationInv, NEW P, P \subseteq work, NEW m, Remaps(m, P, work'), nextId' = nextId
  PROVE  work' \subseteq Works /\ IsFiniteSet(work') /\ EntriesAreDistinct' /\ LimitsHold'
<1>1. /\ work \subseteq Works /\ IsFiniteSet(work)
      /\ \A k \in work : k.id < nextId /\ k.start <= k.end
      /\ \A k \in work : k.whole => k.start = 0 /\ k.end = HydrateSize
      /\ \A k, l \in work : k.id = l.id => k = l
  BY DEF HydrationInv, HydrationTypes, EntriesAreDistinct
<1>2. IsFiniteSet(P) /\ \A k, l \in P : k.id = l.id => k = l
  BY <1>1, FS_Subset
<1>3. PICK W : W = work'
  OBVIOUS
<1>4. /\ W \subseteq Works /\ IsFiniteSet(W) /\ Cardinality(W) <= Cardinality(P)
      /\ \A c : Cardinality(Among(W, c)) <= Cardinality(Among(P, c))
      /\ \A k, l \in W : k.id = l.id => k = l
  <2>1. Remaps(m, P, W)
    BY <1>3
  <2> QED
    BY ONLY <1>2, <2>1, RemappedWork
<1>5. \A l \in work' : \E k \in P : SameShape(k, l)
  BY DEF Remaps
<1>6. EntriesAreDistinct'
  <2>1. \A k \in work' : k.id < nextId' /\ k.start <= k.end
    BY <1>1, <1>5 DEF SameShape
  <2>2. \A k \in work' : k.whole => k.start = 0 /\ k.end = HydrateSize
    BY <1>1, <1>5 DEF SameShape
  <2> QED
    BY <1>3, <1>4, <2>1, <2>2 DEF EntriesAreDistinct
<1>7. /\ Cardinality(work) <= MaxWork
      /\ \A c \in Contents : Cardinality(Among(work, c)) <= MaxPerContent
  BY LimitsBySets DEF HydrationInv
<1>8. Cardinality(W) <= MaxWork
  <2>1. /\ Cardinality(P) <= Cardinality(work) /\ Cardinality(P) \in Nat
        /\ Cardinality(work) \in Nat /\ Cardinality(W) \in Nat
    BY ONLY <1>1, <1>2, <1>4, P \subseteq work, FS_Subset, FS_CardinalityType
  <2> QED
    BY <1>4, <1>7, <2>1, BoundsAssumption
<1>9. ASSUME NEW c \in Contents PROVE Cardinality(Among(W, c)) <= MaxPerContent
  <2>1. Among(P, c) \subseteq Among(work, c) /\ Among(work, c) \subseteq work
    BY DEF Among
  <2>2. IsFiniteSet(Among(work, c))
    BY ONLY <1>1, <2>1, FS_Subset
  <2>3. /\ Cardinality(Among(P, c)) <= Cardinality(Among(work, c))
        /\ IsFiniteSet(Among(P, c))
    BY ONLY <2>1, <2>2, FS_Subset
  <2>4. IsFiniteSet(Among(W, c))
    <3>1. Among(W, c) \subseteq W
      BY DEF Among
    <3> QED
      BY ONLY <1>4, <3>1, FS_Subset
  <2>5. /\ Cardinality(Among(P, c)) \in Nat /\ Cardinality(Among(work, c)) \in Nat
        /\ Cardinality(Among(W, c)) \in Nat
    BY ONLY <2>2, <2>3, <2>4, FS_CardinalityType
  <2> QED
    BY <1>4, <1>7, <2>3, <2>5, BoundsAssumption
<1>10. LimitsHold'
  BY <1>3, <1>8, <1>9 DEF LimitsHold, Hydrate!OfContent, Among
<1> QED
  BY <1>3, <1>4, <1>6, <1>10

(* The backend's answer to one read changes nothing but that read.         *)
LEMMA ReadContentKeeps ==
  ASSUME HydrationInv, NEW res \in {"ok", "failed"}, Hydrate!ReadContent(res)
  PROVE  HydrationInv'
<1>1. PICK q \in work : work' = (work \ {q}) \cup {Answered(q, res)}
  BY DEF Hydrate!ReadContent, Answered
<1>2. nextId' = nextId /\ waiter' = waiter
  BY DEF Hydrate!ReadContent
<1>3. work \subseteq Works
  BY DEF HydrationInv, HydrationTypes
<1> DEFINE m == [k \in work |-> IF k = q THEN Answered(q, res) ELSE k]
<1>4. PICK f : f = m
  OBVIOUS
<1>5. \A k \in work : f[k] \in Works /\ SameShape(k, f[k]) /\ f[k].count = k.count
  BY <1>3, <1>4, AnsweredFacts DEF SameShape
<1>6. work' = {f[k] : k \in work}
  BY <1>1, <1>4
<1> HIDE DEF m
<1>7. Remaps(f, work, work')
  BY <1>5, <1>6 DEF Remaps
<1>8. work' \subseteq Works /\ IsFiniteSet(work') /\ EntriesAreDistinct' /\ LimitsHold'
  BY ONLY <1>2, <1>7, HydrationInv, RemapKeeps
<1>9. \A id : WaitersOf(id)' = WaitersOf(id)
  BY <1>2 DEF WaitersOf, Hydrate!Depends, Hydrate!Holds
<1>10. \A v \in Hydrate!Waiters : Hydrate!Holds(v)' <=> Hydrate!Holds(v)
  BY <1>2 DEF Hydrate!Holds
<1>11. HydrationTypes'
  BY <1>2, <1>8, <1>10 DEF HydrationInv, HydrationTypes
<1>12. TargetsAreCovered'
  <2>1. \A k \in work : \E l \in work' : l.id = k.id /\ l.start = k.start /\ l.end = k.end
    BY <1>5, <1>6 DEF SameShape
  <2>2. TargetsAreCovered
    BY DEF HydrationInv
  <2> QED
    BY ONLY <1>2, <1>10, <2>1, <2>2 DEF TargetsAreCovered
<1>13. CountsAreRight'
  <2>1. \A k \in work : k.count > 0 /\ k.count = Cardinality(WaitersOf(k.id))
    BY DEF HydrationInv, CountsAreRight
  <2>2. \A l \in work' : \E k \in work : l.id = k.id /\ l.count = k.count
    BY <1>5, <1>6 DEF SameShape
  <2>3. \A l \in work' : l.count > 0 /\ l.count = Cardinality(WaitersOf(l.id)')
    BY <1>9, <2>1, <2>2
  <2> QED
    BY <2>3 DEF CountsAreRight
<1> QED
  BY <1>8, <1>11, <1>12, <1>13 DEF HydrationInv

(* A waiter that leaves takes with it the entries it alone depends on, and *)
(* no other waiter's.                                                      *)
LEMMA ReleaseWorkKeeps ==
  ASSUME HydrationInv, NEW w \in Hydrate!Waiters, Hydrate!ReleaseWork(w)
  PROVE  HydrationInv'
<1>1. /\ work \subseteq Works /\ IsFiniteSet(work) /\ nextId \in Nat
      /\ waiter \in [Hydrate!Waiters -> WaiterStates]
      /\ \A v \in Hydrate!Waiters : ~Hydrate!Holds(v) => waiter[v].deps = {}
      /\ \A k, l \in work : k.id = l.id => k = l
  BY DEF HydrationInv, HydrationTypes, EntriesAreDistinct
<1>2. \A k \in work : k.count > 0 /\ k.count = Cardinality(WaitersOf(k.id))
  BY DEF HydrationInv, CountsAreRight
<1>3. nextId' = nextId
  BY DEF Hydrate!ReleaseWork
<1>4. PICK r \in WaiterStates :
        /\ waiter' = [waiter EXCEPT ![w] = r]
        /\ r.terminal = "released" /\ r.deps = {}
  <2>1. /\ [Hydrate!Idle EXCEPT !.terminal = "released"] \in WaiterStates
        /\ [Hydrate!Idle EXCEPT !.terminal = "released"].terminal = "released"
        /\ [Hydrate!Idle EXCEPT !.terminal = "released"].deps = {}
    BY DEF Hydrate!Idle, WaiterStates
  <2> QED
    BY <2>1 DEF Hydrate!ReleaseWork
<1>5. Hydrate!Holds(w)
  BY DEF Hydrate!ReleaseWork, Hydrate!Holds
<1>6. PICK ks : ks = {k \in work : Hydrate!Depends(w, k.id)}
  OBVIOUS
<1>7. work' = (work \ ks) \cup {Uncounted(k) : k \in {k \in ks : k.count > 1}}
  BY <1>6 DEF Hydrate!ReleaseWork, Hydrate!Released, Uncounted
<1>8. /\ waiter' \in [Hydrate!Waiters -> WaiterStates] /\ waiter'[w] = r
      /\ \A v \in Hydrate!Waiters : v # w => waiter'[v] = waiter[v]
  BY ONLY <1>1, <1>4, w \in Hydrate!Waiters, OneWaiter
<1>9. /\ ~Hydrate!Holds(w)'
      /\ \A v \in Hydrate!Waiters : v # w => (Hydrate!Holds(v)' <=> Hydrate!Holds(v))
  BY <1>4, <1>8 DEF Hydrate!Holds
<1> DEFINE P == {k \in work : k \in ks => k.count > 1}
           m == [k \in P |-> IF k \in ks THEN Uncounted(k) ELSE k]
<1>10. PICK f : f = m
  OBVIOUS
<1>11. \A k \in P :
         /\ f[k] \in Works /\ SameShape(k, f[k])
         /\ f[k].count = IF k \in ks THEN k.count - 1 ELSE k.count
  BY <1>1, <1>10, UncountedFacts DEF SameShape
<1>12. work' = {f[k] : k \in P}
  <2>1. \A k \in P : f[k] = IF k \in ks THEN Uncounted(k) ELSE k
    BY <1>10
  <2>2. \A k \in P : f[k] \in work'
    BY <1>7, <2>1
  <2>3. ASSUME NEW l \in work' PROVE \E k \in P : l = f[k]
    BY <1>6, <1>7, <2>1
  <2> QED
    BY ONLY <2>2, <2>3
<1>13. P \subseteq work
  OBVIOUS
<1> HIDE DEF m
<1>14. work' \subseteq Works /\ IsFiniteSet(work') /\ EntriesAreDistinct' /\ LimitsHold'
  <2>1. Remaps(f, P, work')
    BY <1>11, <1>12 DEF Remaps
  <2> QED
    BY ONLY <1>3, <1>13, <2>1, HydrationInv, RemapKeeps
<1>15. HydrationTypes'
  <2>1. \A v \in Hydrate!Waiters : ~Hydrate!Holds(v)' => waiter'[v].deps = {}
    BY <1>1, <1>4, <1>8, <1>9
  <2> QED
    BY <1>1, <1>3, <1>8, <1>14, <2>1 DEF HydrationTypes
<1>16. \A id : WaitersOf(id)' = WaitersOf(id) \ {w}
  BY <1>8, <1>9 DEF WaitersOf, Hydrate!Depends
<1>17. \A k \in work : k \in ks <=> w \in WaitersOf(k.id)
  BY <1>5, <1>6 DEF WaitersOf
<1>18. TargetsAreCovered'
  <2>1. ASSUME NEW v \in Hydrate!Waiters, v # w, Hydrate!Holds(v), NEW d \in waiter[v].deps
        PROVE  \E l \in work' : l.id = d.id /\ l.start = d.start /\ l.end = d.end
    <3>1. PICK k \in work : k.id = d.id /\ k.start = d.start /\ k.end = d.end
      BY <2>1 DEF HydrationInv, TargetsAreCovered
    <3>2. v \in WaitersOf(k.id)
      BY <2>1, <3>1 DEF WaitersOf, Hydrate!Depends
    <3>3. k \in P
      <4> SUFFICES ASSUME k \in ks, ~(k.count > 1) PROVE FALSE
        OBVIOUS
      <4>1. k.count \in Nat /\ k.count > 0
        BY <1>1, <1>2 DEF Works
      <4>2. Cardinality(WaitersOf(k.id)) = 1
        BY <1>2, <4>1
      <4>3. PICK x : WaitersOf(k.id) = {x}
        BY <4>2, WaitersAreFinite, FS_Singleton
      <4> QED
        BY <1>17, <2>1, <3>2, <4>3
    <3>4. f[k] \in work' /\ SameShape(k, f[k])
      BY <1>11, <1>12, <3>3
    <3> QED
      BY <3>1, <3>4 DEF SameShape
  <2>2. ASSUME NEW v \in Hydrate!Waiters, Hydrate!Holds(v)'
        PROVE  v # w /\ Hydrate!Holds(v) /\ waiter'[v] = waiter[v]
    BY <1>8, <1>9, <2>2
  <2> QED
    BY <2>1, <2>2 DEF HydrationInv, TargetsAreCovered
<1>19. CountsAreRight'
  <2>1. ASSUME NEW k \in P
        PROVE  f[k].count > 0 /\ f[k].count = Cardinality(WaitersOf(f[k].id)')
    <3>1. /\ f[k].id = k.id
          /\ f[k].count = IF k \in ks THEN k.count - 1 ELSE k.count
      BY <1>11 DEF SameShape
    <3>2. k.count > 0 /\ k.count = Cardinality(WaitersOf(k.id)) /\ k.count \in Nat
      BY <1>1, <1>2 DEF Works
    <3>3. WaitersOf(k.id)' = WaitersOf(k.id) \ {w}
      BY <1>16
    <3>4. CASE k \in ks
      <4>1. w \in WaitersOf(k.id) /\ k.count > 1
        BY <1>17, <3>4
      <4>2. Cardinality(WaitersOf(k.id) \ {w}) = Cardinality(WaitersOf(k.id)) - 1
        BY ONLY <4>1, WaitersAreFinite, FS_RemoveElement
      <4>3. Cardinality(WaitersOf(k.id)') = k.count - 1
        BY <3>2, <3>3, <4>2
      <4> QED
        BY <3>1, <3>2, <3>4, <4>1, <4>3
    <3>5. CASE k \notin ks
      <4>1. w \notin WaitersOf(k.id)
        BY <1>17, <3>5
      <4>2. WaitersOf(k.id)' = WaitersOf(k.id)
        BY <3>3, <4>1
      <4> QED
        BY <3>1, <3>2, <3>5, <4>2
    <3> QED
      BY <3>4, <3>5
  <2>2. \A l \in work' : \E k \in P : l = f[k]
    BY <1>12
  <2> QED
    BY <2>1, <2>2 DEF CountsAreRight
<1> QED
  BY <1>14, <1>15, <1>18, <1>19 DEF HydrationInv

(* A registration that fails leaves nothing; one that succeeds is as above.*)
LEMMA JoinKeeps ==
  ASSUME HydrationInv, NEW w \in Hydrate!Waiters, Hydrate!Fresh(w), NEW c \in Contents,
         NEW target, Extents(target),
         NEW existing, existing \subseteq Hydrate!OfContent(c),
         NEW X, NewExtents(X), NEW whole \in BOOLEAN,
         whole => \A e \in X : e.start = 0 /\ e.end = HydrateSize,
         \A x \in Nat : target.start <= x /\ x < target.end =>
            \/ \E k \in existing : k.start <= x /\ x < k.end
            \/ \E e \in X : e.start <= x /\ x < e.end,
         Hydrate!Join(w, target, c, existing, X, whole)
  PROVE  HydrationInv'
<1>1. ~Hydrate!Holds(w)
  BY DEF Hydrate!Fresh, Hydrate!Holds
<1>2. PICK r \in WaiterStates :
        /\ r = [Hydrate!Idle EXCEPT !.terminal = "released"]
        /\ r.terminal = "released" /\ r.deps = {}
  <2>1. /\ [Hydrate!Idle EXCEPT !.terminal = "released"] \in WaiterStates
        /\ [Hydrate!Idle EXCEPT !.terminal = "released"].terminal = "released"
        /\ [Hydrate!Idle EXCEPT !.terminal = "released"].deps = {}
    BY DEF Hydrate!Idle, WaiterStates
  <2> QED
    BY <2>1
<1>3. CASE X # {} /\ ~Hydrate!EnsureCapacity(c, Hydrate!Cardinality(X))
  <2>1. work' = work /\ nextId' = nextId /\ waiter' = [waiter EXCEPT ![w] = r]
    BY <1>2, <1>3 DEF Hydrate!Join
  <2>2. waiter[w].deps = {}
    BY <1>1 DEF HydrationInv, HydrationTypes
  <2> QED
    BY ONLY <1>1, <1>2, <2>1, <2>2, HydrationInv, w \in Hydrate!Waiters, WaiterOnlyKeeps
<1>4. CASE X = {} \/ Hydrate!EnsureCapacity(c, Hydrate!Cardinality(X))
  <2>1. PICK deps : deps = existing \cup Hydrate!NewWork(c, X, whole)
    OBVIOUS
  <2>2. /\ work' = (work \ existing) \cup {Recounted(k) : k \in deps}
        /\ nextId' = nextId + Cardinality(X)
        /\ waiter' = [waiter EXCEPT ![w] =
             [terminal |-> "pending", start |-> target.start, end |-> target.end,
              deps |-> {DepOf(k) : k \in deps}]]
    BY <1>4, <2>1, HydrationCardinality DEF Hydrate!Join, Recounted, DepOf
  <2>3. X = {} \/ Hydrate!EnsureCapacity(c, Cardinality(X))
    BY <1>4, HydrationCardinality
  <2> QED
    BY <1>1, <2>1, <2>2, <2>3, JoinedKeeps
<1> QED
  BY <1>3, <1>4

(* A content is hydrated whole by one entry.                               *)
LEMMA RegisterWholeKeeps ==
  ASSUME HydrationInv, NEW w \in Hydrate!Waiters, NEW c \in Contents,
         Hydrate!RegisterWhole(w, c)
  PROVE  HydrationInv'
<1>1. PICK e : e = [start |-> 0, end |-> HydrateSize]
  OBVIOUS
<1>2. Extents(e) /\ e.start = 0 /\ e.end = HydrateSize /\ e = [start |-> e.start, end |-> e.end]
  BY <1>1, BoundsAssumption DEF Extents
<1>3. PICK same : same = {k \in Hydrate!OfContent(c) : k.whole}
  OBVIOUS
<1>4. PICK X : X = IF same = {} THEN {e} ELSE {}
  OBVIOUS
<1>5. NewExtents(X)
  <2>1. IsFiniteSet({}) /\ IsFiniteSet({e})
    BY FS_EmptySet, FS_Singleton
  <2> QED
    BY <1>2, <1>4, <2>1 DEF NewExtents
<1>6. Hydrate!Fresh(w) /\ Hydrate!Join(w, e, c, same, X, TRUE)
  BY <1>1, <1>3, <1>4 DEF Hydrate!RegisterWhole
<1>7. \A k \in same : k.start = 0 /\ k.end = HydrateSize
  BY <1>3 DEF HydrationInv, EntriesAreDistinct, Hydrate!OfContent
<1>8. \A x \in Nat : e.start <= x /\ x < e.end =>
            \/ \E k \in same : k.start <= x /\ x < k.end
            \/ \E d \in X : d.start <= x /\ x < d.end
  BY <1>2, <1>4, <1>7
<1>9. same \subseteq Hydrate!OfContent(c) /\ \A d \in X : d.start = 0 /\ d.end = HydrateSize
  BY <1>2, <1>3, <1>4
<1>10. PICK yes \in BOOLEAN : yes = TRUE
  OBVIOUS
<1>11. Hydrate!Fresh(w) /\ Hydrate!Join(w, e, c, same, X, yes)
  BY <1>6, <1>10
<1> QED
  BY ONLY <1>2, <1>5, <1>8, <1>9, <1>11, HydrationInv, w \in Hydrate!Waiters,
          c \in Contents, JoinKeeps

(* The part of a request that lies in the content.                         *)
LEMMA LogicalFacts ==
  ASSUME NEW r \in Hydrate!Requests
  PROVE  /\ Extents(Hydrate!LogicalExtent(r))
         /\ Hydrate!LogicalExtent(r).end <= HydrateSize
         /\ Hydrate!LogicalExtent(r) =
              [start |-> Hydrate!LogicalExtent(r).start, end |-> Hydrate!LogicalExtent(r).end]
<1>1. /\ r.off \in Nat /\ r.end \in Nat /\ r.off <= r.end /\ r.off <= HydrateSize
      /\ HydrateSize \in Nat
  BY BoundsAssumption DEF Hydrate!Requests
<1> QED
  BY <1>1 DEF Hydrate!LogicalExtent, Hydrate!Least, Extents

(* An empty range is one entry without bytes.                              *)
LEMMA RegisterEmptyRangeKeeps ==
  ASSUME HydrationInv, NEW w \in Hydrate!Waiters, NEW c \in Contents,
         NEW q \in Hydrate!Requests, Hydrate!RegisterEmptyRange(w, c, q)
  PROVE  HydrationInv'
<1>1. PICK e : e = Hydrate!LogicalExtent(q)
  OBVIOUS
<1>2. Extents(e) /\ e = [start |-> e.start, end |-> e.end] /\ e.start = e.end
  BY <1>1, LogicalFacts DEF Hydrate!RegisterEmptyRange
<1>3. PICK same : same = {k \in Hydrate!OfContent(c) : ~k.whole /\ k.start = e.start /\ k.end = e.start}
  OBVIOUS
<1>4. PICK X : X = IF same = {} THEN {e} ELSE {}
  OBVIOUS
<1>5. NewExtents(X)
  <2>1. IsFiniteSet({}) /\ IsFiniteSet({e})
    BY FS_EmptySet, FS_Singleton
  <2> QED
    BY <1>2, <1>4, <2>1 DEF NewExtents
<1>6. Hydrate!Fresh(w) /\ Hydrate!Join(w, e, c, same, X, FALSE)
  BY <1>1, <1>3, <1>4 DEF Hydrate!RegisterEmptyRange
<1>7. \A x \in Nat : ~(e.start <= x /\ x < e.end)
  BY <1>2 DEF Extents
<1>8. same \subseteq Hydrate!OfContent(c)
  BY <1>3
<1>9. PICK no \in BOOLEAN : no = FALSE
  OBVIOUS
<1> QED
  BY ONLY <1>2, <1>5, <1>6, <1>7, <1>8, <1>9, HydrationInv, w \in Hydrate!Waiters,
          c \in Contents, JoinKeeps

(* Division of naturals.                                                   *)
LEMMA RoundDown ==
  ASSUME NEW n \in Nat, NEW a \in Nat \ {0}
  PROVE  /\ (n \div a) * a \in Nat /\ (n \div a) * a <= n
         /\ n % a \in Nat /\ n % a < a
<1>1. n = a * (n \div a) + (n % a) /\ n % a \in 0 .. a - 1 /\ n \div a \in Nat
  OBVIOUS
<1> QED
  BY <1>1

(* Rounding to the alignment covers what is asked for.                     *)
LEMMA AlignedFacts ==
  ASSUME NEW e, Extents(e), e.end <= HydrateSize, NEW a \in Nat \ {0}
  PROVE  /\ Extents(Hydrate!AlignedExtent(e, a))
         /\ Hydrate!AlignedExtent(e, a).start <= e.start
         /\ e.end <= Hydrate!AlignedExtent(e, a).end
<1>1. /\ (e.start \div a) * a \in Nat /\ (e.start \div a) * a <= e.start
      /\ e.end % a \in Nat /\ e.end % a < a
  BY RoundDown DEF Extents
<1>2. PICK s, r : s = (e.start \div a) * a /\ r = e.end % a
  OBVIOUS
<1>3. PICK d : d = Hydrate!AlignedExtent(e, a)
  OBVIOUS
<1>4. /\ d.start = s
      /\ d.end = IF e.end = HydrateSize \/ r = 0 THEN e.end
                 ELSE Hydrate!Least(e.end + a - r, HydrateSize)
  BY <1>2, <1>3 DEF Hydrate!AlignedExtent
<1>5. s \in Nat /\ s <= e.start /\ r \in Nat /\ r < a
  BY ONLY <1>1, <1>2
<1>6. d.end \in Nat /\ e.end <= d.end
  BY ONLY <1>4, <1>5, a \in Nat \ {0}, Extents(e), e.end <= HydrateSize, BoundsAssumption
     DEF Hydrate!Least, Extents
<1> QED
  BY ONLY <1>3, <1>4, <1>5, <1>6, Extents(e) DEF Extents

(* A range shares what overlaps its aligned extent and adds the gaps.      *)
LEMMA RegisterRangeKeeps ==
  ASSUME HydrationInv, NEW w \in Hydrate!Waiters, NEW c \in Contents,
         NEW q \in Hydrate!Requests, NEW a \in Alignments, Hydrate!RegisterRange(w, c, q, a)
  PROVE  HydrationInv'
<1>1. PICK t : t = Hydrate!LogicalExtent(q)
  OBVIOUS
<1>2. Extents(t) /\ t.end <= HydrateSize
  BY <1>1, LogicalFacts
<1>3. PICK e : e = Hydrate!AlignedExtent(t, a)
  OBVIOUS
<1>4. Extents(e) /\ e.start <= t.start /\ t.end <= e.end
  <2>1. a \in Nat \ {0}
    BY BoundsAssumption
  <2> QED
    BY ONLY <1>2, <1>3, <2>1, AlignedFacts
<1>5. PICK existing : existing = {k \in Hydrate!OfContent(c) :
                                   k.start < e.end /\ (k.whole \/ Hydrate!Overlap(e, k))}
  OBVIOUS
<1>6. existing \subseteq Hydrate!OfContent(c) /\ existing \subseteq work
  BY <1>5 DEF Hydrate!OfContent
<1>7. Entries(existing) /\ Distinct(existing) /\ IsFiniteSet(existing)
  <2>1. /\ work \subseteq Works /\ IsFiniteSet(work)
        /\ \A k \in work : k.start <= k.end
        /\ \A k, l \in work : k.id = l.id => k = l
    BY DEF HydrationInv, HydrationTypes, EntriesAreDistinct
  <2>2. \A k \in existing : k \in Works /\ k.start <= k.end
    BY <1>6, <2>1
  <2>3. IsFiniteSet(existing)
    BY <1>6, <2>1, FS_Subset
  <2>4. Entries(existing)
    BY <2>2 DEF Entries, Works
  <2>5. Distinct(existing)
    BY <1>6, <2>1 DEF Distinct
  <2> QED
    BY <2>3, <2>4, <2>5
<1>8. PICK X : X = Hydrate!Gaps(e, existing)
  OBVIOUS
<1>9. NewExtents(X)
  <2>1. IsFiniteSet(X)
    BY ONLY <1>7, <1>8, GapsFinite
  <2>2. \A g \in X : Inside(g, e)
    BY ONLY <1>4, <1>7, <1>8, GapShape
  <2>3. \A g, h \in X : g = h \/ g.end <= h.start \/ h.end <= g.start
    BY ONLY <1>4, <1>7, <1>8, GapsAreApart
  <2>4. \A g, h \in X : g.start = h.start => g = h
    BY <2>2, <2>3 DEF Inside
  <2> QED
    BY <2>1, <2>2, <2>4 DEF NewExtents, Inside, Extents
<1>10. ASSUME NEW x \in Nat, t.start <= x, x < t.end
       PROVE  \/ \E k \in existing : k.start <= x /\ x < k.end
              \/ \E g \in X : g.start <= x /\ x < g.end
  <2>1. e.start <= x /\ x < e.end
    BY <1>2, <1>4, <1>10 DEF Extents
  <2> QED
    BY ONLY <1>4, <1>7, <1>8, <2>1, x \in Nat, GapsCover
<1>11. Hydrate!Fresh(w) /\ Hydrate!Join(w, t, c, existing, X, FALSE)
  BY <1>1, <1>3, <1>5, <1>8 DEF Hydrate!RegisterRange
<1>12. PICK no \in BOOLEAN : no = FALSE
  OBVIOUS
<1>13. Hydrate!Fresh(w) /\ Hydrate!Join(w, t, c, existing, X, no)
  BY <1>11, <1>12
<1>14. \A x \in Nat : t.start <= x /\ x < t.end =>
         \/ \E k \in existing : k.start <= x /\ x < k.end
         \/ \E g \in X : g.start <= x /\ x < g.end
  BY <1>10
<1>15. existing \subseteq Hydrate!OfContent(c) /\ ~no
  BY <1>6, <1>12
<1> QED
  BY ONLY <1>2, <1>9, <1>13, <1>14, <1>15, no \in BOOLEAN, HydrationInv, w \in Hydrate!Waiters,
          c \in Contents, JoinKeeps

(* A registration, of whatever kind.                                       *)
LEMMA RegisterKeeps ==
  ASSUME HydrationInv, NEW w \in Hydrate!Waiters, Hydrate!Register(w)
  PROVE  HydrationInv'
BY RegisterWholeKeeps, RegisterEmptyRangeKeeps, RegisterRangeKeeps DEF Hydrate!Register

(* The terminal flag is won without touching the work.                     *)
LEMMA TerminalKeeps ==
  ASSUME HydrationInv, NEW w \in Hydrate!Waiters, Hydrate!Complete(w) \/ Hydrate!Cancel(w)
  PROVE  HydrationInv'
<1>1. PICK s \in {"completed", "cancelled"} : waiter' = [waiter EXCEPT ![w].terminal = s]
  BY DEF Hydrate!Complete, Hydrate!Cancel
<1>2. work' = work /\ nextId' = nextId /\ Hydrate!Holds(w)
  BY DEF Hydrate!Complete, Hydrate!Cancel, Hydrate!Holds
<1>3. waiter[w] \in WaiterStates
  BY DEF HydrationInv, HydrationTypes
<1>4. PICK r : r = [waiter[w] EXCEPT !.terminal = s]
  OBVIOUS
<1>5. /\ r \in WaiterStates /\ r.terminal = s
      /\ r.deps = waiter[w].deps /\ r.start = waiter[w].start /\ r.end = waiter[w].end
  BY <1>3, <1>4, Zenon DEF WaiterStates
<1>6. waiter' = [waiter EXCEPT ![w] = r]
  BY <1>1, <1>4, Zenon
<1>7. r.terminal \notin {"none", "released"} <=> Hydrate!Holds(w)
  BY <1>2, <1>5
<1> QED
  BY ONLY <1>2, <1>5, <1>6, <1>7, HydrationInv, w \in Hydrate!Waiters, WaiterOnlyKeeps

LEMMA HydrationInit ==
  ASSUME Hydrate!Init
  PROVE  HydrationInv
<1>1. work = {} /\ nextId = 1 /\ waiter = [w \in Hydrate!Waiters |-> Hydrate!Idle]
  BY DEF Hydrate!Init
<1>2. HydrationTypes
  <2>1. IsFiniteSet(work)
    BY <1>1, FS_EmptySet
  <2>2. Hydrate!Idle \in WaiterStates /\ Hydrate!Idle.deps = {}
    BY DEF Hydrate!Idle, WaiterStates
  <2> QED
    BY <1>1, <2>1, <2>2 DEF HydrationTypes
<1>3. \A w \in Hydrate!Waiters : ~Hydrate!Holds(w)
  BY <1>1 DEF Hydrate!Holds, Hydrate!Idle
<1>4. EntriesAreDistinct /\ TargetsAreCovered /\ CountsAreRight
  BY <1>1, <1>3 DEF EntriesAreDistinct, TargetsAreCovered, CountsAreRight
<1>5. LimitsHold
  <2>1. Cardinality({}) = 0 /\ 0 <= MaxWork /\ 0 <= MaxPerContent
    BY FS_EmptySet, BoundsAssumption
  <2>2. \A c : Hydrate!OfContent(c) = {}
    BY <1>1 DEF Hydrate!OfContent
  <2> QED
    BY <1>1, <2>1, <2>2 DEF LimitsHold
<1> QED
  BY <1>2, <1>4, <1>5 DEF HydrationInv

(* Every step of the coordinator keeps the invariant.                      *)
LEMMA HydrationNext ==
  ASSUME HydrationInv, Hydrate!Next
  PROVE  HydrationInv'
BY RegisterKeeps, TerminalKeeps, ReleaseWorkKeeps, ReadContentKeeps
   DEF Hydrate!Next, Hydrate!WaiterStep, Hydrate!ReadAnswers

(* A step of another part leaves the coordinator.                          *)
LEMMA HydrationRests ==
  ASSUME HydrationInv, UNCHANGED hydrateVars
  PROVE  HydrationInv'
<1>1. work' = work /\ nextId' = nextId /\ waiter' = waiter
  BY DEF hydrateVars
<1>2. \A id : WaitersOf(id)' = WaitersOf(id)
  BY <1>1 DEF WaitersOf, Hydrate!Holds, Hydrate!Depends
<1>3. HydrationTypes'
  BY <1>1 DEF HydrationInv, HydrationTypes, Hydrate!Holds
<1>4. EntriesAreDistinct'
  BY <1>1 DEF HydrationInv, EntriesAreDistinct
<1>5. TargetsAreCovered'
  BY <1>1 DEF HydrationInv, TargetsAreCovered, Hydrate!Holds
<1>6. CountsAreRight'
  BY <1>1, <1>2 DEF HydrationInv, CountsAreRight
<1>7. LimitsHold'
  BY <1>1 DEF HydrationInv, LimitsHold, Hydrate!OfContent
<1> QED
  BY <1>3, <1>4, <1>5, <1>6, <1>7 DEF HydrationInv

(* The coordinator keeps its invariant whatever part a behaviour is about. *)
THEOREM HydrationInvariant == Spec => [](part = "hydration" => HydrationInv)
<1>1. Init => (part = "hydration" => HydrationInv)
  BY HydrationInit DEF Init, InitOfCore, InitOfMount
<1>2. (part = "hydration" => HydrationInv) /\ [Next]_vars => (part = "hydration" => HydrationInv)'
  <2> SUFFICES ASSUME part = "hydration" => HydrationInv, [Next]_vars, part' = "hydration"
               PROVE  HydrationInv'
    OBVIOUS
  <2>1. CASE InHydration(Hydrate!Next)
    BY <2>1, HydrationNext DEF InHydration
  <2>2. CASE UNCHANGED vars
    BY <2>2, HydrationRests DEF vars
  <2>3. CASE \/ InMutation(Mutation!Next) \/ InUpload(Upload!Next)
             \/ InCache(Cache!Next) \/ InFragments(Fragmented!Next)
             \/ InNamespace("local", Local!Next) \/ InNamespace("feed", Feed!Next)
    BY <2>3 DEF InMutation, InUpload, InCache, InFragments, InNamespace
  <2> QED
    BY <2>1, <2>2, <2>3 DEF Next
<1> QED
  BY <1>1, <1>2, PTL DEF Spec

(* A hydration result is exactly the bytes asked for, whatever work it     *)
(* shares, and an entry lives exactly as long as somebody waits for it     *)
(* (register_range, assemble, release_work).                               *)
THEOREM HydrationsAreExact == Spec => []HydrationIsExact
<1>1. ASSUME HydrationInv PROVE Hydrate!HydrationIsExact
  <2> SUFFICES ASSUME NEW w \in Hydrate!Waiters, Hydrate!Holds(w), NEW v, v = waiter[w]
               PROVE  /\ \A d \in v.deps : Hydrate!Contributes(v, d) => d.start <= Hydrate!Copied(v, d)
                      /\ Hydrate!Cursor(v, v.deps) = v.end
                      /\ \A d \in v.deps :
                           \E k \in work : k.id = d.id /\ k.start = d.start /\ k.end = d.end
    BY DEF Hydrate!HydrationIsExact
  <2>1. v.start \in Nat /\ v.end \in Nat /\ v.deps \subseteq Deps
    BY <1>1 DEF HydrationInv, HydrationTypes, WaiterStates
  <2>2. /\ v.start <= v.end
        /\ \A d \in v.deps :
             \E k \in work : k.id = d.id /\ k.start = d.start /\ k.end = d.end
        /\ \A x \in Nat : v.start <= x /\ x < v.end =>
             \E d \in v.deps : d.start <= x /\ x < d.end
    BY <1>1 DEF HydrationInv, TargetsAreCovered
  <2> QED
    BY ONLY <2>1, <2>2, WalkIsExact
<1>2. ASSUME HydrationInv PROVE Hydrate!WorkIsCounted
  <2>1. \A S : Hydrate!Cardinality(S) = Cardinality(S)
    BY HydrationCardinality
  <2>2. \A k \in work :
          k.count > 0
          /\ k.count = Cardinality({w \in Hydrate!Waiters : Hydrate!Holds(w) /\ Hydrate!Depends(w, k.id)})
    BY <1>2 DEF HydrationInv, CountsAreRight, WaitersOf
  <2>3. \A k, l \in work : k.id = l.id => k = l
    BY <1>2 DEF HydrationInv, EntriesAreDistinct
  <2>4. /\ Cardinality(work) <= MaxWork
        /\ \A c \in Contents : Cardinality(Hydrate!OfContent(c)) <= MaxPerContent
    BY <1>2 DEF HydrationInv, LimitsHold
  <2> QED
    BY <2>1, <2>2, <2>3, <2>4 DEF Hydrate!WorkIsCounted
<1>3. (part = "hydration" => HydrationInv) => HydrationIsExact
  BY <1>1, <1>2 DEF HydrationIsExact
<1> QED
  BY <1>3, HydrationInvariant, PTL

-----------------------------------------------------------------------------
(* The namespace of a mount.  LinuxNamespaceProofs is about any directory; *)
(* here it is used for the two of this module.                             *)

LocalProofs == INSTANCE LinuxNamespaceProofs WITH
  Base <- {OldItem}, Arrivals <- {}, Files <- {NewFile}, Dirs <- {NewDir},
  MaxMounts <- 2, MaxLost <- 0
FeedProofs == INSTANCE LinuxNamespaceProofs WITH
  Base <- {OldItem}, Arrivals <- {NewItem}, Files <- {}, Dirs <- {},
  MaxMounts <- 1, MaxLost <- 1

(* The items of both directories are distinct.                             *)
LEMMA NamespaceKeys == LocalProofs!KeysAreDistinct /\ FeedProofs!KeysAreDistinct
<1>1. \A S : /\ LocalProofs!IsFiniteSet(S) <=> IsFiniteSet(S)
             /\ FeedProofs!IsFiniteSet(S) <=> IsFiniteSet(S)
  BY DEF LocalProofs!IsFiniteSet, FeedProofs!IsFiniteSet, IsFiniteSet
<1> QED
  BY <1>1, KeysAssumption
  DEF LocalProofs!KeysAreDistinct, LocalProofs!Keys, FeedProofs!KeysAreDistinct, FeedProofs!Keys

(* What is proved of a directory is about the one with local creates.     *)
LEMMA LocalIsCovered ==
  /\ Local!Init => LocalProofs!Init
  /\ Local!Next => LocalProofs!Next
  /\ LocalProofs!NothingIsHidden => Local!NothingIsHidden
<1>1. Local!Init => LocalProofs!Init
  BY DEF Local!Init, LocalProofs!Init, Local!Empty, LocalProofs!Empty,
      Local!NoLocal, LocalProofs!NoLocal, Local!NoChange, LocalProofs!NoChange,
      Local!NoOverlay, LocalProofs!NoOverlay, Local!NoTomb, LocalProofs!NoTomb,
      Local!Keys, LocalProofs!Keys, Local!Cardinality, LocalProofs!Cardinality
<1>2. Local!Next => LocalProofs!Next
  BY ZenonT(30) DEF Local!store, LocalProofs!store, Local!Keys, LocalProofs!Keys, Local!Kind,
      LocalProofs!Kind, Local!Empty, LocalProofs!Empty, Local!NoTomb,
      LocalProofs!NoTomb, Local!NoLocal, LocalProofs!NoLocal, Local!NoChange,
      LocalProofs!NoChange, Local!NoOverlay, LocalProofs!NoOverlay,
      Local!KeysOf, LocalProofs!KeysOf, Local!NameOf, LocalProofs!NameOf,
      Local!NamespaceAt, LocalProofs!NamespaceAt, Local!CreatedAt,
      LocalProofs!CreatedAt, Local!RemoteAt, LocalProofs!RemoteAt, Local!First,
      LocalProofs!First, Local!Lookup, LocalProofs!Lookup, Local!Shown,
      LocalProofs!Shown, Local!HasRecord, LocalProofs!HasRecord, Local!Mounted,
      LocalProofs!Mounted, Local!Create, LocalProofs!Create,
      Local!LookupSource, LocalProofs!LookupSource, Local!LookupDestination,
      LocalProofs!LookupDestination, Local!FactsHold, LocalProofs!FactsHold,
      Local!CommitRename, LocalProofs!CommitRename, Local!CommitRemove,
      LocalProofs!CommitRemove, Local!StoreCommits, LocalProofs!StoreCommits,
      Local!StoreRefuses, LocalProofs!StoreRefuses, Local!LocalNames,
      LocalProofs!LocalNames, Local!AnswerLost, LocalProofs!AnswerLost,
      Local!IndexedAt, LocalProofs!IndexedAt, Local!UniqueNamespaceItem,
      LocalProofs!UniqueNamespaceItem, Local!UniqueCreatedFile,
      LocalProofs!UniqueCreatedFile, Local!AcceptCreatedFile,
      LocalProofs!AcceptCreatedFile, Local!AcceptNamespaceCreate,
      LocalProofs!AcceptNamespaceCreate, Local!DropReplaced,
      LocalProofs!DropReplaced, Local!AcceptRename, LocalProofs!AcceptRename,
      Local!AcceptRemove, LocalProofs!AcceptRemove, Local!Acceptable,
      LocalProofs!Acceptable, Local!Accepted, LocalProofs!Accepted,
      Local!Accept, LocalProofs!Accept, Local!Untouched, LocalProofs!Untouched,
      Local!SameEntry, LocalProofs!SameEntry, Local!CommitUpsert,
      LocalProofs!CommitUpsert, Local!CommitDelete, LocalProofs!CommitDelete,
      Local!TargetMatches, LocalProofs!TargetMatches, Local!PreviousMatches,
      LocalProofs!PreviousMatches, Local!CollidesLocally,
      LocalProofs!CollidesLocally, Local!UpsertFits, LocalProofs!UpsertFits,
      Local!DeleteFits, LocalProofs!DeleteFits, Local!Fits, LocalProofs!Fits,
      Local!RemoteVacates, LocalProofs!RemoteVacates, Local!RemoteDrops,
      LocalProofs!RemoteDrops, Local!ApplyUpsert, LocalProofs!ApplyUpsert,
      Local!ApplyChange, LocalProofs!ApplyChange, Local!ChangeNames,
      LocalProofs!ChangeNames, Local!Validate, LocalProofs!Validate,
      Local!LookupTarget, LocalProofs!LookupTarget, Local!LookupPrevious,
      LocalProofs!LookupPrevious, Local!Apply, LocalProofs!Apply,
      Local!PassedEntries, LocalProofs!PassedEntries, Local!RestoreNamespace,
      LocalProofs!RestoreNamespace, Local!RestoreRemote,
      LocalProofs!RestoreRemote, Local!RestoreCreated,
      LocalProofs!RestoreCreated, Local!Remount, LocalProofs!Remount,
      Local!Next, LocalProofs!Next
<1>3. LocalProofs!ShownAsCommitted => Local!ShownAsCommitted
  BY DEF Local!ShownAsCommitted, LocalProofs!ShownAsCommitted, Local!Mounted,
      LocalProofs!Mounted, Local!Unsettled, LocalProofs!Unsettled,
      Local!LocalNames, LocalProofs!LocalNames, Local!ChangeNames,
      LocalProofs!ChangeNames, Local!Shown, LocalProofs!Shown, Local!Lookup,
      LocalProofs!Lookup, Local!First, LocalProofs!First, Local!NamespaceAt,
      LocalProofs!NamespaceAt, Local!CreatedAt, LocalProofs!CreatedAt,
      Local!RemoteAt, LocalProofs!RemoteAt, Local!HasAttributes,
      LocalProofs!HasAttributes, Local!OpenDirectory, LocalProofs!OpenDirectory
<1>4. LocalProofs!OnlyReplacementsAreRefused => Local!OnlyReplacementsAreRefused
  BY DEF Local!OnlyReplacementsAreRefused,
      LocalProofs!OnlyReplacementsAreRefused, Local!Mounted,
      LocalProofs!Mounted, Local!Acceptable, LocalProofs!Acceptable,
      Local!UniqueCreatedFile, LocalProofs!UniqueCreatedFile,
      Local!UniqueNamespaceItem, LocalProofs!UniqueNamespaceItem,
      Local!IndexedAt, LocalProofs!IndexedAt
<1>5. LocalProofs!OnlyRenamesFail => Local!OnlyRenamesFail
  BY DEF Local!OnlyRenamesFail, LocalProofs!OnlyRenamesFail
<1> QED
  BY <1>1, <1>2, <1>3, <1>4, <1>5 DEF Local!NothingIsHidden, LocalProofs!NothingIsHidden

(* What is proved of a directory is about the one with a change feed.     *)
LEMMA FeedIsCovered ==
  /\ Feed!Init => FeedProofs!Init
  /\ Feed!Next => FeedProofs!Next
  /\ FeedProofs!NothingIsHidden => Feed!NothingIsHidden
<1>1. Feed!Init => FeedProofs!Init
  BY DEF Feed!Init, FeedProofs!Init, Feed!Empty, FeedProofs!Empty, Feed!NoLocal,
      FeedProofs!NoLocal, Feed!NoChange, FeedProofs!NoChange, Feed!NoOverlay,
      FeedProofs!NoOverlay, Feed!NoTomb, FeedProofs!NoTomb, Feed!Keys,
      FeedProofs!Keys, Feed!Cardinality, FeedProofs!Cardinality
<1>2. Feed!Next => FeedProofs!Next
  BY ZenonT(30) DEF Feed!store, FeedProofs!store, Feed!Keys, FeedProofs!Keys, Feed!Kind,
      FeedProofs!Kind, Feed!Empty, FeedProofs!Empty, Feed!NoTomb,
      FeedProofs!NoTomb, Feed!NoLocal, FeedProofs!NoLocal, Feed!NoChange,
      FeedProofs!NoChange, Feed!NoOverlay, FeedProofs!NoOverlay, Feed!KeysOf,
      FeedProofs!KeysOf, Feed!NameOf, FeedProofs!NameOf, Feed!NamespaceAt,
      FeedProofs!NamespaceAt, Feed!CreatedAt, FeedProofs!CreatedAt,
      Feed!RemoteAt, FeedProofs!RemoteAt, Feed!First, FeedProofs!First,
      Feed!Lookup, FeedProofs!Lookup, Feed!Shown, FeedProofs!Shown,
      Feed!HasRecord, FeedProofs!HasRecord, Feed!Mounted, FeedProofs!Mounted,
      Feed!Create, FeedProofs!Create, Feed!LookupSource,
      FeedProofs!LookupSource, Feed!LookupDestination,
      FeedProofs!LookupDestination, Feed!FactsHold, FeedProofs!FactsHold,
      Feed!CommitRename, FeedProofs!CommitRename, Feed!CommitRemove,
      FeedProofs!CommitRemove, Feed!StoreCommits, FeedProofs!StoreCommits,
      Feed!StoreRefuses, FeedProofs!StoreRefuses, Feed!LocalNames,
      FeedProofs!LocalNames, Feed!AnswerLost, FeedProofs!AnswerLost,
      Feed!IndexedAt, FeedProofs!IndexedAt, Feed!UniqueNamespaceItem,
      FeedProofs!UniqueNamespaceItem, Feed!UniqueCreatedFile,
      FeedProofs!UniqueCreatedFile, Feed!AcceptCreatedFile,
      FeedProofs!AcceptCreatedFile, Feed!AcceptNamespaceCreate,
      FeedProofs!AcceptNamespaceCreate, Feed!DropReplaced,
      FeedProofs!DropReplaced, Feed!AcceptRename, FeedProofs!AcceptRename,
      Feed!AcceptRemove, FeedProofs!AcceptRemove, Feed!Acceptable,
      FeedProofs!Acceptable, Feed!Accepted, FeedProofs!Accepted, Feed!Accept,
      FeedProofs!Accept, Feed!Untouched, FeedProofs!Untouched, Feed!SameEntry,
      FeedProofs!SameEntry, Feed!CommitUpsert, FeedProofs!CommitUpsert,
      Feed!CommitDelete, FeedProofs!CommitDelete, Feed!TargetMatches,
      FeedProofs!TargetMatches, Feed!PreviousMatches,
      FeedProofs!PreviousMatches, Feed!CollidesLocally,
      FeedProofs!CollidesLocally, Feed!UpsertFits, FeedProofs!UpsertFits,
      Feed!DeleteFits, FeedProofs!DeleteFits, Feed!Fits, FeedProofs!Fits,
      Feed!RemoteVacates, FeedProofs!RemoteVacates, Feed!RemoteDrops,
      FeedProofs!RemoteDrops, Feed!ApplyUpsert, FeedProofs!ApplyUpsert,
      Feed!ApplyChange, FeedProofs!ApplyChange, Feed!ChangeNames,
      FeedProofs!ChangeNames, Feed!Validate, FeedProofs!Validate,
      Feed!LookupTarget, FeedProofs!LookupTarget, Feed!LookupPrevious,
      FeedProofs!LookupPrevious, Feed!Apply, FeedProofs!Apply,
      Feed!PassedEntries, FeedProofs!PassedEntries, Feed!RestoreNamespace,
      FeedProofs!RestoreNamespace, Feed!RestoreRemote,
      FeedProofs!RestoreRemote, Feed!RestoreCreated, FeedProofs!RestoreCreated,
      Feed!Remount, FeedProofs!Remount, Feed!Next, FeedProofs!Next
<1>3. FeedProofs!ShownAsCommitted => Feed!ShownAsCommitted
  BY DEF Feed!ShownAsCommitted, FeedProofs!ShownAsCommitted, Feed!Mounted,
      FeedProofs!Mounted, Feed!Unsettled, FeedProofs!Unsettled,
      Feed!LocalNames, FeedProofs!LocalNames, Feed!ChangeNames,
      FeedProofs!ChangeNames, Feed!Shown, FeedProofs!Shown, Feed!Lookup,
      FeedProofs!Lookup, Feed!First, FeedProofs!First, Feed!NamespaceAt,
      FeedProofs!NamespaceAt, Feed!CreatedAt, FeedProofs!CreatedAt,
      Feed!RemoteAt, FeedProofs!RemoteAt, Feed!HasAttributes,
      FeedProofs!HasAttributes, Feed!OpenDirectory, FeedProofs!OpenDirectory
<1>4. FeedProofs!OnlyReplacementsAreRefused => Feed!OnlyReplacementsAreRefused
  BY DEF Feed!OnlyReplacementsAreRefused,
      FeedProofs!OnlyReplacementsAreRefused, Feed!Mounted, FeedProofs!Mounted,
      Feed!Acceptable, FeedProofs!Acceptable, Feed!UniqueCreatedFile,
      FeedProofs!UniqueCreatedFile, Feed!UniqueNamespaceItem,
      FeedProofs!UniqueNamespaceItem, Feed!IndexedAt, FeedProofs!IndexedAt
<1>5. FeedProofs!OnlyRenamesFail => Feed!OnlyRenamesFail
  BY DEF Feed!OnlyRenamesFail, FeedProofs!OnlyRenamesFail
<1> QED
  BY <1>1, <1>2, <1>3, <1>4, <1>5 DEF Feed!NothingIsHidden, FeedProofs!NothingIsHidden

(* The invariant of both directories.                                      *)
THEOREM NamespaceInvariant ==
  Spec => [](/\ part = "local" => LocalProofs!NamespaceInv
             /\ part = "feed" => FeedProofs!NamespaceInv)
<1> DEFINE Inv == /\ part = "local" => LocalProofs!NamespaceInv
                  /\ part = "feed" => FeedProofs!NamespaceInv
<1>1. Init => Inv
  BY NamespaceKeys, LocalIsCovered, FeedIsCovered, LocalProofs!NamespaceInvHolds, FeedProofs!NamespaceInvHolds
  DEF Init, InitOfCore, InitOfMount
<1>2. Inv /\ [Next]_vars => Inv'
  <2> SUFFICES ASSUME Inv, [Next]_vars PROVE Inv'
    OBVIOUS
  <2>1. CASE InNamespace("local", Local!Next)
    <3>1. part = "local" /\ part' = "local" /\ LocalProofs!Next
      BY <2>1, LocalIsCovered DEF InNamespace
    <3> QED
      BY <3>1, NamespaceKeys, LocalProofs!NamespaceInvHolds
  <2>2. CASE InNamespace("feed", Feed!Next)
    <3>1. part = "feed" /\ part' = "feed" /\ FeedProofs!Next
      BY <2>2, FeedIsCovered DEF InNamespace
    <3> QED
      BY <3>1, NamespaceKeys, FeedProofs!NamespaceInvHolds
  <2>3. CASE UNCHANGED vars
    <3>1. part' = part /\ UNCHANGED LocalProofs!vars /\ UNCHANGED FeedProofs!vars
      BY <2>3 DEF vars, namespaceVars, LocalProofs!vars, FeedProofs!vars
    <3> QED
      BY <3>1, NamespaceKeys, LocalProofs!NamespaceInvHolds, FeedProofs!NamespaceInvHolds
  <2>4. CASE \/ InMutation(Mutation!Next) \/ InUpload(Upload!Next)
             \/ InCache(Cache!Next) \/ InFragments(Fragmented!Next)
             \/ InHydration(Hydrate!Next)
    BY <2>4 DEF InMutation, InUpload, InCache, InFragments, InHydration
  <2> QED
    BY <2>1, <2>2, <2>3, <2>4 DEF Next
<1> QED
  BY <1>1, <1>2, PTL DEF Spec

(* A mount shows every entry the store committed that the overlay took,    *)
(* under whatever earlier entries, tombstones and remote changes its name  *)
(* and its item have been through, and so does the next, if it comes up    *)
(* (lookup, accept_rename, accept_remove, apply_remote_upsert,             *)
(* restore_namespace_overlay).  The overlay refuses of local operations    *)
(* only a rename onto a local item and what follows it at the same name,   *)
(* and a mount fails only for the pending rename of a remote item          *)
(* (ensure_namespace_item_is_unique).                                      *)
THEOREM CommittedIsShown == Spec => []NothingIsHidden
<1>1. /\ LocalProofs!NamespaceInv => Local!NothingIsHidden
      /\ FeedProofs!NamespaceInv => Feed!NothingIsHidden
  BY NamespaceKeys, LocalIsCovered, FeedIsCovered, LocalProofs!NamespaceInvHolds,
     FeedProofs!NamespaceInvHolds
<1>2. /\ part = "local" => LocalProofs!NamespaceInv
      /\ part = "feed" => FeedProofs!NamespaceInv
      => NothingIsHidden
  BY <1>1 DEF NothingIsHidden
<1> QED
  BY <1>2, NamespaceInvariant, PTL
=============================================================================
