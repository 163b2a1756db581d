--------------------------- MODULE MutationJournal ---------------------------
(***************************************************************************)
(* The durable mutation journal of the cloud files core (core/src/         *)
(* mutation.rs): an intent is persisted before anything happens, a runner  *)
(* drives its record to completion over a remote that may lose answers,    *)
(* and runners of older session generations are fenced by the store.       *)
(* Several runners may drive one record; each step between two awaits is   *)
(* an action.                                                              *)
(***************************************************************************)
EXTENDS Naturals

CONSTANTS
  Ops,        \* operation identities, each with its idempotency key
  NumRunners, \* concurrent invocations of MutationRunner
  MaxGen,     \* bound: session generations
  MaxRev,     \* bound: revision up to which somebody else changes the item
  MaxFaults   \* bound: crashed runners, lost answers and backend errors

VARIABLES
  session,   \* the active session: [gen, state]
  base,      \* op -> revision its precondition names
  rec,       \* op -> durable record [state, outcome]
  run,       \* runner -> [pc, op, gen, seen, status, answer]
  remote,    \* external: [rev, done], done the operations that took effect
  late,      \* external: operations with a request that is still under way
  faults

Runners == 1 .. NumRunners
vars == <<session, base, rec, run, remote, late, faults>>

-----------------------------------------------------------------------------
(* Records and outcomes.                                                   *)

Outcome(kind, item) == [kind |-> kind, item |-> item]
NoOutcome == Outcome("none", 0)
Unknown   == Outcome("unknown", 0)

Committed(o) == o.kind \in {"committed", "already"}

(* Order of the durable states; the unknown outcome comes before the known. *)
States == <<"none", "intent", "applying", "unknown", "known", "reconciled",
            "completed">>
Rank(s) == CHOOSE i \in 1 .. 7 : States[i] = s
Decided(s) == Rank(s) >= Rank("known")

(* Mutant: an answer that proves nothing counts as a decision.             *)
DurableStateKnown(o) == "known"

DurableState(o) == IF o.kind = "unknown" THEN "unknown" ELSE "known"

SameCommittedEffect(o, p) == Committed(o) /\ Committed(p) /\ o.item = p.item

(* A transition of a record gives the new record and "applied", "already"  *)
(* or "error".                                                             *)
BeginRemoteApply(r) ==
  IF r.state = "intent" THEN [rec |-> [r EXCEPT !.state = "applying"], status |-> "applied"]
  ELSE [rec |-> r, status |-> "already"]

(* Mutant: an outcome that comes late replaces the one on record.          *)
RecordOutcomeLate(r, o) ==
  IF r.outcome = o THEN [rec |-> r, status |-> "already"]
  ELSE [rec |-> [state |-> DurableState(o), outcome |-> o], status |-> "applied"]

RecordRemoteOutcome(r, o) ==
  IF r.outcome = o \/ SameCommittedEffect(r.outcome, o)
  THEN [rec |-> r, status |-> "already"]
  ELSE IF r.state \in {"applying", "unknown"}
  THEN [rec |-> [state |-> DurableState(o), outcome |-> o], status |-> "applied"]
  ELSE [rec |-> r, status |-> "error"]

MarkPlatformReconciled(r) ==
  IF r.state = "known" THEN [rec |-> [r EXCEPT !.state = "reconciled"], status |-> "applied"]
  ELSE [rec |-> r,
        status |-> IF Rank(r.state) > Rank("known") THEN "already" ELSE "error"]

Complete(r) ==
  IF r.state = "reconciled" THEN [rec |-> [r EXCEPT !.state = "completed"], status |-> "applied"]
  ELSE [rec |-> r, status |-> IF r.state = "completed" THEN "already" ELSE "error"]

-----------------------------------------------------------------------------
(* Sessions.                                                               *)

NoRecord == [state |-> "none", outcome |-> NoOutcome]
Idle == [pc |-> "idle", op |-> CHOOSE o \in Ops : TRUE, gen |-> 0,
         seen |-> NoRecord, status |-> "none", answer |-> NoOutcome]

Init ==
  /\ session = [gen |-> 1, state |-> "accepting"]
  /\ base = [o \in Ops |-> 0]
  /\ rec = [o \in Ops |-> NoRecord]
  /\ run = [x \in Runners |-> Idle]
  /\ remote = [rev |-> 1, done |-> {}]
  /\ late = {}
  /\ faults = 0

(* A newer generation takes over and fences the older ones.                *)
ActivateSession ==
  /\ session.gen < MaxGen
  /\ session' = [gen |-> session.gen + 1, state |-> "accepting"]
  /\ UNCHANGED <<base, rec, run, remote, late, faults>>

CanTransitionTo(s, t) ==
  <<s, t>> \in {<<"accepting", "closing">>, <<"closing", "draining">>, <<"draining", "closed">>}

TransitionSession ==
  /\ \E t \in {"closing", "draining", "closed"} :
       CanTransitionTo(session.state, t) /\ session' = [session EXCEPT !.state = t]
  /\ UNCHANGED <<base, rec, run, remote, late, faults>>

(* The store's check in the transaction of every transition.               *)
ActiveGeneration(g) == session.gen = g /\ session.state # "closed"

-----------------------------------------------------------------------------
(* Runners.                                                                *)

Ends(x) == run' = [run EXCEPT ![x] = Idle]
Begins(o, g) == [Idle EXCEPT !.pc = "load", !.op = o, !.gen = g]

(* A new invocation takes the first free slot.                             *)
Free(x) == run[x].pc = "idle" /\ \A y \in Runners : y < x => run[y].pc # "idle"

(* submit: the intent carries the generation of its executor.  A refused   *)
(* intent leaves nothing behind.                                           *)
Submit(x, o, g, b) ==
  /\ Free(x) /\ rec[o].state = "none"
  /\ IF session.gen = g /\ session.state = "accepting"
     THEN /\ rec' = [rec EXCEPT ![o].state = "intent"]
          /\ base' = [base EXCEPT ![o] = b]
          /\ run' = [run EXCEPT ![x] = Begins(o, g)]
     ELSE UNCHANGED <<rec, base, run>>
  /\ UNCHANGED <<session, remote, late, faults>>

(* A worker resumes a recoverable record under its own generation.         *)
Resume(x, o) ==
  /\ Free(x)
  /\ rec[o].state \notin {"none", "completed"}
  /\ session.state # "closed"
  /\ run' = [run EXCEPT ![x] = Begins(o, session.gen)]
  /\ UNCHANGED <<session, base, rec, remote, late, faults>>

Load(x) ==
  /\ run[x].pc = "load"
  /\ IF rec[run[x].op].state = "completed" THEN Ends(x)
     ELSE run' = [run EXCEPT ![x].pc = "act", ![x].seen = rec[run[x].op]]
  /\ UNCHANGED <<session, base, rec, remote, late, faults>>

(* One call of the store: fenced, an error that ends the run, or a status  *)
(* for the runner to compare with what it can observe.                     *)
StoreCall(x, t) ==
  LET o == run[x].op IN
  IF ~ActiveGeneration(run[x].gen)
  THEN /\ run' = [run EXCEPT ![x].pc = "observe", ![x].status = "fenced"]
       /\ UNCHANGED rec
  ELSE IF t.status = "error"
  THEN Ends(x) /\ UNCHANGED rec
  ELSE /\ rec' = [rec EXCEPT ![o] = t.rec]
       /\ run' = [run EXCEPT ![x].pc = "observe", ![x].status = t.status]

Advance(x) ==
  /\ run[x].pc = "act"
  /\ \/ run[x].seen.state = "intent" /\ StoreCall(x, BeginRemoteApply(rec[run[x].op]))
     \/ run[x].seen.state = "known" /\ StoreCall(x, MarkPlatformReconciled(rec[run[x].op]))
     \/ run[x].seen.state = "reconciled" /\ StoreCall(x, Complete(rec[run[x].op]))
  /\ UNCHANGED <<session, base, remote, late, faults>>

RecordOutcome(x) ==
  /\ run[x].pc = "answered"
  /\ StoreCall(x, RecordRemoteOutcome(rec[run[x].op], run[x].answer))
  /\ UNCHANGED <<session, base, remote, late, faults>>

(* Mutant: an unknown outcome that stays unknown is taken for a defect.    *)
StableUnknownNever(r) == FALSE

(* observe_mutation_transition accepts no progress only here.              *)
StableUnknown(r) ==
  r.seen.state = "unknown" /\ r.answer = Unknown /\ r.status = "already"

(* Pending: the invocation ends, a later one reconciles.                   *)
Observe(x) ==
  /\ run[x].pc = "observe"
  /\ LET cur == rec[run[x].op] IN
     IF cur # run[x].seen
     THEN IF run[x].answer = Unknown /\ cur.state = "unknown" THEN Ends(x)
          ELSE run' = [run EXCEPT ![x] = Begins(@.op, @.gen)]
     ELSE IF run[x].status = "fenced" \/ StableUnknown(run[x]) THEN Ends(x)
     ELSE run' = [run EXCEPT ![x].pc = "stalled"]
  /\ UNCHANGED <<session, base, rec, remote, late, faults>>

-----------------------------------------------------------------------------
(* The remote, external: one item with revisions, effects at most once per *)
(* idempotency key and only on the revision the intent names.              *)

Apply(o) ==
  remote' = IF o \notin remote.done /\ remote.rev = base[o]
            THEN [rev |-> remote.rev + 1, done |-> remote.done \cup {o}] ELSE remote

(* What the remote can say of an operation once a request is decided.      *)
Verdict(o, r) ==
  IF o \in r.done THEN Outcome("already", r.rev)
  ELSE IF r.rev # base[o] THEN Outcome("precondition", r.rev)
  ELSE Unknown

Asks(x, s) == run[x].pc = "act" /\ run[x].seen.state = s

(* apply_mutation: the request is carried out and answered.                *)
ApplyMutation(x) ==
  LET o == run[x].op IN
  /\ Asks(x, "applying")
  /\ Apply(o)
  /\ run' = [run EXCEPT ![x].pc = "answered", ![x].answer =
       IF remote' # remote THEN Outcome("committed", remote'.rev)
       ELSE Verdict(o, remote)]
  /\ UNCHANGED <<session, base, rec, late, faults>>

(* The answer does not prove the effect: the request may still be applied. *)
ApplyUnanswered(x) ==
  /\ Asks(x, "applying") /\ faults < MaxFaults
  /\ late' = late \cup {run[x].op}
  /\ run' = [run EXCEPT ![x].pc = "answered", ![x].answer = Unknown]
  /\ faults' = faults + 1
  /\ UNCHANGED <<session, base, rec, remote>>

(* The answer describes something else than the intent: the run ends with  *)
(* the effect applied and nothing recorded.                                *)
ApplyRefuted(x) ==
  /\ Asks(x, "applying") /\ faults < MaxFaults
  /\ Apply(run[x].op)
  /\ Ends(x)
  /\ faults' = faults + 1
  /\ UNCHANGED <<session, base, rec, late>>

ReconcileMutation(x) ==
  /\ Asks(x, "unknown")
  /\ run' = [run EXCEPT ![x].pc = "answered",
                        ![x].answer = Verdict(run[x].op, remote)]
  /\ UNCHANGED <<session, base, rec, remote, late, faults>>

(* A backend error, or the process dies: a request may be under way.       *)
Crash(x) ==
  /\ run[x].pc \in {"load", "act", "answered", "observe"} /\ faults < MaxFaults
  /\ \/ UNCHANGED late
     \/ Asks(x, "applying") /\ late' = late \cup {run[x].op}
  /\ Ends(x)
  /\ faults' = faults + 1
  /\ UNCHANGED <<session, base, rec, remote>>

(* A late request is carried out at last.                                  *)
Arrive(o) ==
  /\ o \in late
  /\ Apply(o)
  /\ late' = late \ {o}
  /\ UNCHANGED <<session, base, rec, run, faults>>

(* Somebody else changes the item.                                         *)
OtherWriter ==
  /\ remote.rev < MaxRev
  /\ remote' = [remote EXCEPT !.rev = @ + 1]
  /\ UNCHANGED <<session, base, rec, run, late, faults>>

-----------------------------------------------------------------------------
RunnerStep(x) ==
  \/ Load(x) \/ Advance(x) \/ RecordOutcome(x) \/ Observe(x)
  \/ ApplyMutation(x) \/ ReconcileMutation(x)

Next ==
  \/ ActivateSession \/ TransitionSession
  \/ \E x \in Runners, o \in Ops :
       \/ Resume(x, o)
       \/ \E g \in 1 .. session.gen, b \in 1 .. remote.rev : Submit(x, o, g, b)
  \/ \E x \in Runners :
       RunnerStep(x) \/ ApplyUnanswered(x) \/ ApplyRefuted(x) \/ Crash(x)
  \/ \E o \in Ops : Arrive(o)
  \/ OtherWriter

Spec == Init /\ [][Next]_vars

(* An invocation goes on until it ends, and the session's worker keeps     *)
(* resuming what is not completed.  A request whose answer was lost need   *)
(* never arrive.                                                           *)
Fairness ==
  /\ \A x \in Runners : WF_vars(RunnerStep(x))
  /\ \A o \in Ops : WF_vars(\E x \in Runners : Resume(x, o))

FairSpec == Spec /\ Fairness

-----------------------------------------------------------------------------
(* Properties.                                                             *)

(* A record that claims a decision tells the truth about the remote, also  *)
(* about requests that arrive later: committed means that the effect took  *)
(* place, a failed precondition that it never does, and nothing counts as  *)
(* decided on an unknown answer (resume, record_remote_outcome).           *)
OutcomeIsTrue ==
  \A o \in Ops : Decided(rec[o].state) =>
    \/ Committed(rec[o].outcome) /\ o \in remote.done
    \/ rec[o].outcome.kind = "precondition" /\ o \notin remote.done

(* A decision is final: no slower runner, of whatever generation, moves a  *)
(* record back or replaces the outcome that was recorded first             *)
(* (record_remote_outcome, with_fenced_mutation).                          *)
KeepsDecisions ==
  \A o \in Ops :
    /\ Rank(rec'[o].state) >= Rank(rec[o].state)
    /\ Decided(rec[o].state) => rec'[o].outcome = rec[o].outcome

(* However runners interleave on one record, none of them takes another's  *)
(* progress, a fence or a pending outcome for a stuck store                *)
(* (observe_mutation_transition).                                          *)
NoFalseStall == \A x \in Runners : run[x].pc # "stalled"

(* The remote can still carry the request out, and has not said otherwise. *)
Unanswered(o) == rec[o].state = "unknown" /\ o \in late

(* Every accepted mutation is completed while some session stays open: no  *)
(* crash, lost answer or change of generation strands a record, unless the *)
(* remote keeps its outcome unknown for ever.                              *)
MutationsDone ==
  \/ session.state = "closed"
  \/ \A o \in Ops : rec[o].state \in {"none", "completed"} \/ Unanswered(o)
=============================================================================
