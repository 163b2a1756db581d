------------------------- MODULE ComponentLifecycle -------------------------
(***************************************************************************)
(* A service process from assembly to exit (aster_forge_runtime:           *)
(* lifecycle.rs, component.rs, startup.rs, shutdown.rs).  The dependency   *)
(* graph of the registered components is validated; startup phases run;    *)
(* the service runs beside a listener for termination signals; and then    *)
(* the tokens are cancelled, the listener is joined, the product's hook    *)
(* runs and the shutdown phases run in the order of the graph.             *)
(*                                                                         *)
(* External: the service, the callbacks and the phases, which return,      *)
(* fail, panic or hang.  Components are numbered in registration order,    *)
(* which is also the order in which dependencies are visited.              *)
(***************************************************************************)
EXTENDS Naturals, SequencesExt, Relation

CONSTANTS
  NumComponents,
  Unknown,        \* a name that no component has
  PhaseLists,     \* lists of the components that register shutdown phases
  Required,       \* whether each startup phase is required
  Untimed         \* components whose phases have no timeout

VARIABLES
  deps,       \* component -> dependencies
  phases,     \* the component of every shutdown phase, in registration order
  stage,      \* what run awaits
  started,    \* startup phases that returned
  cancelled,  \* the tokens
  listener,   \* the signal task
  bad,        \* what failed
  order,      \* shutdown phases still to run
  began, ended,   \* shutdown phases that were polled, and that are over
  result

vars == <<deps, phases, stage, started, cancelled, listener, bad, order, began, ended, result>>
assembly == <<deps, phases>>

Components == 1 .. NumComponents

Init ==
  /\ deps \in [Components -> SUBSET (Components \cup {Unknown})]
  /\ \A c \in Components \ {1} : Unknown \notin deps[c]
  /\ phases \in PhaseLists
  /\ stage = "build" /\ started = 0 /\ cancelled = FALSE /\ listener = "none"
  /\ bad = {} /\ order = <<>> /\ began = <<>> /\ ended = {} /\ result = "none"

-----------------------------------------------------------------------------
(* Both traversals of the graph visit dependencies first: those of S that  *)
(* are left, with what the walk knows so far.                              *)

Walks == [visiting : SUBSET Components, visited : SUBSET Components, cycle : BOOLEAN]

VisitAll[S \in SUBSET Components, st \in Walks] ==
  IF S = {} \/ st.cycle THEN st
  ELSE LET c == Min(S)
           inner == VisitAll[deps[c], [st EXCEPT !.visiting = @ \cup {c}]]
           visited == IF c \in st.visited THEN st
                      ELSE IF c \in st.visiting THEN [st EXCEPT !.cycle = TRUE]
                      ELSE [inner EXCEPT !.visiting = @ \ {c}, !.visited = @ \cup {c}]
       IN VisitAll[S \ {c}, visited]

Valid ==
  /\ \A c \in Components : Unknown \notin deps[c]
  /\ ~VisitAll[Components, [visiting |-> {}, visited |-> {}, cycle |-> FALSE]].cycle

WithPhases == ToSet(phases)
PhasesOf(c) == SetToSortSeq({i \in DOMAIN phases : phases[i] = c}, <)

OrderedWalks ==
  [visiting : SUBSET Components, visited : SUBSET Components, ordered : Seq(DOMAIN phases)]

(* A cycle only ends the descent; dependencies without phases are skipped. *)
PushAll[S \in SUBSET Components, st \in OrderedWalks] ==
  IF S = {} THEN st
  ELSE LET c == Min(S)
           inner == PushAll[deps[c] \cap WithPhases, [st EXCEPT !.visiting = @ \cup {c}]]
           pushed == IF c \in st.visited \cup st.visiting THEN st
                     ELSE [visiting |-> inner.visiting \ {c},
                           visited |-> inner.visited \cup {c},
                           ordered |-> inner.ordered \o PhasesOf(c)]
       IN PushAll[S \ {c}, pushed]

ShutdownOrder ==
  FoldLeft(LAMBDA st, c : PushAll[{c}, st],
           [visiting |-> {}, visited |-> {}, ordered |-> <<>>], phases).ordered

-----------------------------------------------------------------------------
Build ==
  /\ stage = "build"
  /\ stage' = IF Valid THEN "startup" ELSE "rejected"
  /\ UNCHANGED <<assembly, started, cancelled, listener, bad, order, began, ended, result>>

(* A startup phase returns; an error or a panic of a required one aborts.  *)
StartupPhase(ok) ==
  /\ stage = "startup" /\ started < Len(Required)
  /\ started' = started + 1
  /\ LET aborts == ~ok /\ Required[started + 1]
     IN /\ bad' = IF aborts THEN {"startup"} ELSE bad
        /\ cancelled' = (cancelled \/ aborts)
        /\ stage' = IF aborts THEN "phases" ELSE stage
        /\ order' = IF aborts THEN ShutdownOrder ELSE order
  /\ UNCHANGED <<assembly, listener, began, ended, result>>

StartService ==
  /\ stage = "startup" /\ started = Len(Required)
  /\ stage' = "service" /\ listener' = "waiting"
  /\ UNCHANGED <<assembly, started, cancelled, bad, order, began, ended, result>>

(* The listener: a signal, or the failure to listen, cancels and calls the *)
(* service's stop hook.                                                    *)
Signal ==
  /\ listener = "waiting"
  /\ listener' = "callback" /\ cancelled' = TRUE
  /\ UNCHANGED <<assembly, stage, started, bad, order, began, ended, result>>

ListenerEnds ==
  /\ listener = "callback"
  /\ listener' = "gone"
  /\ UNCHANGED <<assembly, stage, started, cancelled, bad, order, began, ended, result>>

(* An aborted task ends at its next await.                                 *)
ListenerAborted ==
  /\ stage \in {"join", "dropped"} /\ listener \in {"waiting", "callback"}
  /\ listener' = "gone"
  /\ UNCHANGED <<assembly, stage, started, cancelled, bad, order, began, ended, result>>

(* Mutant: the listener is aborted and not joined.                         *)
ServiceEndsUnjoined(ok) ==
  /\ stage = "service"
  /\ bad' = IF ok THEN bad ELSE bad \cup {"service"}
  /\ cancelled' = TRUE /\ stage' = "hook"
  /\ UNCHANGED <<assembly, started, listener, order, began, ended, result>>

(* The service returns or panics.                                          *)
ServiceEnds(ok) ==
  /\ stage = "service"
  /\ bad' = IF ok THEN bad ELSE bad \cup {"service"}
  /\ cancelled' = TRUE /\ stage' = "join"
  /\ UNCHANGED <<assembly, started, listener, order, began, ended, result>>

JoinListener ==
  /\ stage = "join" /\ listener = "gone"
  /\ stage' = "hook"
  /\ UNCHANGED <<assembly, started, cancelled, listener, bad, order, began, ended, result>>

BeforeShutdown(ok) ==
  /\ stage = "hook"
  /\ bad' = IF ok THEN bad ELSE bad \cup {"hook"}
  /\ stage' = "phases" /\ order' = ShutdownOrder
  /\ UNCHANGED <<assembly, started, cancelled, listener, began, ended, result>>

-----------------------------------------------------------------------------
(* Shutdown phases, one at a time whatever the others did.                 *)

PhaseRuns == Len(began) > Cardinality(ended)
Current == began[Len(began)]

StartPhase ==
  /\ stage = "phases" /\ ~PhaseRuns /\ order # <<>>
  /\ began' = Append(began, Head(order)) /\ order' = Tail(order)
  /\ UNCHANGED <<assembly, stage, started, cancelled, listener, bad, ended, result>>

EndPhase(ok) ==
  /\ ended' = ended \cup {Current}
  /\ bad' = IF ok THEN bad ELSE bad \cup {"phase"}
  /\ UNCHANGED <<assembly, stage, started, cancelled, listener, order, began, result>>

PhaseReturns == stage = "phases" /\ PhaseRuns /\ \E ok \in BOOLEAN : EndPhase(ok)
PhaseTimesOut ==
  stage = "phases" /\ PhaseRuns /\ phases[Current] \notin Untimed /\ EndPhase(FALSE)

Outcome ==
  CASE "startup" \in bad -> "startup error"
    [] "service" \in bad -> "service error"
    [] "hook" \in bad -> "hook error"
    [] "phase" \in bad -> "shutdown error"
    [] OTHER -> "output"

Return ==
  /\ stage = "phases" /\ ~PhaseRuns /\ order = <<>>
  /\ stage' = "done" /\ result' = Outcome
  /\ UNCHANGED <<assembly, started, cancelled, listener, bad, order, began, ended>>

(* The future of run is dropped: its guards cancel the tokens and abort    *)
(* the listener.                                                           *)
Drop ==
  /\ stage \in {"startup", "service", "join", "hook", "phases"}
  /\ stage' = "dropped" /\ cancelled' = TRUE
  /\ UNCHANGED <<assembly, started, listener, bad, order, began, ended, result>>

-----------------------------------------------------------------------------
Next ==
  \/ Build \/ StartService \/ Signal \/ ListenerEnds \/ ListenerAborted \/ JoinListener
  \/ \E ok \in BOOLEAN : StartupPhase(ok) \/ ServiceEnds(ok) \/ BeforeShutdown(ok)
  \/ StartPhase \/ PhaseReturns \/ PhaseTimesOut \/ Return \/ Drop

Spec == Init /\ [][Next]_vars

(* What run itself does is polled, timers fire, an aborted task ends, and  *)
(* a service that was told to stop stops.  Startup phases, the hook and    *)
(* phases without a timeout may hang for ever.                             *)
RunStep ==
  \/ Build \/ StartService \/ JoinListener \/ StartPhase \/ PhaseTimesOut \/ Return
  \/ ListenerAborted
  \/ \E ok \in BOOLEAN : cancelled /\ ServiceEnds(ok)

FairSpec == Spec /\ WF_vars(RunStep)

-----------------------------------------------------------------------------
(* Properties.                                                             *)

Complete == \A c \in Components : deps[c] \subseteq Components
Acyclic ==
  LET Depends == [e \in Components \X Components |-> e[2] \in deps[e[1]]]
  IN IsIrreflexive(TransitiveClosure(Depends, Components), Components)

(* A graph is accepted exactly when every dependency is registered and     *)
(* none is circular (validate), and whatever the graph, the order has      *)
(* every phase once (shutdown_order).                                      *)
GraphIsChecked ==
  /\ stage = "rejected" => ~(Complete /\ Acyclic)
  /\ stage = "startup" /\ started = 0 => Complete /\ Acyclic
  /\ stage = "rejected" /\ Complete =>
       /\ ToSet(ShutdownOrder) = DOMAIN phases
       /\ Len(ShutdownOrder) = Len(phases)

(* Phase i has to be over before phase k begins.                           *)
ComesBefore(i, k) ==
  phases[i] \in deps[phases[k]] \/ (phases[i] = phases[k] /\ i < k)

(* Cleanup comes last and in order: when a phase begins, the service and   *)
(* the signal callback are over and the tokens cancelled, all phases of    *)
(* the components it depends on are over, and so are the earlier ones of   *)
(* its own; and whatever failed, run returns only after every phase.       *)
CleanupIsOrdered ==
  /\ began # <<>> /\ stage # "dropped" => listener \in {"none", "gone"} /\ cancelled
  /\ \A k \in DOMAIN began, i \in DOMAIN phases :
       ComesBefore(i, began[k]) => i \in ended /\ \E j \in 1 .. k - 1 : began[j] = i
  /\ stage = "done" => ended = DOMAIN phases /\ Len(began) = Len(phases)

(* A callback that run awaits without a timeout.                           *)
AwaitsCallback ==
  \/ stage = "startup" /\ started < Len(Required)
  \/ stage = "hook"
  \/ stage = "phases" /\ PhaseRuns /\ phases[Current] \in Untimed

(* The run is over, or the service runs and nobody asked it to stop, or a  *)
(* callback without a timeout does not return.                             *)
RunIsOver ==
  \/ stage \in {"rejected", "done"}
  \/ stage = "dropped" /\ listener \in {"none", "gone"}
  \/ stage = "service" /\ ~cancelled
  \/ AwaitsCallback
=============================================================================
