----------------------------- MODULE MCServices -----------------------------
(***************************************************************************)
(* Components of a service for TLC that share no state: the runtime lease, *)
(* the runs of background tasks, the synchronisation of the configuration, *)
(* the rotation of refresh tokens, and the process from assembly to exit.  *)
(* `part` says which of them a behaviour is about; the lease and the tasks *)
(* stay in their initial state when another one runs, and the variables of *)
(* the others keep the value Unused.                                       *)
(***************************************************************************)
EXTENDS RuntimeLeaseTimely

CONSTANTS
  RemoteKeys, LocalKeys, MaxVersion, BufferSize, MaxPending, MaxReloadFaults,
                                               \* ConfigSync
  NumRequests, Maximum, MaxTokens,             \* RefreshRotation
  Tasks, Workers, NoTask,                      \* TaskExecution
  Unused

ASSUME ServicesAssumption ==
  /\ MaxVersion \in Nat /\ BufferSize \in Nat \ {0}
  /\ NumRequests \in Nat /\ MaxTokens \in Nat \ {0}
  /\ Instances # {}

VARIABLES
  part,
  mode, store, local, owed, saved, unsent, buffer, lagged, link, item, updates,
  worker, retry,                               \* ConfigSync
  session, minted, map, req, closed,           \* RefreshRotation
  status, procToken, attemptCount, cancelReq, leaseLeft, dueIn, at, task, lease,
  snapAttempts, snapCancel, guardAge, term, result, outcome, hb, hbAge, down,
  failures,                                    \* TaskExecution
  deps, phases, stage, started, cancelled, listener, bad, order, began, ended,
  exit,                                        \* ComponentLifecycle
  asked       \* history: the processing token a task had when it was asked to cancel

Config == INSTANCE ConfigSync WITH MaxFaults <- MaxReloadFaults
Refresh == INSTANCE RefreshRotation WITH Procs <- Instances
MaxToken == 4
Task == INSTANCE TaskExecution WITH
  MaxAttempts <- 2, StaleSecs <- 2, HeartbeatSecs <- 1, ClaimDelay <- 0, RetryDelay <- 1,
  MaxFaults <- 1, pc <- at, shutdown <- down, faults <- failures
(* Phases in and against the order of the graph, two of one component, and *)
(* a component without any.                                                *)
Process == INSTANCE ComponentLifecycle WITH
  NumComponents <- 3, Unknown <- 4, Untimed <- {2}, Required <- <<TRUE, FALSE>>,
  PhaseLists <- {<<1, 2, 3>>, <<3, 2, 1>>, <<2, 1, 2>>, <<1, 3>>}, result <- exit

leaseVars == <<skew, row, pc, age, lag, shutdown>>
configVars == <<mode, store, local, owed, saved, unsent, buffer, lagged, link, item,
                updates, worker, retry>>
refreshVars == <<session, minted, map, req, closed>>
taskVars == <<status, procToken, attemptCount, cancelReq, leaseLeft, dueIn, at, task,
              lease, snapAttempts, snapCancel, guardAge, term, result, outcome, hb,
              hbAge, down, failures, asked>>
processVars == <<deps, phases, stage, started, cancelled, listener, bad, order, began,
                 ended, exit>>
allVars == <<part, vars, configVars, refreshVars, taskVars, processVars>>

NoLease == Init /\ \A p \in Instances : skew[p] = 0
NoConfig ==
  /\ mode = Unused /\ store = Unused /\ local = Unused /\ owed = Unused
  /\ saved = Unused /\ unsent = Unused /\ buffer = Unused /\ lagged = Unused
  /\ link = Unused /\ item = Unused /\ updates = Unused /\ worker = Unused
  /\ retry = Unused
NoRefresh ==
  /\ session = Unused /\ minted = Unused /\ map = Unused /\ req = Unused
  /\ closed = Unused
InitTasks == Task!Init /\ asked = procToken

NoProcess ==
  /\ deps = Unused /\ phases = Unused /\ stage = Unused /\ started = Unused
  /\ cancelled = Unused /\ listener = Unused /\ bad = Unused /\ order = Unused
  /\ began = Unused /\ ended = Unused /\ exit = Unused

InitOfPart ==
  \/ /\ \/ part = "lease" /\ Init /\ NoConfig /\ NoRefresh
        \/ part = "config" /\ NoLease /\ Config!Init /\ NoRefresh
        \/ part = "refresh" /\ NoLease /\ NoConfig /\ Refresh!Init
        \/ part = "tasks" /\ NoLease /\ NoConfig /\ NoRefresh
     /\ InitTasks /\ NoProcess
  \/ /\ part = "process" /\ Process!Init
     /\ NoLease /\ NoConfig /\ NoRefresh /\ InitTasks

InLease(A) ==
  part = "lease" /\ A /\ UNCHANGED <<part, configVars, refreshVars, taskVars, processVars>>
InConfig(A) ==
  part = "config" /\ A /\ UNCHANGED <<part, leaseVars, refreshVars, taskVars, processVars>>
InRefresh(A) ==
  part = "refresh" /\ A /\ UNCHANGED <<part, leaseVars, configVars, taskVars, processVars>>
InTasks(A) ==
  /\ part = "tasks" /\ A /\ UNCHANGED <<part, vars, configVars, refreshVars, processVars>>
  /\ asked' = [t \in Tasks |-> IF cancelReq'[t] = cancelReq[t] THEN asked[t] ELSE procToken[t]]
InProcess(A) ==
  part = "process" /\ A /\ UNCHANGED <<part, vars, configVars, refreshVars, taskVars>>

NextOfPart ==
  \/ InLease(Next) \/ InConfig(Config!Next) \/ InRefresh(Refresh!Next)
  \/ InTasks(Task!Next) \/ InProcess(Process!Next)

(* The fairness of each part, as its module states it.  Only one part      *)
(* runs, so that fairness of a disjunction over parts is fairness of each: *)
(* time and the loop of the supervisor, and the turns of the processes of  *)
(* a part, numbered (there is one worker).                                 *)
Time == \/ InLease(Tick) \/ InConfig(Config!Steps) \/ InTasks(Task!Tick)
        \/ InProcess(Process!RunStep)

Turn(i) ==
  \/ InLease(i \in Instances /\ Supervise(i))
  \/ InRefresh(i \in Refresh!Requests /\ Refresh!RequestStep(i))
  \/ InConfig(\/ i = 1 /\ \E hint \in unsent : Config!Publish(hint)
              \/ i = 2 /\ Config!Retries
              \/ i = 3 /\ \E k \in LocalKeys : Config!Apply(k))
  \/ InTasks(\E w \in Workers :
               \/ i = 1 /\ Task!Execute(w)
               \/ i = 2 /\ Task!Heartbeat(w)
               \/ i = 3 /\ Task!Restart(w)
               \/ i = 4 /\ \E t \in Tasks : Task!Claim(w, t))

SpecOfPart == InitOfPart /\ [][NextOfPart]_allVars

FairSpecOfPart ==
  /\ SpecOfPart
  /\ WF_allVars(Time) /\ \A i \in 1 .. 4 : WF_allVars(Turn(i))

-----------------------------------------------------------------------------
(* Properties; those of the lease are in its module.                       *)

(* The runtime configuration is current whenever nothing is pending: no    *)
(* lost hint, overrun buffer or failed callback is forgotten               *)
(* (run_config_reload_supervisor_inner).                                   *)
QuietIsCurrent == part = "config" => Config!QuietIsCurrent

(* A reload never replaces a configuration row by an older one             *)
(* (AsyncRuntimeConfig::reload's update lock).                             *)
ReloadNeverRegresses == [][part = "config" => Config!OnlyNewerRows]_allVars

(* A refresh token is exchanged at most once, over all processes, and in   *)
(* one process its requests share one lock that lives as long as they do   *)
(* (refresh_with_cancellation, acquire and the reservation's Drop).        *)
RotationIsExclusive ==
  part = "refresh" => Refresh!OneRotationPerToken /\ Refresh!LocksAreShared

(* A process is cleaned up last and in order, by every way out of run: no  *)
(* shutdown phase begins before those of the dependencies, the service and *)
(* the signal callback are over, and none is left out; a graph that cannot *)
(* be ordered is refused (AsterRuntime::run, validate, shutdown_order).    *)
CleanupIsOrdered ==
  part = "process" => Process!GraphIsChecked /\ Process!CleanupIsOrdered

(* The runs of a task come to an end; while a worker stays, no task is     *)
(* left alone until it is settled, and a cancellation request settles it   *)
(* by the run in hand or the next, or two claims later for every fault:    *)
(* crashes and failures of claims, heartbeats and final updates            *)
(* (process_claimed_task, claim_due_for_lane).                             *)
TasksSettle ==
  /\ Task!RunsEnd
  /\ Task!WorkerStays =>
       \A t \in Tasks :
         /\ []<>(part = "tasks" => Task!NotStuck(t))
         /\ []<>(cancelReq[t] /\ asked[t] + 2 < MaxToken => status[t] \in Task!Terminal)

(* The worker group keeps running somewhere as long as an instance stays;  *)
(* the configuration catches up with the store although hints are lost and *)
(* callbacks fail; every refresh request ends and returns its permit and   *)
(* its entry of the lock map; and a process that is told to stop does, as  *)
(* long as the callbacks it awaits without a timeout return.               *)
ServicesSettle ==
  /\ WorkloadRecovers
  /\ <>[](/\ part = "config" => Config!CaughtUp
          /\ part = "refresh" => Refresh!RequestsGone
          /\ part = "process" => Process!RunIsOver)
=============================================================================
