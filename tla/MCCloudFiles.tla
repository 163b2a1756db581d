---------------------------- MODULE MCCloudFiles ----------------------------
(***************************************************************************)
(* The components of the cloud files core for TLC, which share no state:   *)
(* `part` says which of them a behaviour is about.  Variables are shared   *)
(* by name, and those the part does not have keep the value Unused.        *)
(***************************************************************************)
EXTENDS Naturals, FiniteSets

CONSTANTS
  Ops, NumRunners, MaxGen, MaxRev, MaxFaults,          \* both journals
  NumUploads, Chunks, MaxEdits,                        \* ContentUpload
  Writes, Evictions, Leases, CacheSize, MaxRanges,     \* ContentCache
  Contents, HydrateSize, Alignments, NumWaiters, MaxWork, MaxPerContent,
                                                       \* Hydration
  Names, OldItem, NewItem, NewFile, NewDir, None,      \* LinuxNamespace
  Parts,                                               \* those a run is about
  Unused

ASSUME BoundsAssumption ==
  /\ NumRunners \in Nat /\ MaxGen \in Nat /\ MaxRev \in Nat /\ MaxFaults \in Nat
  /\ NumUploads \in Nat /\ Chunks \in Nat /\ MaxEdits \in Nat
  /\ CacheSize \in Nat /\ MaxRanges \in Nat
  /\ HydrateSize \in Nat /\ Alignments \subseteq Nat \ {0} /\ NumWaiters \in Nat
  /\ MaxWork \in Nat /\ MaxPerContent \in Nat
  /\ Ops # {} /\ IsFiniteSet(Writes)

(* Items are told apart by their stable keys.                              *)
ASSUME KeysAssumption ==
  /\ OldItem \notin {NewFile, NewDir} /\ NewFile # NewDir
  /\ None \notin Names \cup {OldItem, NewItem, NewFile, NewDir} /\ IsFiniteSet(Names)

VARIABLES
  part,
  rec, run, remote, late, faults,                      \* both journals
  session, base,                                       \* MutationJournal
  dirty, leases, reserved,                             \* the entry
  active, latest,                                      \* ContentUpload
  ranges, pinned, activeWrites, write, eviction, bytes, effects,
  work, nextId, waiter,                                \* Hydration
  table, backend, overlay, entry, tree, creates, items, tombs, used,
  local, change, refused, mount, mounts, lost          \* LinuxNamespace

Mutation == INSTANCE MutationJournal
Upload == INSTANCE ContentUpload WITH Size <- Chunks
Cache == INSTANCE ContentCache WITH Size <- CacheSize
Fragmented == INSTANCE ContentCache WITH Size <- CacheSize, MaxRanges <- 1
Hydrate == INSTANCE Hydration WITH Size <- HydrateSize

(* Local creates over one remote item and a second mount; and two remote   *)
(* items with a lost answer.                                               *)
Local == INSTANCE LinuxNamespace WITH
  Base <- {OldItem}, Arrivals <- {}, Files <- {NewFile}, Dirs <- {NewDir},
  MaxMounts <- 2, MaxLost <- 0
Feed == INSTANCE LinuxNamespace WITH
  Base <- {OldItem}, Arrivals <- {NewItem}, Files <- {}, Dirs <- {},
  MaxMounts <- 1, MaxLost <- 1

journalVars == <<rec, run, remote, late, faults>>
mutationVars == <<session, base>>
entryVars == <<dirty, leases, reserved>>
uploadVars == <<active, latest>>
cacheVars == <<ranges, pinned, activeWrites, write, eviction, bytes, effects>>
hydrateVars == <<work, nextId, waiter>>
namespaceVars == <<table, backend, overlay, entry, tree, creates, items, tombs, used,
                   local, change, refused, mount, mounts, lost>>
vars == <<part, journalVars, mutationVars, entryVars, uploadVars, cacheVars, hydrateVars,
          namespaceVars>>

NoJournal == /\ rec = Unused /\ run = Unused /\ remote = Unused /\ late = Unused
             /\ faults = Unused
NoMutation == session = Unused /\ base = Unused
NoEntry == dirty = Unused /\ leases = Unused /\ reserved = Unused
NoUpload == active = Unused /\ latest = Unused
NoCache == /\ ranges = Unused /\ pinned = Unused /\ activeWrites = Unused
           /\ write = Unused /\ eviction = Unused /\ bytes = Unused /\ effects = Unused
NoHydrate == work = Unused /\ nextId = Unused /\ waiter = Unused
NoNamespace ==
  /\ table = Unused /\ backend = Unused /\ overlay = Unused /\ entry = Unused
  /\ tree = Unused /\ creates = Unused /\ items = Unused /\ tombs = Unused
  /\ used = Unused /\ local = Unused /\ change = Unused /\ refused = Unused
  /\ mount = Unused /\ mounts = Unused /\ lost = Unused

InitOfCore ==
  \/ /\ part = "mutation" /\ Mutation!Init
     /\ NoEntry /\ NoUpload /\ NoCache /\ NoHydrate
  \/ /\ part = "upload" /\ Upload!Init
     /\ NoMutation /\ NoCache /\ NoHydrate
  \/ /\ (part = "cache" /\ Cache!Init) \/ (part = "fragmented" /\ Fragmented!Init)
     /\ NoJournal /\ NoMutation /\ NoUpload /\ NoHydrate
  \/ /\ part = "hydration" /\ Hydrate!Init
     /\ NoJournal /\ NoMutation /\ NoEntry /\ NoUpload /\ NoCache

InitOfMount ==
  /\ \/ part = "local" /\ Local!Init
     \/ part = "feed" /\ Feed!Init
  /\ NoJournal /\ NoMutation /\ NoEntry /\ NoUpload /\ NoCache /\ NoHydrate

Init == part \in Parts /\ ((InitOfCore /\ NoNamespace) \/ InitOfMount)

InMutation(A) ==
  /\ part = "mutation" /\ A
  /\ UNCHANGED <<part, entryVars, uploadVars, cacheVars, hydrateVars, namespaceVars>>
InUpload(A) ==
  /\ part = "upload" /\ A
  /\ UNCHANGED <<part, mutationVars, cacheVars, hydrateVars, namespaceVars>>
InCache(A) ==
  /\ part = "cache" /\ A
  /\ UNCHANGED <<part, journalVars, mutationVars, uploadVars, hydrateVars, namespaceVars>>
InFragments(A) ==
  /\ part = "fragmented" /\ A
  /\ UNCHANGED <<part, journalVars, mutationVars, uploadVars, hydrateVars, namespaceVars>>
InHydration(A) ==
  /\ part = "hydration" /\ A
  /\ UNCHANGED <<part, journalVars, mutationVars, entryVars, uploadVars, cacheVars,
                 namespaceVars>>

InNamespace(p, A) ==
  /\ part = p /\ A
  /\ UNCHANGED <<part, journalVars, mutationVars, entryVars, uploadVars, cacheVars,
                 hydrateVars>>

Next ==
  \/ InMutation(Mutation!Next) \/ InUpload(Upload!Next)
  \/ InCache(Cache!Next) \/ InFragments(Fragmented!Next)
  \/ InHydration(Hydrate!Next)
  \/ InNamespace("local", Local!Next) \/ InNamespace("feed", Feed!Next)

Spec == Init /\ [][Next]_vars

-----------------------------------------------------------------------------
(* The fairness of each part, as its module states it.  Only one part      *)
(* runs, so that fairness of a disjunction over parts says the same as     *)
(* fairness of each.                                                       *)

(* The i-th runner, cache write or waiter.                                 *)
Steps(i) ==
  \/ InMutation(i \in Mutation!Runners /\ Mutation!RunnerStep(i))
  \/ InUpload(i \in Upload!Runners /\ Upload!RunnerStep(i))
  \/ InCache(i \in Writes /\ Cache!Journals(i))
  \/ InFragments(i \in Writes /\ Fragmented!Journals(i))
  \/ InHydration(i \in Hydrate!Waiters /\ Hydrate!WaiterStep(i))

Install(w) ==
  InCache(Cache!InstallBytes(w)) \/ InFragments(Fragmented!InstallBytes(w))

Carry ==
  \/ InCache(\E v \in Evictions : Cache!EvictionStep(v))
  \/ InFragments(\E v \in Evictions : Fragmented!EvictionStep(v))
  \/ InHydration(Hydrate!ReadAnswers)

Recover ==
  \/ InMutation(\E x \in Mutation!Runners, o \in Ops : Mutation!Resume(x, o))
  \/ InUpload(\E x \in Upload!Runners, u \in Upload!Uploads : Upload!Resume(x, u))

FairSpec ==
  /\ Spec
  /\ \A i \in 1 .. 3 : WF_vars(Steps(i))
  /\ \A w \in Writes : WF_vars(Install(w))
  /\ WF_vars(Carry) /\ WF_vars(Recover)

-----------------------------------------------------------------------------
(* Properties.                                                             *)

(* A durable record that claims a decision tells the truth about the       *)
(* remote, also about requests that arrive later; a mutation's and an      *)
(* upload's outcome alike (record_remote_outcome of both journals).        *)
OutcomesAreTrue ==
  /\ part = "mutation" => Mutation!OutcomeIsTrue
  /\ part = "upload" => Upload!UploadIsTrue

(* A recorded decision is final: no slower runner, of whatever generation, *)
(* moves a record back or replaces its outcome (with_fenced_mutation,      *)
(* record_remote_outcome).                                                 *)
DecisionsAreFinal == [][part = "mutation" => Mutation!KeepsDecisions]_vars

(* However two runners interleave on one record, neither takes the other's *)
(* progress, a fence or an outcome still pending for a stuck store         *)
(* (observe_mutation_transition, observe_transition).                      *)
NoFalseStall ==
  /\ part = "mutation" => Mutation!NoFalseStall
  /\ part = "upload" => Upload!NoFalseStall

(* No local change is lost: an entry is clean only once its latest         *)
(* generation is committed remotely, and only a clean entry without an     *)
(* upload is evicted (reconcile_content_upload_metadata, clear_dirty).     *)
NoChangeIsLost == part = "upload" => Upload!NoChangeIsLost

(* What the entry claims to hold is on disk, in normal form, and contains  *)
(* every committed write (ContentRangeSet::insert and covers, and the      *)
(* order of effect, record and metadata in cache writes and evictions).    *)
CoverageIsBacked ==
  part = "cache" => Cache!CoverageIsBacked /\ Cache!CommittedIsCovered

(* An eviction excludes pins, local changes, leases, cache writes and      *)
(* other evictions from its intent to its completion, and the counters     *)
(* say what the journals hold (reserve_eviction, eviction_blockers).       *)
EvictionIsExclusive == part = "cache" => Cache!EvictionIsExclusive

(* A hydration result is exactly the bytes asked for, whatever work it     *)
(* shares, and an entry lives exactly as long as somebody waits for it     *)
(* (register_range, assemble, release_work).                               *)
HydrationIsExact ==
  part = "hydration" => Hydrate!HydrationIsExact /\ Hydrate!WorkIsCounted

(* A mount shows every entry the store committed that the overlay took,    *)
(* under whatever earlier entries, tombstones and remote changes its name  *)
(* and its item have been through, and so does the next, if it comes up    *)
(* (lookup, accept_rename, accept_remove, apply_remote_upsert,             *)
(* restore_namespace_overlay).  The overlay refuses of local operations    *)
(* only a rename onto a local item and what follows it at the same name,   *)
(* and a mount fails only for the pending rename of a remote item          *)
(* (ensure_namespace_item_is_unique).                                      *)
NothingIsHidden ==
  /\ part = "local" => Local!NothingIsHidden
  /\ part = "feed" => Feed!NothingIsHidden

(* What is begun is finished, although runners crash and answers are lost: *)
(* mutations and uploads complete and give their leases back, cache writes *)
(* and evictions free the entry, waits end and leave no work.  All that    *)
(* can stay pending is an operation whose outcome the remote keeps unknown *)
(* for ever, and a cache write the entry is too fragmented for.            *)
JournalsSettle ==
  <>[](/\ part = "mutation" => Mutation!MutationsDone
       /\ part = "upload" => Upload!UploadsDone
       /\ part = "cache" => Cache!CacheFree
       /\ part = "fragmented" => Fragmented!CacheFree
       /\ part = "hydration" => Hydrate!NobodyWaits)
=============================================================================
