---------------------------- MODULE ContentCache ----------------------------
(***************************************************************************)
(* One content entry of the cloud files core (core/src/content_storage.rs, *)
(* cache_write.rs): the provider's sparse cache of one revision, filled by *)
(* journalled cache writes and emptied by journalled evictions, which pins,*)
(* local changes, leases and each other keep apart.  The journals live in  *)
(* one transactional store; the bytes do not.  An executor that crashes    *)
(* loses only its place, which the records tell: an effect may be repeated *)
(* as long as it is not recorded.                                          *)
(***************************************************************************)
EXTENDS Integers, Sequences, FiniteSets

CONSTANTS
  Size,        \* total_size of the revision
  Writes,      \* cache write operations
  Evictions,   \* eviction operations
  Leases,      \* runtime leases, of any kind
  MaxRanges    \* ContentRangeSet::MAX_RANGES

VARIABLES
  ranges,      \* the entry's ContentRangeSet
  pinned, dirty,
  leases,      \* held leases
  activeWrites, reserved,
  write,       \* cache write -> [state, range]
  eviction,    \* eviction -> [state, plan, seen]
  bytes,       \* external: provider bytes on disk
  effects      \* external: eviction -> physical effects carried out

entry == <<ranges, pinned, dirty, leases, activeWrites, reserved>>
vars == <<entry, write, eviction, bytes, effects>>

-----------------------------------------------------------------------------
(* ContentRangeSet: half-open ranges in ascending order.                   *)

Ranges == {r \in [off : 0 .. Size, end : 0 .. Size] : r.off < r.end}
Bytes(r) == r.off .. r.end - 1
Covered(rs) == UNION {Bytes(rs[i]) : i \in 1 .. Len(rs)}

(* partition_point: how many leading elements satisfy the test.            *)
EndingBefore(rs, x) == Cardinality({i \in 1 .. Len(rs) : rs[i].end < x})
EndingBy(rs, x)     == Cardinality({i \in 1 .. Len(rs) : rs[i].end <= x})
StartingBy(rs, x)   == Cardinality({i \in 1 .. Len(rs) : rs[i].off <= x})

Covers(rs, r) ==
  LET i == EndingBy(rs, r.off) + 1 IN
  i <= Len(rs) /\ rs[i].off <= r.off /\ rs[i].end >= r.end

Smaller(a, b) == IF a < b THEN a ELSE b
Larger(a, b)  == IF a < b THEN b ELSE a

(* Mutant: adjacent and overlapping neighbours on the left are dropped.    *)
InsertLosesLeft(rs, r) ==
  LET first == EndingBefore(rs, r.off)
      next  == StartingBy(rs, r.end)
      whole == IF first = next THEN r
               ELSE [off |-> r.off, end |-> Larger(r.end, rs[next].end)]
  IN  IF Covers(rs, r) THEN rs
      ELSE SubSeq(rs, 1, first) \o <<whole>> \o SubSeq(rs, next + 1, Len(rs))

(* The neighbours the range touches are merged into one.                   *)
Insert(rs, r) ==
  LET first == EndingBefore(rs, r.off)
      next  == StartingBy(rs, r.end)
      whole == IF first = next THEN r
               ELSE [off |-> Smaller(r.off, rs[first + 1].off),
                     end |-> Larger(r.end, rs[next].end)]
  IN  IF Covers(rs, r) THEN rs
      ELSE SubSeq(rs, 1, first) \o <<whole>> \o SubSeq(rs, next + 1, Len(rs))

Fits(rs) == Len(rs) <= MaxRanges

(* Normal form: ascending, and no two ranges touch.                        *)
Normal(rs) == \A i \in 1 .. Len(rs) - 1 : rs[i].end < rs[i + 1].off

-----------------------------------------------------------------------------
Idle == /\ pinned = FALSE /\ dirty = FALSE /\ leases = {}
        /\ activeWrites = 0 /\ reserved = FALSE
        /\ write = [w \in Writes |-> [state |-> "none", range |-> [off |-> 0, end |-> 0]]]
        /\ eviction = [v \in Evictions |-> [state |-> "none", plan |-> {}, seen |-> {}]]
        /\ effects = [v \in Evictions |-> {}]

(* The entry is loaded with whatever earlier writes have left in it.       *)
Init ==
  /\ Idle
  /\ \E n \in 0 .. Smaller(MaxRanges, (Size + 1) \div 2) :
       \E rs \in [1 .. n -> Ranges] : Normal(rs) /\ ranges = rs
  /\ bytes = Covered(ranges)

-----------------------------------------------------------------------------
(* Guards set by the product and the platform.                             *)

SetPinned(p) ==
  /\ p => ~reserved
  /\ pinned' = p
  /\ UNCHANGED <<ranges, dirty, leases, activeWrites, reserved, write, eviction,
                 bytes, effects>>

MarkDirty ==
  /\ ~reserved
  /\ dirty' = TRUE
  /\ UNCHANGED <<ranges, pinned, leases, activeWrites, reserved, write, eviction,
                 bytes, effects>>

ClearDirty ==
  /\ dirty' = FALSE
  /\ UNCHANGED <<ranges, pinned, leases, activeWrites, reserved, write, eviction,
                 bytes, effects>>

AcquireLease(l) ==
  /\ ~reserved
  /\ leases' = leases \cup {l}
  /\ UNCHANGED <<ranges, pinned, dirty, activeWrites, reserved, write, eviction,
                 bytes, effects>>

ReleaseLease(l) ==
  /\ leases' = leases \ {l}
  /\ UNCHANGED <<ranges, pinned, dirty, activeWrites, reserved, write, eviction,
                 bytes, effects>>

-----------------------------------------------------------------------------
(* Cache writes.                                                           *)

Moves(w, from, to) ==
  /\ write[w].state = from
  /\ write' = [write EXCEPT ![w].state = to]

(* Mutant: a write may begin under an eviction.                            *)
BeginCacheWriteAnyTime(w, r) ==
  /\ write[w].state = "none"
  /\ activeWrites' = activeWrites + 1
  /\ write' = [write EXCEPT ![w] = [state |-> "intent", range |-> r]]
  /\ UNCHANGED <<ranges, pinned, dirty, leases, reserved, eviction, bytes, effects>>

BeginCacheWrite(w, r) ==
  /\ write[w].state = "none"
  /\ ~reserved
  /\ activeWrites' = activeWrites + 1
  /\ write' = [write EXCEPT ![w] = [state |-> "intent", range |-> r]]
  /\ UNCHANGED <<ranges, pinned, dirty, leases, reserved, eviction, bytes, effects>>

(* The bytes are installed, again after a crash.                           *)
InstallBytes(w) ==
  /\ write[w].state = "intent"
  /\ bytes' = bytes \cup Bytes(write[w].range)
  /\ UNCHANGED <<entry, write, eviction, effects>>

RecordPhysicalCommit(w) ==
  /\ Bytes(write[w].range) \subseteq bytes
  /\ Moves(w, "intent", "physical")
  /\ UNCHANGED <<entry, eviction, bytes, effects>>

(* Fails, and leaves the record as it is, when the entry is too fragmented. *)
ReconcileCoverage(w) ==
  /\ Moves(w, "physical", "coverage")
  /\ ranges' = Insert(ranges, write[w].range)
  /\ Fits(ranges')
  /\ UNCHANGED <<pinned, dirty, leases, activeWrites, reserved, eviction, bytes,
                 effects>>

CompleteCacheWrite(w) ==
  /\ Moves(w, "coverage", "completed")
  /\ activeWrites > 0 /\ activeWrites' = activeWrites - 1
  /\ UNCHANGED <<ranges, pinned, dirty, leases, reserved, eviction, bytes, effects>>

(* The steps of the journal; the installation may be repeated before them. *)
Journals(w) == RecordPhysicalCommit(w) \/ ReconcileCoverage(w) \/ CompleteCacheWrite(w)

WriteStep(w) == InstallBytes(w) \/ Journals(w)

(* record_provider_range, without a journal: no guard but the limit.  That *)
(* the bytes are on disk is left to the caller.                            *)
RecordProviderRange(r) ==
  /\ Bytes(r) \subseteq bytes
  /\ ranges' = Insert(ranges, r)
  /\ Fits(ranges')
  /\ UNCHANGED <<pinned, dirty, leases, activeWrites, reserved, write, eviction, bytes,
                 effects>>

-----------------------------------------------------------------------------
(* Evictions, in the hybrid mode that owns both layers.                    *)

ForTarget(t) ==
  CASE t = "provider" -> {"remove", "invalidate"}
    [] t = "platform" -> {"evict"}
    [] t = "all"      -> {"remove", "evict", "invalidate"}

Blocked == pinned \/ dirty \/ leases # {} \/ activeWrites > 0 \/ reserved

BeginEviction(v, t) ==
  /\ eviction[v].state = "none"
  /\ ~Blocked
  /\ reserved' = TRUE
  /\ eviction' = [eviction EXCEPT ![v] =
       [state |-> "intent", plan |-> ForTarget(t), seen |-> {}]]
  /\ UNCHANGED <<ranges, pinned, dirty, leases, activeWrites, write, bytes, effects>>

(* A physical effect; the caches are invalidated after the removal.        *)
CarryOut(v, e) ==
  /\ eviction[v].state = "intent"
  /\ e \in eviction[v].plan \ eviction[v].seen
  /\ e = "invalidate" => "remove" \in eviction[v].seen
  /\ effects' = [effects EXCEPT ![v] = @ \cup {e}]
  /\ bytes' = IF e = "remove" THEN {} ELSE bytes
  /\ UNCHANGED <<entry, write, eviction>>

AllEffectsSeen(v, seen) == eviction[v].plan \subseteq seen

RecordEffect(v, e) ==
  /\ eviction[v].state = "intent"
  /\ e \in effects[v] \ eviction[v].seen
  /\ LET seen == eviction[v].seen \cup {e} IN
     eviction' = [eviction EXCEPT ![v].seen = seen,
       ![v].state = IF AllEffectsSeen(v, seen) THEN "effects" ELSE @]
  /\ UNCHANGED <<entry, write, bytes, effects>>

ReconcileEviction(v) ==
  /\ eviction[v].state = "effects" /\ reserved
  /\ eviction' = [eviction EXCEPT ![v].state = "metadata"]
  /\ ranges' = IF "remove" \in eviction[v].plan THEN <<>> ELSE ranges
  /\ UNCHANGED <<pinned, dirty, leases, activeWrites, reserved, write, bytes,
                 effects>>

CompleteEviction(v) ==
  /\ eviction[v].state = "metadata" /\ reserved
  /\ eviction' = [eviction EXCEPT ![v].state = "completed"]
  /\ reserved' = FALSE
  /\ UNCHANGED <<ranges, pinned, dirty, leases, activeWrites, write, bytes, effects>>

EvictionStep(v) ==
  \/ \E e \in {"remove", "evict", "invalidate"} : CarryOut(v, e) \/ RecordEffect(v, e)
  \/ ReconcileEviction(v) \/ CompleteEviction(v)

-----------------------------------------------------------------------------
Next ==
  \/ \E p \in BOOLEAN : SetPinned(p)
  \/ MarkDirty \/ ClearDirty
  \/ \E l \in Leases : AcquireLease(l) \/ ReleaseLease(l)
  \/ \E r \in Ranges : RecordProviderRange(r)
  \/ \E w \in Writes : WriteStep(w) \/ \E r \in Ranges : BeginCacheWrite(w, r)
  \/ \E v \in Evictions :
       EvictionStep(v) \/ \E t \in {"provider", "platform", "all"} : BeginEviction(v, t)

Spec == Init /\ [][Next]_vars

(* Recovery pages through the journals until every record is completed.    *)
Fairness ==
  /\ \A w \in Writes : WF_vars(Journals(w)) /\ WF_vars(InstallBytes(w))
  /\ \A v \in Evictions : WF_vars(EvictionStep(v))

FairSpec == Spec /\ Fairness

-----------------------------------------------------------------------------
(* Properties.                                                             *)

(* Outside an eviction every byte the entry claims to have is on disk, so  *)
(* a read served from the cache finds it; the claimed ranges are in normal *)
(* form and answer for exactly the bytes between them, whatever the order  *)
(* in which writes were merged (ContentRangeSet::insert and covers, the    *)
(* order of effect, record and metadata in both journals).                 *)
CoverageIsBacked ==
  /\ ~reserved => Covered(ranges) \subseteq bytes
  /\ Normal(ranges)
  /\ \A r \in Ranges : Covers(ranges, r) <=> Bytes(r) \subseteq Covered(ranges)

(* A write whose coverage was committed is readable until an eviction has  *)
(* removed it on purpose.                                                  *)
CommittedIsCovered ==
  (\A v \in Evictions : eviction[v].state = "none") =>
    \A w \in Writes : write[w].state \in {"coverage", "completed"} =>
      Bytes(write[w].range) \subseteq Covered(ranges)

Open(v) == eviction[v].state \in {"intent", "effects", "metadata"}
Pending(w) == write[w].state \in {"intent", "physical", "coverage"}

(* An eviction in progress excludes pins, local changes, leases, cache     *)
(* writes and other evictions, from its intent to its completion; and the  *)
(* entry's counters say exactly what the journals hold, so that nothing    *)
(* is blocked for ever by an operation that has ended.                     *)
EvictionIsExclusive ==
  /\ reserved => ~pinned /\ ~dirty /\ leases = {} /\ activeWrites = 0
  /\ reserved <=> \E v \in Evictions : Open(v)
  /\ \A u, v \in Evictions : Open(u) /\ Open(v) => u = v
  /\ activeWrites = Cardinality({w \in Writes : Pending(w)})

TooFragmented(w) ==
  write[w].state = "physical" /\ ~Fits(Insert(ranges, write[w].range))

(* Every write and eviction that began is completed, and the entry is free *)
(* again, but for the writes whose range the entry has no room for: their  *)
(* coverage is refused each time, and nothing else ends them               *)
(* (reconcile_content_cache_write, ContentRangeSet::insert).               *)
CacheFree == ~reserved /\ \A w \in Writes : Pending(w) => TooFragmented(w)
=============================================================================
