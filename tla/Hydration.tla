------------------------------ MODULE Hydration ------------------------------
(***************************************************************************)
(* Shared hydration work (core/src/hydration.rs): requests for parts of a  *)
(* content share backend reads, add reads for the gaps only, and are       *)
(* cancelled or dropped one by one without disturbing each other.  Nothing *)
(* is spawned: a read makes progress while some waiter polls it, and goes  *)
(* away with its last waiter.                                              *)
(***************************************************************************)
EXTENDS Integers, FiniteSets

CONSTANTS
  Contents,       \* content keys: item scope, revision and expected size
  Size,           \* expected size of every content
  Alignments,     \* alignments a request may ask for
  NumWaiters,     \* bound: requests, numbered in the order of registration
  MaxWork,        \* max_in_flight_work
  MaxPerContent   \* max_in_flight_per_content

VARIABLES
  work,     \* entries [id, content, start, end, whole, count, read]
  nextId,   \* next_work_id
  waiter    \* waiter -> [terminal, start, end, deps]

vars == <<work, nextId, waiter>>

Waiters == 1 .. NumWaiters
Idle == [terminal |-> "none", start |-> 0, end |-> 0, deps |-> {}]

Init ==
  /\ work = {}
  /\ nextId = 1
  /\ waiter = [w \in Waiters |-> Idle]

Least(a, b) == IF a < b THEN a ELSE b
MaxOf(S) == CHOOSE m \in S : \A n \in S : n <= m

-----------------------------------------------------------------------------
(* Registration, under the coordinator's lock.                             *)

LogicalExtent(r) == [start |-> r.off, end |-> Least(r.end, Size)]

(* Mutant: the end is rounded down like the start.                         *)
AlignedExtentDown(e, a) == [start |-> (e.start \div a) * a, end |-> (e.end \div a) * a]

AlignedExtent(e, a) ==
  [start |-> (e.start \div a) * a,
   end |-> IF e.end = Size \/ e.end % a = 0 THEN e.end
           ELSE Least(e.end + a - (e.end % a), Size)]

Overlap(p, q) == p.start < q.end /\ q.start < p.end

(* The order of dependencies: by start, then by end, then by age.          *)
Before(p, q) ==
  \/ p.start < q.start
  \/ p.start = q.start /\ p.end < q.end
  \/ p.start = q.start /\ p.end = q.end /\ p.id < q.id

Entry(id, c, e, whole) ==
  [id |-> id, content |-> c, start |-> e.start, end |-> e.end,
   whole |-> whole, count |-> 0, read |-> "pending"]

OfContent(c) == {k \in work : k.content = c}

EnsureCapacity(c, n) ==
  /\ MaxWork # 0 /\ Cardinality(work) + n <= MaxWork
  /\ MaxPerContent # 0 /\ Cardinality(OfContent(c)) + n <= MaxPerContent

(* How far a walk over the dependencies ds has covered e.                  *)
Cursor(e, ds) == MaxOf({e.start} \cup {Least(d.end, e.end) : d \in ds})

(* What existing work leaves uncovered of e: before each entry, in their   *)
(* order, and after the last.                                              *)
Gaps(e, existing) ==
  {g \in {[start |-> Cursor(e, {d \in existing : Before(d, k)}),
           end |-> Least(k.start, e.end)] : k \in existing}
         \cup {[start |-> Cursor(e, existing), end |-> e.end]} : g.start < g.end}

(* New entries are numbered in ascending order of their extents.           *)
NewWork(c, extents, whole) ==
  {Entry(nextId + Cardinality({p \in extents : p.start < e.start}), c, e, whole) :
     e \in extents}

(* Takes the existing work and the new, or fails and leaves nothing.       *)
Join(w, target, c, existing, extents, whole) ==
  LET deps == existing \cup NewWork(c, extents, whole)
      fits == EnsureCapacity(c, Cardinality(extents))
  IN  IF extents # {} /\ ~fits
      THEN /\ waiter' = [waiter EXCEPT ![w] = [Idle EXCEPT !.terminal = "released"]]
           /\ UNCHANGED <<work, nextId>>
      ELSE /\ work' = (work \ existing) \cup {[k EXCEPT !.count = @ + 1] : k \in deps}
           /\ nextId' = nextId + Cardinality(extents)
           /\ waiter' = [waiter EXCEPT ![w] =
                [terminal |-> "pending",
                 start |-> target.start, end |-> target.end,
                 deps |-> {[id |-> k.id, start |-> k.start, end |-> k.end] : k \in deps}]]

Fresh(w) ==
  /\ waiter[w].terminal = "none"
  /\ \A v \in Waiters : v < w => waiter[v].terminal # "none"

RegisterWhole(w, c) ==
  LET e == [start |-> 0, end |-> Size]
      same == {k \in OfContent(c) : k.whole}
  IN  /\ Fresh(w)
      /\ Join(w, e, c, same, IF same = {} THEN {e} ELSE {}, TRUE)

RegisterEmptyRange(w, c, r) ==
  LET e == LogicalExtent(r)
      same == {k \in OfContent(c) : ~k.whole /\ k.start = e.start /\ k.end = e.start}
  IN  /\ Fresh(w) /\ e.start = e.end
      /\ Join(w, e, c, same, IF same = {} THEN {e} ELSE {}, FALSE)

RegisterRange(w, c, r, a) ==
  LET t == LogicalExtent(r)
      e == AlignedExtent(t, a)
      existing == {k \in OfContent(c) : k.start < e.end /\ (k.whole \/ Overlap(e, k))}
  IN  /\ Fresh(w) /\ t.start < t.end
      /\ Join(w, t, c, existing, Gaps(e, existing), FALSE)

Requests == {r \in [off : 0 .. Size, end : 0 .. Size + 1] : r.off <= r.end}

Register(w) ==
  \E c \in Contents :
    \/ RegisterWhole(w, c)
    \/ \E r \in Requests :
         RegisterEmptyRange(w, c, r) \/ \E a \in Alignments : RegisterRange(w, c, r, a)

-----------------------------------------------------------------------------
(* Completion and cancellation.  The terminal flag is won by one compare-  *)
(* and-swap; the work is released after it, under the lock.                *)

Depends(w, id) == \E d \in waiter[w].deps : d.id = id
Reads(w) == {k.read : k \in {k \in work : Depends(w, k.id)}}

(* The backend answers a read its waiters poll; a failure stays with the   *)
(* entry as long as the entry lives.                                       *)
ReadContent(res) ==
  /\ \E k \in work :
       /\ k.read = "pending"
       /\ work' = (work \ {k}) \cup {[k EXCEPT !.read = res]}
  /\ UNCHANGED <<nextId, waiter>>

(* try_join_all is done when all reads are, or when the first one fails.   *)
Complete(w) ==
  /\ waiter[w].terminal = "pending"
  /\ "failed" \in Reads(w) \/ Reads(w) = {"ok"}
  /\ waiter' = [waiter EXCEPT ![w].terminal = "completed"]
  /\ UNCHANGED <<work, nextId>>

(* By its handle, or because the waiter or its future is dropped.          *)
Cancel(w) ==
  /\ waiter[w].terminal = "pending"
  /\ waiter' = [waiter EXCEPT ![w].terminal = "cancelled"]
  /\ UNCHANGED <<work, nextId>>

(* Mutant: the last waiter leaves its entry behind.                        *)
ReleasedKeepsLast(ks) == {[k EXCEPT !.count = @ - 1] : k \in ks}

(* An entry goes with its last waiter.                                     *)
Released(ks) == {[k EXCEPT !.count = @ - 1] : k \in {k \in ks : k.count > 1}}

(* release_work, once per waiter; the wait then returns.                   *)
ReleaseWork(w) ==
  /\ waiter[w].terminal \in {"completed", "cancelled"}
  /\ LET ks == {k \in work : Depends(w, k.id)} IN work' = (work \ ks) \cup Released(ks)
  /\ waiter' = [waiter EXCEPT ![w] = [Idle EXCEPT !.terminal = "released"]]
  /\ UNCHANGED nextId

-----------------------------------------------------------------------------
WaiterStep(w) == Complete(w) \/ ReleaseWork(w)
ReadAnswers == \E res \in {"ok", "failed"} : ReadContent(res)

Next ==
  \/ \E w \in Waiters : Register(w) \/ WaiterStep(w) \/ Cancel(w)
  \/ ReadAnswers

Spec == Init /\ [][Next]_vars

(* Whoever holds a waiter polls it, and a read that is polled answers.     *)
Fairness ==
  /\ \A w \in Waiters : WF_vars(WaiterStep(w))
  /\ WF_vars(ReadAnswers)

FairSpec == Spec /\ Fairness

-----------------------------------------------------------------------------
(* Properties.                                                             *)

Holds(w) == waiter[w].terminal \notin {"none", "released"}

(* assemble walks the dependencies in their order and copies from each     *)
(* what the ones before it have not given.                                 *)
Copied(v, d) == Cursor(v, {c \in v.deps : c.start < v.end /\ Before(c, d)})
Contributes(v, d) == d.end > Copied(v, d) /\ d.start < v.end /\ Copied(v, d) < v.end

(* Whatever work existed when it registered, a waiter's dependencies cover *)
(* its target without a hole when assemble walks them in their order, and  *)
(* while it holds them each is live work: a result is exactly the bytes    *)
(* asked for (register_range, aligned_extent, assemble).                   *)
HydrationIsExact ==
  \A w \in Waiters : Holds(w) =>
    LET v == waiter[w] IN
    /\ \A d \in v.deps : Contributes(v, d) => d.start <= Copied(v, d)
    /\ Cursor(v, v.deps) = v.end
    /\ \A d \in v.deps :
         \E k \in work : k.id = d.id /\ k.start = d.start /\ k.end = d.end

(* An entry counts exactly the waiters that have not released it, so none  *)
(* outlives its last waiter, none vanishes under another one's cancel or   *)
(* drop, and the limits bound what is in flight.                           *)
WorkIsCounted ==
  /\ \A k \in work :
       /\ k.count > 0
       /\ k.count = Cardinality({w \in Waiters : Holds(w) /\ Depends(w, k.id)})
  /\ \A k, l \in work : k.id = l.id => k = l
  /\ Cardinality(work) <= MaxWork
  /\ \A c \in Contents : Cardinality(OfContent(c)) <= MaxPerContent

(* Every wait ends and every entry is removed.                             *)
NobodyWaits == work = {} /\ \A w \in Waiters : ~Holds(w)
=============================================================================
