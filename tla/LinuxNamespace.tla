--------------------------- MODULE LinuxNamespace ---------------------------
(***************************************************************************)
(* The namespace of one directory of a writable Linux mount                *)
(* (linux/src/writeback.rs): the backend's listing under an overlay of     *)
(* local creates, renames and removals and of remote changes, each with    *)
(* its name index.  A local operation looks names up, has the product's    *)
(* store commit it and is then accepted into the overlay; remote changes   *)
(* are committed by the product first and applied in the same two steps.   *)
(* Stable keys stand for their inodes.                                     *)
(*                                                                         *)
(* External: the store, whose transactions compare the facts of a request  *)
(* with the namespace as committed, and the product's change feed, which   *)
(* leaves alone what a local mutation is pending for.  The listing of the  *)
(* backend is the one of the time of the mount.                            *)
(***************************************************************************)
EXTENDS Naturals, FiniteSets

CONSTANTS
  Names,          \* names in the directory
  Base,           \* items the remote side has at first
  Arrivals,       \* items that only a remote change brings
  Files, Dirs,    \* items that create_file and create_directory make
  None,
  MaxMounts,      \* bound: mounts
  MaxLost         \* bound: store answers that get lost

VARIABLES
  table,      \* keys with a restored inode record
  backend,    \* name -> key, as the read-only engine lists the directory
  overlay,    \* WritableState
  entry,      \* store: name -> key, the namespace as committed
  tree,       \* store: name -> key, the remote namespace
  creates,    \* store: files whose creation is pending
  items,      \* store: pending directory creates and renames
  tombs,      \* store: name -> tombstone
  used,       \* keys ever created locally
  local,      \* the local operation under way
  change,     \* the remote change under way
  refused,    \* names that a committed operation the overlay lacks is about
  mount, mounts, lost

vars == <<table, backend, overlay, entry, tree, creates, items, tombs, used,
          local, change, refused, mount, mounts, lost>>
store == <<entry, tree, creates, items, tombs, used>>

Keys == Base \cup Arrivals \cup Files \cup Dirs
Kind(k) == IF k \in Dirs THEN "directory" ELSE "file"
Empty(S) == [s \in S |-> None]
NoTomb == [key |-> None, deletes |-> FALSE]
NoLocal == [pc |-> "none"]
NoChange == [pc |-> "none"]

(* For every item the name its namespace, created or remote record gives   *)
(* it, and for every name the item its index gives.                        *)
NoOverlay ==
  [ns |-> Empty(Keys), nsName |-> Empty(Names),
   created |-> {}, createdKeys |-> {}, createdName |-> Empty(Names),
   remote |-> Empty(Keys), remoteName |-> Empty(Names),
   remoteTombs |-> {}, remoteDeleted |-> {}, tombs |-> {}, deleted |-> {}]

KeysOf(f) == {f[n] : n \in Names} \ {None}
NameOf(f, k) == CHOOSE n \in Names : f[n] = k

Init ==
  /\ tree \in {t \in [Names -> Base \cup {None}] :
                 \A k \in Base : Cardinality({n \in Names : t[n] = k}) = 1}
  /\ backend = tree /\ entry = tree /\ table = Base
  /\ overlay = NoOverlay
  /\ creates = {} /\ items = {} /\ used = {}
  /\ tombs = [n \in Names |-> NoTomb]
  /\ local = NoLocal /\ change = NoChange /\ refused = {}
  /\ mount = "up" /\ mounts = 1 /\ lost = 0

-----------------------------------------------------------------------------
(* What the mount shows.                                                   *)

NamespaceAt(o, n) ==
  IF o.nsName[n] # None /\ o.ns[o.nsName[n]] # None THEN o.nsName[n] ELSE None
CreatedAt(o, n) == IF o.createdName[n] \in o.created THEN o.createdName[n] ELSE None
RemoteAt(o, n) ==
  IF o.remoteName[n] # None /\ o.remote[o.remoteName[n]] # None THEN o.remoteName[n] ELSE None

First(k, rest) == IF k # None THEN k ELSE rest

(* Mutant: remote entries are looked up before local ones.                 *)
LookupRemoteFirst(o, b, n) ==
  First(RemoteAt(o, n), First(NamespaceAt(o, n), First(CreatedAt(o, n),
    IF n \in o.tombs \cup o.remoteTombs THEN None ELSE b[n])))

Lookup(o, b, n) ==
  First(NamespaceAt(o, n), First(CreatedAt(o, n), First(RemoteAt(o, n),
    IF n \in o.tombs \cup o.remoteTombs THEN None ELSE b[n])))

Shown(n) == Lookup(overlay, backend, n)

(* The names open_directory lists.                                         *)
OpenDirectory(o, b) ==
  LET overlaid == {n \in Names : NamespaceAt(o, n) # None \/ CreatedAt(o, n) # None
                                   \/ RemoteAt(o, n) # None}
      hidden == (o.tombs \cup o.remoteTombs) \ overlaid
  IN overlaid \cup {n \in Names \ hidden : b[n] # None}

(* getattr of an inode.                                                    *)
HasAttributes(k) ==
  \/ overlay.ns[k] # None \/ overlay.remote[k] # None
  \/ k \in (table \cup overlay.created) \ (overlay.deleted \cup overlay.remoteDeleted)

(* record_for_key_in_state.                                                *)
HasRecord(o, k) ==
  \/ o.ns[k] # None \/ k \in o.createdKeys \/ o.remote[k] # None \/ k \in table

-----------------------------------------------------------------------------
(* Local operations.  The kernel holds the directory's lock, so that there *)
(* is one at a time; a new name has been looked up and not found.          *)

Mounted == mount = "up"

(* Both creates: the store commits, and the answer is still to be accepted. *)
Create(k, n) ==
  /\ Mounted /\ local = NoLocal /\ k \in (Files \cup Dirs) \ used /\ entry[n] = None
  /\ Shown(n) = None
  /\ entry' = [entry EXCEPT ![n] = k]
  /\ creates' = creates \cup ({k} \cap Files)
  /\ items' = items \cup ({k} \cap Dirs)
  /\ used' = used \cup {k}
  /\ local' = [pc |-> "accept", op |-> "create", key |-> k, from |-> None, to |-> n, dest |-> None]
  /\ UNCHANGED <<table, backend, overlay, tree, tombs, change, refused, mount, mounts, lost>>

LookupSource(op, n, m) ==
  /\ Mounted /\ local = NoLocal /\ Shown(n) # None
  /\ (op = "remove") = (m = None) /\ m # n
  /\ local' = [pc |-> IF op = "rename" THEN "dest" ELSE "store", op |-> op, key |-> Shown(n),
               from |-> n, to |-> m, dest |-> None]
  /\ UNCHANGED <<table, backend, overlay, store, change, refused, mount, mounts, lost>>

LookupDestination ==
  /\ local.pc = "dest"
  /\ local' = [local EXCEPT !.pc = "store", !.dest = Shown(local.to)]
  /\ UNCHANGED <<table, backend, overlay, store, change, refused, mount, mounts, lost>>

(* The facts of the request are those of the committed namespace.          *)
FactsHold ==
  /\ entry[local.from] = local.key
  /\ local.op = "rename" =>
       /\ entry[local.to] = local.dest
       /\ local.dest # None => Kind(local.dest) = Kind(local.key)

CommitRename ==
  /\ entry' = [entry EXCEPT ![local.from] = None, ![local.to] = local.key]
  /\ items' = (items \ {local.dest}) \cup {local.key}
  /\ creates' = creates \ {local.dest}
  /\ tombs' = [tombs EXCEPT
       ![local.from] = [key |-> local.key, deletes |-> FALSE],
       ![local.to] = IF local.dest = None THEN @ ELSE [key |-> local.dest, deletes |-> TRUE]]

CommitRemove ==
  /\ entry' = [entry EXCEPT ![local.from] = None]
  /\ items' = items \ {local.key}
  /\ creates' = creates \ {local.key}
  /\ tombs' = [tombs EXCEPT ![local.from] = [key |-> local.key, deletes |-> TRUE]]

StoreCommits ==
  /\ local.pc = "store" /\ FactsHold
  /\ IF local.op = "rename" THEN CommitRename ELSE CommitRemove
  /\ local' = [local EXCEPT !.pc = "accept"]
  /\ UNCHANGED <<table, backend, overlay, tree, used, change, refused, mount, mounts, lost>>

StoreRefuses ==
  /\ local.pc = "store" /\ ~FactsHold
  /\ local' = NoLocal
  /\ UNCHANGED <<table, backend, overlay, store, change, refused, mount, mounts, lost>>

LocalNames == {local.from, local.to} \ {None}

(* The commit is not answered: the operation fails, and took effect.       *)
AnswerLost ==
  /\ local.pc = "accept" /\ lost < MaxLost
  /\ lost' = lost + 1 /\ local' = NoLocal /\ refused' = refused \cup LocalNames
  /\ UNCHANGED <<table, backend, overlay, store, change, mount, mounts>>

(* ensure_namespace_item_is_unique, for a create and for a rename.         *)
IndexedAt(o, n) == IF o.nsName[n] # None THEN o.nsName[n] ELSE o.createdName[n]
UniqueNamespaceItem(o, known, k, n, renamed) ==
  /\ ~renamed => k \notin known /\ o.ns[k] = None
  /\ IndexedAt(o, n) \in {None, k}

UniqueCreatedFile(o, known, k, n) ==
  /\ k \notin known /\ k \notin o.createdKeys /\ k \notin o.created
  /\ o.createdName[n] = None

AcceptCreatedFile(o, k, n) ==
  [o EXCEPT !.tombs = @ \ {n}, !.remoteTombs = @ \ {n},
     !.createdKeys = @ \cup {k}, !.created = @ \cup {k}, !.createdName[n] = k]

AcceptNamespaceCreate(o, k, n) ==
  [o EXCEPT !.tombs = @ \ {n}, !.remoteTombs = @ \ {n}, !.ns[k] = n, !.nsName[n] = k]

(* What a replaced item leaves behind: nothing of it if it is known under  *)
(* some key, and a deleted key.                                            *)
DropReplaced(o, known, d, m) ==
  LET inNs == o.ns[d] # None
      inCreated == ~inNs /\ d \in o.createdKeys
      isKnown == inNs \/ inCreated \/ d \in known
  IN IF d = None THEN o
     ELSE [o EXCEPT !.ns[d] = None,
             !.createdKeys = IF inCreated THEN @ \ {d} ELSE @,
             !.createdName[m] = IF isKnown THEN None ELSE @,
             !.deleted = @ \cup {d}, !.tombs = @ \cup {m}]

AcceptRename(o, known, r) ==
  LET left == [o EXCEPT !.nsName[r.from] = None, !.createdName[r.from] = None,
                        !.tombs = @ \cup {r.from}]
      freed == DropReplaced(left, known, r.dest, r.to)
  IN [freed EXCEPT
        !.deleted = @ \ {r.key}, !.tombs = @ \ {r.to}, !.remoteTombs = @ \ {r.to},
        !.ns[r.key] = r.to, !.nsName[r.to] = r.key,
        !.createdName[r.to] = IF r.key \in freed.createdKeys THEN r.key ELSE @]

AcceptRemove(o, r) ==
  [o EXCEPT !.ns[r.key] = None,
     !.nsName[r.from] = None, !.createdName[r.from] = None,
     !.deleted = @ \cup {r.key}, !.tombs = @ \cup {r.from}]

Acceptable ==
  CASE local.op = "create" /\ local.key \in Files ->
         UniqueCreatedFile(overlay, table, local.key, local.to)
    [] local.op = "create" /\ local.key \in Dirs ->
         UniqueNamespaceItem(overlay, table, local.key, local.to, FALSE)
    [] local.op = "rename" -> UniqueNamespaceItem(overlay, table, local.key, local.to, TRUE)
    [] local.op = "remove" -> TRUE

Accepted ==
  CASE local.op = "create" /\ local.key \in Files ->
         AcceptCreatedFile(overlay, local.key, local.to)
    [] local.op = "create" /\ local.key \in Dirs ->
         AcceptNamespaceCreate(overlay, local.key, local.to)
    [] local.op = "rename" -> AcceptRename(overlay, table, local)
    [] local.op = "remove" -> AcceptRemove(overlay, local)

Accept ==
  /\ local.pc = "accept"
  /\ local' = NoLocal
  /\ IF Acceptable
     THEN overlay' = Accepted /\ UNCHANGED refused
     ELSE refused' = refused \cup LocalNames /\ UNCHANGED overlay
  /\ UNCHANGED <<table, backend, store, change, mount, mounts, lost>>

-----------------------------------------------------------------------------
(* Remote changes, one at a time.                                          *)

(* No local mutation is pending for the item or the name.                  *)
Untouched(k) == k \notin items /\ \A n \in Names : tombs[n].key # k
SameEntry(n) == entry[n] = tree[n] /\ tombs[n] = NoTomb

(* A new item, a move or an update in place; whatever the destination has  *)
(* is replaced.                                                            *)
CommitUpsert(k, n) ==
  LET prev == IF k \in KeysOf(tree) /\ tree[n] # k THEN NameOf(tree, k) ELSE None
      replaced == IF tree[n] = k THEN None ELSE tree[n]
      Moved(f) == [m \in Names |-> IF m = n THEN k ELSE IF m = prev THEN None ELSE f[m]]
  IN /\ Mounted /\ change = NoChange /\ k \in Base \cup Arrivals
     /\ Untouched(k) /\ SameEntry(n) /\ (prev # None => SameEntry(prev))
     /\ (replaced # None => Untouched(replaced))
     /\ tree' = Moved(tree) /\ entry' = Moved(entry)
     /\ change' = [pc |-> "lookup", op |-> "upsert", key |-> k, name |-> n,
                   prev |-> prev, replaced |-> replaced]
     /\ UNCHANGED <<table, backend, overlay, creates, items, tombs, used, local, refused,
                    mount, mounts, lost>>

CommitDelete(n) ==
  /\ Mounted /\ change = NoChange /\ tree[n] # None
  /\ Untouched(tree[n]) /\ SameEntry(n)
  /\ tree' = [tree EXCEPT ![n] = None] /\ entry' = [entry EXCEPT ![n] = None]
  /\ change' = [pc |-> "lookup", op |-> "delete", key |-> tree[n], name |-> n,
                prev |-> None, replaced |-> None]
  /\ UNCHANGED <<table, backend, overlay, creates, items, tombs, used, local, refused,
                 mount, mounts, lost>>

(* The names a change is about, looked up before the lock is taken.        *)
TargetMatches(o, b, c) ==
  LET target == Lookup(o, b, c.name)
  IN CASE c.op = "delete" -> target = c.key
       [] c.op = "upsert" /\ c.replaced = None -> target \in {None, c.key}
       [] OTHER -> target = c.replaced

PreviousMatches(o, b, c) == Lookup(o, b, c.prev) = c.key

(* The checks of both changes under the lock.                              *)
CollidesLocally(o, c) ==
  \/ o.ns[c.key] # None \/ c.key \in o.createdKeys \/ c.key \in o.deleted
  \/ c.name \in o.tombs

UpsertFits(o, c) ==
  /\ c.replaced # None => HasRecord(o, c.replaced)
  /\ o.nsName[c.name] \in {None, c.key} /\ o.createdName[c.name] \in {None, c.key}
  /\ o.remoteName[c.name] # None => o.remoteName[c.name] \in {c.key, c.replaced}
  /\ o.remote[c.key] # None =>
       o.remote[c.key] = IF c.prev = None THEN c.name ELSE c.prev

DeleteFits(o, c) ==
  /\ HasRecord(o, c.key)
  /\ o.remoteName[c.name] \in {None, c.key}

Fits(o, c) ==
  /\ ~CollidesLocally(o, c)
  /\ IF c.op = "delete" THEN DeleteFits(o, c) ELSE UpsertFits(o, c)

(* An item goes from its name, and stays known as deleted unless it moved. *)
RemoteVacates(o, n) == [o EXCEPT !.remoteName[n] = None, !.remoteTombs = @ \cup {n}]
RemoteDrops(o, k, n) ==
  [RemoteVacates(o, n) EXCEPT !.remote[k] = None, !.remoteDeleted = @ \cup {k}]

ApplyUpsert(o, c) ==
  LET left == IF c.prev = None THEN o ELSE RemoteVacates(o, c.prev)
      freed == IF c.replaced = None THEN left ELSE RemoteDrops(left, c.replaced, c.name)
  IN [freed EXCEPT !.remoteTombs = @ \ {c.name}, !.remoteDeleted = @ \ {c.key},
        !.remote[c.key] = c.name, !.remoteName[c.name] = c.key]

ApplyChange(o, c) ==
  IF c.op = "delete" THEN RemoteDrops(o, c.key, c.name) ELSE ApplyUpsert(o, c)

ChangeNames == {change.name, change.prev} \ {None}

Validate(matches, next) ==
  /\ IF matches
     THEN change' = [change EXCEPT !.pc = next] /\ UNCHANGED refused
     ELSE change' = NoChange /\ refused' = refused \cup ChangeNames
  /\ UNCHANGED <<table, backend, overlay, store, local, mount, mounts, lost>>

LookupTarget ==
  /\ change.pc = "lookup"
  /\ Validate(TargetMatches(overlay, backend, change),
              IF change.prev = None THEN "apply" ELSE "previous")

LookupPrevious ==
  /\ change.pc = "previous"
  /\ Validate(PreviousMatches(overlay, backend, change), "apply")

Apply ==
  /\ change.pc = "apply"
  /\ change' = NoChange
  /\ IF Fits(overlay, change)
     THEN overlay' = ApplyChange(overlay, change) /\ UNCHANGED refused
     ELSE refused' = refused \cup ChangeNames /\ UNCHANGED overlay
  /\ UNCHANGED <<table, backend, store, local, mount, mounts, lost>>

-----------------------------------------------------------------------------
(* A new mount, at any moment.  Every remote item has its inode record in  *)
(* the table, because the backend lists it; the store returns the creates  *)
(* whose file is still there; remote entries are passed for what no local  *)
(* mutation is about, or not at all.                                       *)

PassedEntries == {k \in KeysOf(tree) : Untouched(k) /\ SameEntry(NameOf(tree, k))}

RestoreNamespace ==
  [NoOverlay EXCEPT
     !.ns = [k \in Keys |-> IF k \in items THEN NameOf(entry, k) ELSE None],
     !.nsName = [n \in Names |-> IF entry[n] \in items THEN entry[n] ELSE None],
     !.tombs = {n \in Names : tombs[n] # NoTomb},
     !.deleted = {tombs[n].key : n \in {m \in Names : tombs[m].deletes}}]

RestoreRemote(o, passed) ==
  [o EXCEPT !.remote = [k \in Keys |-> IF k \in passed THEN NameOf(tree, k) ELSE None],
            !.remoteName = [n \in Names |-> IF tree[n] \in passed THEN tree[n] ELSE None]]

RestoreCreated(o) ==
  [o EXCEPT !.created = creates, !.createdKeys = creates,
            !.createdName = [n \in Names |-> IF entry[n] \in creates THEN entry[n] ELSE None]]

Remount ==
  /\ Mounted /\ mounts < MaxMounts
  /\ mounts' = mounts + 1
  /\ backend' = tree /\ table' = KeysOf(tree)
  /\ IF \A k \in items :
          UniqueNamespaceItem(NoOverlay, KeysOf(tree), k, NameOf(entry, k), FALSE)
     THEN /\ \E passed \in {{}, PassedEntries} :
               overlay' = RestoreCreated(RestoreRemote(RestoreNamespace, passed))
          /\ mount' = "up"
     ELSE mount' = "failed" /\ overlay' = NoOverlay
  /\ local' = NoLocal /\ change' = NoChange /\ refused' = {}
  /\ UNCHANGED <<store, lost>>

-----------------------------------------------------------------------------
Next ==
  \/ \E k \in Files \cup Dirs, n \in Names : Create(k, n)
  \/ \E op \in {"rename", "remove"}, n \in Names, m \in Names \cup {None} :
       LookupSource(op, n, m)
  \/ LookupDestination \/ StoreCommits \/ StoreRefuses \/ AnswerLost \/ Accept
  \/ \E k \in Base \cup Arrivals, n \in Names : CommitUpsert(k, n)
  \/ \E n \in Names : CommitDelete(n)
  \/ LookupTarget \/ LookupPrevious \/ Apply
  \/ Remount

Spec == Init /\ [][Next]_vars

-----------------------------------------------------------------------------
(* Properties.                                                             *)

(* Names that no operation between its commit and the overlay is about.    *)
Unsettled ==
  refused \cup (IF local.pc = "accept" THEN LocalNames ELSE {})
          \cup (IF change.pc # "none" THEN ChangeNames ELSE {})

(* A name no operation under way or refused is about shows what the store  *)
(* committed: its entry resolves to its item, under whatever earlier       *)
(* entries, tombstones and remote changes the name and the item have been  *)
(* through, is listed, and its attributes can be read.                     *)
ShownAsCommitted ==
  Mounted => \A n \in Names \ Unsettled :
    entry[n] # None =>
      /\ Shown(n) = entry[n] /\ HasAttributes(entry[n])
      /\ n \in OpenDirectory(overlay, backend)

(* The overlay refuses a committed local operation only if it is a rename  *)
(* onto a local item, or an earlier refusal is about its name.             *)
OnlyReplacementsAreRefused ==
  Mounted /\ local.pc = "accept" /\ ~Acceptable =>
    \/ local.to \in refused
    \/ /\ local.op = "rename" /\ local.dest # None
       /\ IndexedAt(overlay, local.to) = local.dest

(* Only the pending rename of an item of the remote side fails a mount.    *)
OnlyRenamesFail ==
  mount = "failed" => \E k \in items : k \in table \cap (Base \cup Arrivals)

(* A committed entry is shown wherever the overlay took every operation    *)
(* about its name and the mount came up (lookup, open_directory, getattr); *)
(* both fail in one case each (ensure_namespace_item_is_unique):           *)
(* RefusedIsRestored is about what is hidden then.                         *)
NothingIsHidden ==
  /\ ShownAsCommitted
  /\ OnlyReplacementsAreRefused
  /\ OnlyRenamesFail

(* What the overlay refuses "while preserving stable identity", the next   *)
(* mount shows ("restores durable local directory creates, renames, and    *)
(* tombstones for a newer mount").                                         *)
RefusedIsRestored ==
  [][mounts' > mounts =>
       \A n \in refused : entry[n] # None => mount' = "up" /\ Shown(n)' = entry[n]]_vars

(* remove "hides the durable tombstone from new lookups".                  *)
RemovedIsHidden ==
  Mounted => \A n \in Names \ Unsettled : entry[n] = None => Shown(n) = None
=============================================================================
