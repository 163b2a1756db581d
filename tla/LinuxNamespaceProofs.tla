------------------------ MODULE LinuxNamespaceProofs ------------------------
(***************************************************************************)
(* The namespace of a writable Linux mount, for every set of names and     *)
(* items, any number of mounts and of lost answers: what the store has     *)
(* committed is what the mount shows, but for what the overlay refuses.    *)
(***************************************************************************)
EXTENDS LinuxNamespace, FiniteSetTheorems, TLAPS

(* Local and remote items, and files and directories, are told apart by    *)
(* their stable keys, and no name and no item stands for nothing.          *)
KeysAreDistinct ==
  /\ (Base \cup Arrivals) \cap (Files \cup Dirs) = {} /\ Files \cap Dirs = {}
  /\ None \notin Keys /\ None \notin Names
  /\ IsFiniteSet(Names)

RemoteKeys == Base \cup Arrivals

-----------------------------------------------------------------------------
(* Types.                                                                  *)

MaybeKeys == Keys \cup {None}
MaybeNames == Names \cup {None}

Overlays ==
  [ns : [Keys -> MaybeNames], nsName : [Names -> MaybeKeys],
   created : SUBSET Keys, createdKeys : SUBSET Keys, createdName : [Names -> MaybeKeys],
   remote : [Keys -> MaybeNames], remoteName : [Names -> MaybeKeys],
   remoteTombs : SUBSET Names, remoteDeleted : SUBSET Keys, tombs : SUBSET Names,
   deleted : SUBSET Keys]

Listings == [Names -> RemoteKeys \cup {None}]

StoreTypes ==
  /\ entry \in [Names -> MaybeKeys] /\ tree \in Listings
  /\ creates \subseteq Files /\ items \subseteq Keys /\ used \subseteq Files \cup Dirs
  /\ tombs \in [Names -> [key : MaybeKeys, deletes : BOOLEAN]]

MountTypes ==
  /\ overlay \in Overlays /\ backend \in Listings /\ table \subseteq Keys
  /\ refused \subseteq Names /\ mount \in {"up", "failed"}

(* An operation under way has the names its kind has.                      *)
LocalTypes ==
  \/ local = NoLocal
  \/ /\ Mounted
     /\ local \in [pc : {"dest", "store", "accept"}, op : {"create", "rename", "remove"},
                   key : Keys, from : MaybeNames, to : MaybeNames, dest : MaybeKeys]
     /\ local.op = "create" =>
          /\ local.pc = "accept" /\ local.from = None /\ local.to \in Names
          /\ local.key \in Files \cup Dirs
     /\ local.op = "rename" => local.from \in Names /\ local.to \in Names \ {local.from}
     /\ local.op = "remove" => local.from \in Names /\ local.to = None /\ local.pc # "dest"

ChangeTypes ==
  \/ change = NoChange
  \/ /\ Mounted
     /\ change \in [pc : {"lookup", "previous", "apply"}, op : {"upsert", "delete"},
                    key : RemoteKeys, name : Names, prev : MaybeNames,
                    replaced : RemoteKeys \cup {None}]
     /\ change.replaced # change.key /\ change.prev # change.name

Types == StoreTypes /\ MountTypes /\ LocalTypes /\ ChangeTypes

-----------------------------------------------------------------------------
(* What the steps make of an overlay, by the fields a lookup reads.        *)

(* The parts of an overlay that remote changes alone touch, and those that *)
(* local operations alone touch; both lift tombstones.                     *)
SameRemote(o, q) ==
  /\ q.remote = o.remote /\ q.remoteName = o.remoteName /\ q.remoteDeleted = o.remoteDeleted
  /\ q.remoteTombs \subseteq o.remoteTombs

SameLocal(o, q) ==
  /\ q.ns = o.ns /\ q.nsName = o.nsName /\ q.created = o.created
  /\ q.createdKeys = o.createdKeys
  /\ q.createdName = o.createdName /\ q.deleted = o.deleted /\ q.tombs = o.tombs

(* accept_created_file indexes the file under its name only.               *)
LEMMA CreatedFileFacts ==
  ASSUME NEW o \in Overlays, NEW k \in Keys, NEW n \in Names,
         NEW q, q = AcceptCreatedFile(o, k, n)
  PROVE  /\ q \in Overlays /\ SameRemote(o, q)
         /\ q.ns = o.ns /\ q.nsName = o.nsName /\ q.deleted = o.deleted
         /\ q.tombs \subseteq o.tombs /\ q.created = o.created \cup {k}
         /\ q.createdName[n] = k
         /\ \A m \in Names \ {n} : q.createdName[m] = o.createdName[m]
<1>1. q \in Overlays
  BY Zenon DEF AcceptCreatedFile, Overlays, MaybeKeys
<1>2. /\ q.createdName = [o.createdName EXCEPT ![n] = k]
      /\ q.tombs = o.tombs \ {n} /\ q.remoteTombs = o.remoteTombs \ {n}
      /\ q.created = o.created \cup {k}
      /\ q.ns = o.ns /\ q.nsName = o.nsName /\ q.deleted = o.deleted
  BY Zenon DEF AcceptCreatedFile, Overlays
<1>3. q.remote = o.remote /\ q.remoteName = o.remoteName /\ q.remoteDeleted = o.remoteDeleted
  BY Zenon DEF AcceptCreatedFile, Overlays
<1> QED
  BY <1>1, <1>2, <1>3 DEF Overlays, SameRemote

(* A created directory goes to the namespace index.                        *)
LEMMA NamespaceCreateFacts ==
  ASSUME NEW o \in Overlays, NEW k \in Keys, NEW n \in Names,
         NEW q, q = AcceptNamespaceCreate(o, k, n)
  PROVE  /\ q \in Overlays /\ SameRemote(o, q)
         /\ q.created = o.created /\ q.createdName = o.createdName
         /\ q.deleted = o.deleted /\ q.tombs \subseteq o.tombs
         /\ q.ns[k] = n /\ \A l \in Keys \ {k} : q.ns[l] = o.ns[l]
         /\ q.nsName[n] = k /\ \A m \in Names \ {n} : q.nsName[m] = o.nsName[m]
<1>1. q \in Overlays
  BY Zenon DEF AcceptNamespaceCreate, Overlays, MaybeKeys, MaybeNames
<1>2. /\ q.ns = [o.ns EXCEPT ![k] = n] /\ q.nsName = [o.nsName EXCEPT ![n] = k]
      /\ q.tombs = o.tombs \ {n} /\ q.remoteTombs = o.remoteTombs \ {n}
      /\ q.created = o.created /\ q.createdName = o.createdName /\ q.deleted = o.deleted
  BY Zenon DEF AcceptNamespaceCreate, Overlays
<1>3. q.remote = o.remote /\ q.remoteName = o.remoteName /\ q.remoteDeleted = o.remoteDeleted
  BY Zenon DEF AcceptNamespaceCreate, Overlays
<1> QED
  BY <1>1, <1>2, <1>3 DEF Overlays, SameRemote

(* A local operation gives names and items to each other, and forgets some. *)
Updated(o, ns, nsName, createdName, deleted, names) ==
  [o EXCEPT !.ns = ns, !.nsName = nsName, !.createdName = createdName,
            !.deleted = deleted, !.tombs = names]

(* What a local operation sets is set, and the remote index stays.         *)
LEMMA UpdatedFacts ==
  ASSUME NEW o \in Overlays, NEW ns \in [Keys -> MaybeNames],
         NEW nsName \in [Names -> MaybeKeys], NEW createdName \in [Names -> MaybeKeys],
         NEW deleted \in SUBSET Keys, NEW names \in SUBSET Names,
         NEW q, q = Updated(o, ns, nsName, createdName, deleted, names)
  PROVE  /\ q \in Overlays
         /\ q.ns = ns /\ q.nsName = nsName /\ q.createdName = createdName
         /\ q.deleted = deleted /\ q.tombs = names
         /\ q.created = o.created /\ q.createdKeys = o.createdKeys
         /\ q.remoteTombs = o.remoteTombs /\ SameRemote(o, q)
<1>1. q \in Overlays
  BY Zenon DEF Overlays, Updated
<1>2. /\ q.ns = ns /\ q.nsName = nsName /\ q.createdName = createdName
      /\ q.deleted = deleted /\ q.tombs = names
      /\ q.created = o.created /\ q.createdKeys = o.createdKeys
  BY Zenon DEF Overlays, Updated
<1>3. /\ q.remote = o.remote /\ q.remoteName = o.remoteName
      /\ q.remoteDeleted = o.remoteDeleted /\ q.remoteTombs = o.remoteTombs
  BY Zenon DEF Overlays, Updated
<1> QED
  BY <1>1, <1>2, <1>3 DEF SameRemote

(* accept_remove clears the source and hides the item.                     *)
LEMMA RemoveFacts ==
  ASSUME NEW o \in Overlays, NEW r, r.key \in Keys, r.from \in Names,
         NEW q, q = AcceptRemove(o, r)
  PROVE  /\ q \in Overlays /\ SameRemote(o, q)
         /\ q.created = o.created /\ q.deleted = o.deleted \cup {r.key}
         /\ q.tombs = o.tombs \cup {r.from}
         /\ \A l \in Keys \ {r.key} : q.ns[l] = o.ns[l]
         /\ q.nsName[r.from] = None /\ q.createdName[r.from] = None
         /\ \A m \in Names \ {r.from} :
              q.nsName[m] = o.nsName[m] /\ q.createdName[m] = o.createdName[m]
<1> PICK ns, nsName, createdName, deleted, names :
      /\ ns = [o.ns EXCEPT ![r.key] = None] /\ nsName = [o.nsName EXCEPT ![r.from] = None]
      /\ createdName = [o.createdName EXCEPT ![r.from] = None]
      /\ deleted = o.deleted \cup {r.key} /\ names = o.tombs \cup {r.from}
  OBVIOUS
<1>1. q = Updated(o, ns, nsName, createdName, deleted, names)
  BY Zenon DEF AcceptRemove, Updated
<1>2. /\ o.ns \in [Keys -> MaybeNames] /\ o.nsName \in [Names -> MaybeKeys]
      /\ o.createdName \in [Names -> MaybeKeys]
      /\ o.deleted \in SUBSET Keys /\ o.tombs \in SUBSET Names
  BY DEF Overlays
<1>3. /\ ns \in [Keys -> MaybeNames] /\ nsName \in [Names -> MaybeKeys]
      /\ createdName \in [Names -> MaybeKeys]
      /\ deleted \in SUBSET Keys /\ names \in SUBSET Names
  BY <1>2 DEF MaybeKeys, MaybeNames
<1>4. /\ q \in Overlays /\ SameRemote(o, q)
      /\ q.ns = ns /\ q.nsName = nsName /\ q.createdName = createdName
      /\ q.deleted = deleted /\ q.tombs = names /\ q.created = o.created
  BY <1>1, <1>3, UpdatedFacts
<1> QED
  BY <1>2, <1>4

(* A rename leaves its source; drops what its destination had; and takes   *)
(* the destination.                                                        *)
Leaving(o, nsName, createdName, names) ==
  [o EXCEPT !.nsName = nsName, !.createdName = createdName, !.tombs = names]

Dropping(o, ns, createdKeys, createdName, deleted, names) ==
  [o EXCEPT !.ns = ns, !.createdKeys = createdKeys, !.createdName = createdName,
            !.deleted = deleted, !.tombs = names]

Taking(o, deleted, names, remoteTombs, ns, nsName, createdName) ==
  [o EXCEPT !.deleted = deleted, !.tombs = names, !.remoteTombs = remoteTombs,
            !.ns = ns, !.nsName = nsName, !.createdName = createdName]

(* The source of a rename.                                                 *)
LEMMA LeavingFacts ==
  ASSUME NEW o \in Overlays, NEW nsName \in [Names -> MaybeKeys],
         NEW createdName \in [Names -> MaybeKeys], NEW names \in SUBSET Names,
         NEW q, q = Leaving(o, nsName, createdName, names)
  PROVE  /\ q \in Overlays /\ SameRemote(o, q)
         /\ q.nsName = nsName /\ q.createdName = createdName /\ q.tombs = names
         /\ q.ns = o.ns /\ q.created = o.created /\ q.deleted = o.deleted
<1>1. q \in Overlays
  BY Zenon DEF Overlays, Leaving
<1>2. /\ q.nsName = nsName /\ q.createdName = createdName /\ q.tombs = names
      /\ q.ns = o.ns /\ q.created = o.created /\ q.deleted = o.deleted
  BY Zenon DEF Overlays, Leaving
<1>3. /\ q.remote = o.remote /\ q.remoteName = o.remoteName
      /\ q.remoteDeleted = o.remoteDeleted /\ q.remoteTombs = o.remoteTombs
  BY Zenon DEF Overlays, Leaving
<1> QED
  BY <1>1, <1>2, <1>3 DEF SameRemote

(* The item that a rename replaces.                                        *)
LEMMA DroppingFacts ==
  ASSUME NEW o \in Overlays, NEW ns \in [Keys -> MaybeNames],
         NEW createdKeys \in SUBSET Keys, NEW createdName \in [Names -> MaybeKeys],
         NEW deleted \in SUBSET Keys, NEW names \in SUBSET Names,
         NEW q, q = Dropping(o, ns, createdKeys, createdName, deleted, names)
  PROVE  /\ q \in Overlays /\ SameRemote(o, q)
         /\ q.ns = ns /\ q.createdName = createdName /\ q.deleted = deleted
         /\ q.tombs = names /\ q.nsName = o.nsName /\ q.created = o.created
<1>1. q \in Overlays
  BY Zenon DEF Overlays, Dropping
<1>2. /\ q.ns = ns /\ q.createdName = createdName /\ q.deleted = deleted
      /\ q.tombs = names /\ q.nsName = o.nsName /\ q.created = o.created
  BY Zenon DEF Overlays, Dropping
<1>3. /\ q.remote = o.remote /\ q.remoteName = o.remoteName
      /\ q.remoteDeleted = o.remoteDeleted /\ q.remoteTombs = o.remoteTombs
  BY Zenon DEF Overlays, Dropping
<1> QED
  BY <1>1, <1>2, <1>3 DEF SameRemote

(* The destination of a rename.                                            *)
LEMMA TakingFacts ==
  ASSUME NEW o \in Overlays, NEW deleted \in SUBSET Keys, NEW names \in SUBSET Names,
         NEW remoteTombs \in SUBSET o.remoteTombs, NEW ns \in [Keys -> MaybeNames],
         NEW nsName \in [Names -> MaybeKeys], NEW createdName \in [Names -> MaybeKeys],
         NEW q, q = Taking(o, deleted, names, remoteTombs, ns, nsName, createdName)
  PROVE  /\ q \in Overlays /\ SameRemote(o, q)
         /\ q.ns = ns /\ q.nsName = nsName /\ q.createdName = createdName
         /\ q.deleted = deleted /\ q.tombs = names /\ q.created = o.created
<1>1. o.remoteTombs \subseteq Names
  BY DEF Overlays
<1>2. remoteTombs \in SUBSET Names
  BY <1>1
<1>3. q \in Overlays
  BY <1>2, Zenon DEF Overlays, Taking
<1>4. /\ q.ns = ns /\ q.nsName = nsName /\ q.createdName = createdName
      /\ q.deleted = deleted /\ q.tombs = names /\ q.created = o.created
  BY Zenon DEF Overlays, Taking
<1>5. /\ q.remote = o.remote /\ q.remoteName = o.remoteName
      /\ q.remoteDeleted = o.remoteDeleted /\ q.remoteTombs = remoteTombs
  BY Zenon DEF Overlays, Taking
<1> QED
  BY <1>3, <1>4, <1>5 DEF SameRemote

Left(o, n) ==
  [o EXCEPT !.nsName[n] = None, !.createdName[n] = None, !.tombs = @ \cup {n}]

(* Leaving changes nothing about other names.                              *)
LEMMA LeftFacts ==
  ASSUME NEW o \in Overlays, NEW n \in Names, NEW q, q = Left(o, n)
  PROVE  /\ q \in Overlays /\ SameRemote(o, q)
         /\ q.ns = o.ns /\ q.created = o.created /\ q.deleted = o.deleted
         /\ q.tombs = o.tombs \cup {n}
         /\ q.nsName[n] = None /\ q.createdName[n] = None
         /\ \A m \in Names \ {n} :
              q.nsName[m] = o.nsName[m] /\ q.createdName[m] = o.createdName[m]
<1> PICK nsName, createdName, names :
      /\ nsName = [o.nsName EXCEPT ![n] = None]
      /\ createdName = [o.createdName EXCEPT ![n] = None] /\ names = o.tombs \cup {n}
  OBVIOUS
<1>1. q = Leaving(o, nsName, createdName, names)
  BY Zenon DEF Leaving, Left
<1>2. /\ o.nsName \in [Names -> MaybeKeys] /\ o.createdName \in [Names -> MaybeKeys]
      /\ o.tombs \in SUBSET Names
  BY DEF Overlays
<1>3. /\ nsName \in [Names -> MaybeKeys] /\ createdName \in [Names -> MaybeKeys]
      /\ names \in SUBSET Names
  BY <1>2 DEF MaybeKeys
<1>4. /\ q \in Overlays /\ SameRemote(o, q)
      /\ q.nsName = nsName /\ q.createdName = createdName /\ q.tombs = names
      /\ q.ns = o.ns /\ q.created = o.created /\ q.deleted = o.deleted
  BY <1>1, <1>3, LeavingFacts
<1> QED
  BY <1>2, <1>4

(* The overlay o without the item d that the name n had.                   *)
IsWithout(q, o, d, n) ==
  /\ q \in Overlays /\ SameRemote(o, q)
  /\ q.nsName = o.nsName /\ q.created = o.created
  /\ q.deleted = o.deleted \cup ({d} \ {None})
  /\ q.tombs \subseteq o.tombs \cup {n}
  /\ \A l \in Keys \ {d} : q.ns[l] = o.ns[l]
  /\ \A m \in Names \ {n} : q.createdName[m] = o.createdName[m]

(* Dropping the replaced item changes nothing about other items.           *)
LEMMA DroppedFacts ==
  ASSUME NEW o \in Overlays, NEW known, NEW d \in MaybeKeys, NEW n \in Names,
         None \notin Keys
  PROVE  IsWithout(DropReplaced(o, known, d, n), o, d, n)
<1>. PICK q : q = DropReplaced(o, known, d, n)
  OBVIOUS
<1>1. CASE d = None
  BY <1>1, Zenon DEF DropReplaced, SameRemote, IsWithout
<1>2. CASE d # None
  <2> DEFINE inNs == o.ns[d] # None
             inCreated == ~inNs /\ d \in o.createdKeys
             isKnown == inNs \/ inCreated \/ d \in known
  <2> PICK ns, createdKeys, createdName, deleted, names :
        /\ ns = [o.ns EXCEPT ![d] = None]
        /\ createdKeys = IF inCreated THEN o.createdKeys \ {d} ELSE o.createdKeys
        /\ createdName = [o.createdName EXCEPT ![n] = IF isKnown THEN None ELSE @]
        /\ deleted = o.deleted \cup {d} /\ names = o.tombs \cup {n}
    OBVIOUS
  <2>1. q = Dropping(o, ns, createdKeys, createdName, deleted, names)
    BY <1>2, Zenon DEF Dropping, DropReplaced
  <2>2. /\ o.ns \in [Keys -> MaybeNames] /\ o.createdKeys \in SUBSET Keys
        /\ o.createdName \in [Names -> MaybeKeys]
        /\ o.deleted \in SUBSET Keys /\ o.tombs \in SUBSET Names
    BY DEF Overlays
  <2>3. d \in Keys
    BY <1>2 DEF MaybeKeys
  <2>4. /\ ns \in [Keys -> MaybeNames] /\ createdKeys \in SUBSET Keys
        /\ createdName \in [Names -> MaybeKeys]
        /\ deleted \in SUBSET Keys /\ names \in SUBSET Names
    BY <2>2, <2>3 DEF MaybeKeys, MaybeNames
  <2>5. /\ q \in Overlays /\ SameRemote(o, q)
        /\ q.ns = ns /\ q.createdName = createdName /\ q.deleted = deleted
        /\ q.tombs = names /\ q.nsName = o.nsName /\ q.created = o.created
    BY <2>1, <2>4, DroppingFacts
  <2>6. /\ \A l \in Keys \ {d} : ns[l] = o.ns[l]
        /\ \A m \in Names \ {n} : createdName[m] = o.createdName[m]
    BY <2>2, <2>3
  <2> QED
    BY <1>2, <2>5, <2>6 DEF IsWithout
<1> QED
  BY <1>1, <1>2

Arrived(o, r) ==
  [o EXCEPT
     !.deleted = @ \ {r.key}, !.tombs = @ \ {r.to}, !.remoteTombs = @ \ {r.to},
     !.ns[r.key] = r.to, !.nsName[r.to] = r.key,
     !.createdName[r.to] = IF r.key \in o.createdKeys THEN r.key ELSE @]

(* accept_rename as a whole: the item is found at its destination only,    *)
(* and what is between other names and items stays.                        *)
LEMMA RenameFacts ==
  ASSUME NEW o \in Overlays, NEW known, NEW r, r.key \in Keys, r.from \in Names,
         r.to \in Names, r.from # r.to, r.dest \in MaybeKeys, None \notin Keys,
         NEW q, q = AcceptRename(o, known, r)
  PROVE  /\ q \in Overlays /\ SameRemote(o, q) /\ q.created = o.created
         /\ q.deleted \subseteq o.deleted \cup ({r.dest} \ {None})
         /\ q.tombs \subseteq o.tombs \cup {r.from}
         /\ q.ns[r.key] = r.to
         /\ \A l \in Keys \ {r.key, r.dest} : q.ns[l] = o.ns[l]
         /\ q.nsName[r.from] = None /\ q.createdName[r.from] = None
         /\ q.nsName[r.to] = r.key
         /\ \A m \in Names \ {r.from, r.to} :
              q.nsName[m] = o.nsName[m] /\ q.createdName[m] = o.createdName[m]
<1>1. PICK left, freed :
        left = Left(o, r.from) /\ freed = DropReplaced(left, known, r.dest, r.to)
  OBVIOUS
<1>2. /\ left \in Overlays /\ SameRemote(o, left)
      /\ left.ns = o.ns /\ left.created = o.created /\ left.deleted = o.deleted
      /\ left.tombs = o.tombs \cup {r.from}
      /\ left.nsName[r.from] = None /\ left.createdName[r.from] = None
      /\ \A m \in Names \ {r.from} :
           left.nsName[m] = o.nsName[m] /\ left.createdName[m] = o.createdName[m]
  BY ONLY <1>1, o \in Overlays, r.from \in Names, LeftFacts
<1>3. /\ freed \in Overlays /\ SameRemote(left, freed)
      /\ freed.nsName = left.nsName /\ freed.created = left.created
      /\ freed.deleted = left.deleted \cup ({r.dest} \ {None})
      /\ freed.tombs \subseteq left.tombs \cup {r.to}
      /\ \A l \in Keys \ {r.dest} : freed.ns[l] = left.ns[l]
      /\ \A m \in Names \ {r.to} : freed.createdName[m] = left.createdName[m]
  <2>1. freed = DropReplaced(left, known, r.dest, r.to) /\ left \in Overlays
    BY <1>1, <1>2
  <2>2. IsWithout(freed, left, r.dest, r.to)
    BY <2>1, DroppedFacts
  <2> QED
    BY ONLY <2>2 DEF IsWithout
<1>4. /\ freed.ns \in [Keys -> MaybeNames] /\ freed.nsName \in [Names -> MaybeKeys]
      /\ freed.createdName \in [Names -> MaybeKeys]
      /\ freed.deleted \in SUBSET Keys /\ freed.tombs \in SUBSET Names
  BY <1>3 DEF Overlays
<1>5. PICK deleted, names, remoteTombs, ns, nsName, createdName :
        /\ deleted = freed.deleted \ {r.key} /\ names = freed.tombs \ {r.to}
        /\ remoteTombs = freed.remoteTombs \ {r.to}
        /\ ns = [freed.ns EXCEPT ![r.key] = r.to]
        /\ nsName = [freed.nsName EXCEPT ![r.to] = r.key]
        /\ createdName = [freed.createdName EXCEPT
                            ![r.to] = IF r.key \in freed.createdKeys THEN r.key ELSE @]
  OBVIOUS
<1>6. /\ deleted \in SUBSET Keys /\ names \in SUBSET Names
      /\ remoteTombs \in SUBSET freed.remoteTombs /\ ns \in [Keys -> MaybeNames]
      /\ nsName \in [Names -> MaybeKeys] /\ createdName \in [Names -> MaybeKeys]
  BY <1>4, <1>5 DEF MaybeKeys, MaybeNames
<1>7. q = Taking(freed, deleted, names, remoteTombs, ns, nsName, createdName)
  <2>1. q = Arrived(freed, r)
    BY ONLY <1>1, q = AcceptRename(o, known, r) DEF Arrived, AcceptRename, Left
  <2>2. Arrived(freed, r) = Taking(freed, deleted, names, remoteTombs, ns, nsName, createdName)
    BY <1>5, Zenon DEF Arrived, Taking
  <2> QED
    BY <2>1, <2>2
<1>8. /\ q \in Overlays /\ SameRemote(freed, q)
      /\ q.ns = ns /\ q.nsName = nsName /\ q.createdName = createdName
      /\ q.deleted = deleted /\ q.tombs = names /\ q.created = freed.created
  BY ONLY <1>7, <1>3, <1>6, TakingFacts
<1>9. SameRemote(o, q)
  BY <1>2, <1>3, <1>8 DEF SameRemote
<1>10. /\ ns[r.key] = r.to /\ \A l \in Keys \ {r.key} : ns[l] = freed.ns[l]
       /\ nsName[r.to] = r.key /\ \A m \in Names \ {r.to} : nsName[m] = freed.nsName[m]
       /\ \A m \in Names \ {r.to} : createdName[m] = freed.createdName[m]
  BY <1>4, <1>5
<1> QED
  BY <1>2, <1>3, <1>8, <1>9, <1>10, <1>5

(* A remote change vacates the names it takes an item from, forgets the    *)
(* item that goes, and gives the name to the one that comes.               *)
Vacating(o, remoteName, remoteTombs) ==
  [o EXCEPT !.remoteName = remoteName, !.remoteTombs = remoteTombs]

Forgetting(o, remote, remoteDeleted) ==
  [o EXCEPT !.remote = remote, !.remoteDeleted = remoteDeleted]

Giving(o, remoteTombs, remoteDeleted, remote, remoteName) ==
  [o EXCEPT !.remoteTombs = remoteTombs, !.remoteDeleted = remoteDeleted,
            !.remote = remote, !.remoteName = remoteName]

(* A name that a remote item leaves.                                       *)
LEMMA VacatingFacts ==
  ASSUME NEW o \in Overlays, NEW remoteName \in [Names -> MaybeKeys],
         NEW remoteTombs \in SUBSET Names,
         NEW q, q = Vacating(o, remoteName, remoteTombs)
  PROVE  /\ q \in Overlays /\ SameLocal(o, q)
         /\ q.remoteName = remoteName /\ q.remoteTombs = remoteTombs
         /\ q.remote = o.remote /\ q.remoteDeleted = o.remoteDeleted
<1>1. q \in Overlays
  BY Zenon DEF Overlays, Vacating
<1>2. /\ q.remoteName = remoteName /\ q.remoteTombs = remoteTombs
      /\ q.remote = o.remote /\ q.remoteDeleted = o.remoteDeleted
  BY Zenon DEF Overlays, Vacating
<1>3. /\ q.ns = o.ns /\ q.nsName = o.nsName /\ q.created = o.created
      /\ q.createdKeys = o.createdKeys
      /\ q.createdName = o.createdName /\ q.deleted = o.deleted /\ q.tombs = o.tombs
  BY Zenon DEF Overlays, Vacating
<1> QED
  BY <1>1, <1>2, <1>3 DEF SameLocal

(* A remote item that is gone.                                             *)
LEMMA ForgettingFacts ==
  ASSUME NEW o \in Overlays, NEW remote \in [Keys -> MaybeNames],
         NEW remoteDeleted \in SUBSET Keys,
         NEW q, q = Forgetting(o, remote, remoteDeleted)
  PROVE  /\ q \in Overlays /\ SameLocal(o, q)
         /\ q.remoteName = o.remoteName /\ q.remoteTombs = o.remoteTombs
         /\ q.remote = remote /\ q.remoteDeleted = remoteDeleted
<1>1. q \in Overlays
  BY Zenon DEF Overlays, Forgetting
<1>2. /\ q.remoteName = o.remoteName /\ q.remoteTombs = o.remoteTombs
      /\ q.remote = remote /\ q.remoteDeleted = remoteDeleted
  BY Zenon DEF Overlays, Forgetting
<1>3. /\ q.ns = o.ns /\ q.nsName = o.nsName /\ q.created = o.created
      /\ q.createdKeys = o.createdKeys
      /\ q.createdName = o.createdName /\ q.deleted = o.deleted /\ q.tombs = o.tombs
  BY Zenon DEF Overlays, Forgetting
<1> QED
  BY <1>1, <1>2, <1>3 DEF SameLocal

(* A remote item that gets a name.                                         *)
LEMMA GivingFacts ==
  ASSUME NEW o \in Overlays, NEW remoteTombs \in SUBSET Names,
         NEW remoteDeleted \in SUBSET Keys, NEW remote \in [Keys -> MaybeNames],
         NEW remoteName \in [Names -> MaybeKeys],
         NEW q, q = Giving(o, remoteTombs, remoteDeleted, remote, remoteName)
  PROVE  /\ q \in Overlays /\ SameLocal(o, q)
         /\ q.remoteName = remoteName /\ q.remoteTombs = remoteTombs
         /\ q.remote = remote /\ q.remoteDeleted = remoteDeleted
<1>1. q \in Overlays
  BY Zenon DEF Overlays, Giving
<1>2. /\ q.remoteName = remoteName /\ q.remoteTombs = remoteTombs
      /\ q.remote = remote /\ q.remoteDeleted = remoteDeleted
  BY Zenon DEF Overlays, Giving
<1>3. /\ q.ns = o.ns /\ q.nsName = o.nsName /\ q.created = o.created
      /\ q.createdKeys = o.createdKeys
      /\ q.createdName = o.createdName /\ q.deleted = o.deleted /\ q.tombs = o.tombs
  BY Zenon DEF Overlays, Giving
<1> QED
  BY <1>1, <1>2, <1>3 DEF SameLocal

(* The overlay o after the name n was vacated.                             *)
IsVacated(q, o, n) ==
  /\ q \in Overlays /\ SameLocal(o, q)
  /\ q.remote = o.remote /\ q.remoteDeleted = o.remoteDeleted
  /\ q.remoteTombs = o.remoteTombs \cup {n}
  /\ \A m \in Names \ {n} : q.remoteName[m] = o.remoteName[m]

(* Vacating a name hides what the backend lists there.                     *)
LEMMA VacatedFacts ==
  ASSUME NEW o \in Overlays, NEW n \in Names
  PROVE  IsVacated(RemoteVacates(o, n), o, n)
<1>1. PICK q, remoteName, remoteTombs :
        /\ q = RemoteVacates(o, n)
        /\ remoteName = [o.remoteName EXCEPT ![n] = None]
        /\ remoteTombs = o.remoteTombs \cup {n}
  OBVIOUS
<1>2. q = Vacating(o, remoteName, remoteTombs)
  BY <1>1, Zenon DEF Vacating, RemoteVacates
<1>3. o.remoteName \in [Names -> MaybeKeys] /\ o.remoteTombs \in SUBSET Names
  BY DEF Overlays
<1>4. /\ remoteName \in [Names -> MaybeKeys] /\ remoteTombs \in SUBSET Names
      /\ \A m \in Names \ {n} : remoteName[m] = o.remoteName[m]
  BY <1>1, <1>3 DEF MaybeKeys
<1>5. /\ q \in Overlays /\ SameLocal(o, q)
      /\ q.remoteName = remoteName /\ q.remoteTombs = remoteTombs
      /\ q.remote = o.remote /\ q.remoteDeleted = o.remoteDeleted
  BY ONLY <1>2, <1>4, o \in Overlays, VacatingFacts
<1> QED
  BY <1>1, <1>4, <1>5 DEF IsVacated

(* And after the item k went from it.                                      *)
IsDropped(q, o, k, n) ==
  /\ q \in Overlays /\ SameLocal(o, q)
  /\ \A l \in Keys \ {k} : q.remote[l] = o.remote[l]
  /\ q.remoteDeleted = o.remoteDeleted \cup {k}
  /\ q.remoteTombs = o.remoteTombs \cup {n}
  /\ \A m \in Names \ {n} : q.remoteName[m] = o.remoteName[m]

(* A remote deletion forgets one item and vacates one name.                *)
LEMMA DropFacts ==
  ASSUME NEW o \in Overlays, NEW k \in Keys, NEW n \in Names
  PROVE  IsDropped(RemoteDrops(o, k, n), o, k, n)
<1>1. PICK p : p = RemoteVacates(o, n)
  OBVIOUS
<1>2. IsVacated(p, o, n)
  BY <1>1, VacatedFacts
<1>3. PICK q, remote, remoteDeleted :
        /\ q = RemoteDrops(o, k, n)
        /\ remote = [p.remote EXCEPT ![k] = None]
        /\ remoteDeleted = p.remoteDeleted \cup {k}
  OBVIOUS
<1>4. q = Forgetting(p, remote, remoteDeleted)
  BY <1>1, <1>3, Zenon DEF Forgetting, RemoteDrops
<1>5. p \in Overlays /\ p.remote \in [Keys -> MaybeNames] /\ p.remoteDeleted \in SUBSET Keys
  BY <1>2 DEF Overlays, IsVacated
<1>6. /\ remote \in [Keys -> MaybeNames] /\ remoteDeleted \in SUBSET Keys
      /\ \A l \in Keys \ {k} : remote[l] = p.remote[l]
  BY <1>3, <1>5 DEF MaybeNames
<1>7. /\ q \in Overlays /\ SameLocal(p, q)
      /\ q.remoteName = p.remoteName /\ q.remoteTombs = p.remoteTombs
      /\ q.remote = remote /\ q.remoteDeleted = remoteDeleted
  BY ONLY <1>4, <1>5, <1>6, ForgettingFacts
<1> QED
  BY <1>2, <1>3, <1>6, <1>7 DEF IsVacated, IsDropped, SameLocal

(* The overlay o after the upsert c.                                       *)
Given(o, k, n) ==
  [o EXCEPT !.remoteTombs = @ \ {n}, !.remoteDeleted = @ \ {k},
            !.remote[k] = n, !.remoteName[n] = k]

IsUpserted(q, o, c) ==
  /\ q \in Overlays /\ SameLocal(o, q)
  /\ q.remoteName[c.name] = c.key /\ q.remote[c.key] = c.name
  /\ \A l \in Keys \ {c.key, c.replaced} : q.remote[l] = o.remote[l]
  /\ c.name \notin q.remoteTombs
  /\ \A m \in Names \ {c.name, c.prev} :
       q.remoteName[m] = o.remoteName[m] /\ (m \in q.remoteTombs => m \in o.remoteTombs)
  /\ q.remoteDeleted \subseteq (o.remoteDeleted \cup {c.replaced}) \ {c.key}

(* apply_remote_upsert as a whole: the item is found at its new name, and  *)
(* nothing else is hidden but what was replaced or left.                   *)
LEMMA UpsertFacts ==
  ASSUME NEW o \in Overlays, NEW c, c.key \in Keys, c.name \in Names, c.prev \in MaybeNames,
         c.replaced \in MaybeKeys, None \notin Keys, None \notin Names
  PROVE  IsUpserted(ApplyUpsert(o, c), o, c)
<1>1. PICK left : left = IF c.prev = None THEN o ELSE RemoteVacates(o, c.prev)
  OBVIOUS
<1>2. PICK freed : freed = IF c.replaced = None THEN left
                           ELSE RemoteDrops(left, c.replaced, c.name)
  OBVIOUS
<1>3. /\ left \in Overlays /\ SameLocal(o, left)
      /\ left.remote = o.remote /\ left.remoteDeleted = o.remoteDeleted
      /\ left.remoteTombs \subseteq o.remoteTombs \cup {c.prev}
      /\ \A m \in Names \ {c.prev} : left.remoteName[m] = o.remoteName[m]
  <2>1. CASE c.prev = None
    BY <1>1, <2>1 DEF SameLocal
  <2>2. CASE c.prev # None
    <3>1. c.prev \in Names /\ left = RemoteVacates(o, c.prev)
      BY <1>1, <2>2 DEF MaybeNames
    <3>2. IsVacated(left, o, c.prev)
      BY <3>1, VacatedFacts
    <3> QED
      BY ONLY <3>2 DEF IsVacated
  <2> QED
    BY <2>1, <2>2
<1>4. /\ freed \in Overlays /\ SameLocal(left, freed)
      /\ \A l \in Keys \ {c.replaced} : freed.remote[l] = left.remote[l]
      /\ freed.remoteDeleted \subseteq left.remoteDeleted \cup {c.replaced}
      /\ freed.remoteTombs \subseteq left.remoteTombs \cup {c.name}
      /\ \A m \in Names \ {c.name} : freed.remoteName[m] = left.remoteName[m]
  <2>1. CASE c.replaced = None
    BY <1>2, <1>3, <2>1 DEF SameLocal
  <2>2. CASE c.replaced # None
    <3>1. /\ c.replaced \in Keys /\ left \in Overlays
          /\ freed = RemoteDrops(left, c.replaced, c.name)
      BY <1>2, <1>3, <2>2 DEF MaybeKeys
    <3>2. IsDropped(freed, left, c.replaced, c.name)
      BY <3>1, DropFacts
    <3> QED
      BY ONLY <3>2 DEF IsDropped
  <2> QED
    BY <2>1, <2>2
<1>5. PICK q, remoteTombs, remoteDeleted, remote, remoteName :
        /\ q = ApplyUpsert(o, c)
        /\ remoteTombs = freed.remoteTombs \ {c.name}
        /\ remoteDeleted = freed.remoteDeleted \ {c.key}
        /\ remote = [freed.remote EXCEPT ![c.key] = c.name]
        /\ remoteName = [freed.remoteName EXCEPT ![c.name] = c.key]
  OBVIOUS
<1>6. q = Giving(freed, remoteTombs, remoteDeleted, remote, remoteName)
  <2>1. q = Given(freed, c.key, c.name)
    BY <1>1, <1>2, <1>5, Zenon DEF Given, ApplyUpsert
  <2>2. Given(freed, c.key, c.name)
          = Giving(freed, remoteTombs, remoteDeleted, remote, remoteName)
    BY <1>5, Zenon DEF Given, Giving
  <2> QED
    BY <2>1, <2>2
<1>7. /\ freed.remote \in [Keys -> MaybeNames] /\ freed.remoteName \in [Names -> MaybeKeys]
      /\ freed.remoteDeleted \in SUBSET Keys /\ freed.remoteTombs \in SUBSET Names
  BY <1>4 DEF Overlays
<1>8. /\ remote \in [Keys -> MaybeNames] /\ remoteName \in [Names -> MaybeKeys]
      /\ remoteDeleted \in SUBSET Keys /\ remoteTombs \in SUBSET Names
      /\ remote[c.key] = c.name /\ remoteName[c.name] = c.key
      /\ \A l \in Keys \ {c.key} : remote[l] = freed.remote[l]
      /\ \A m \in Names \ {c.name} : remoteName[m] = freed.remoteName[m]
  BY <1>5, <1>7 DEF MaybeNames, MaybeKeys
<1>9. /\ q \in Overlays /\ SameLocal(freed, q)
      /\ q.remoteName = remoteName /\ q.remoteTombs = remoteTombs
      /\ q.remote = remote /\ q.remoteDeleted = remoteDeleted
  <2>1. freed \in Overlays
    BY <1>4
  <2> QED
    BY ONLY <1>6, <1>8, <2>1, GivingFacts
<1>10. SameLocal(o, q)
  BY <1>3, <1>4, <1>9 DEF SameLocal
<1>11. /\ \A l \in Keys \ {c.key, c.replaced} : q.remote[l] = o.remote[l]
       /\ \A m \in Names \ {c.name, c.prev} :
            q.remoteName[m] = o.remoteName[m] /\ (m \in q.remoteTombs => m \in o.remoteTombs)
       /\ q.remoteDeleted \subseteq (o.remoteDeleted \cup {c.replaced}) \ {c.key}
       /\ c.name \notin q.remoteTombs
  BY <1>3, <1>4, <1>5, <1>8, <1>9
<1>12. IsUpserted(q, o, c)
  BY ONLY <1>8, <1>9, <1>10, <1>11 DEF IsUpserted
<1> QED
  BY <1>5, <1>12

-----------------------------------------------------------------------------
(* What a new mount restores.                                              *)

(* An item that has a name has it.                                         *)
LEMMA NameOfFacts ==
  ASSUME NEW f, NEW k \in KeysOf(f)
  PROVE  NameOf(f, k) \in Names /\ f[NameOf(f, k)] = k
BY DEF NameOf, KeysOf

Naming(o, ns, nsName, names, deleted) ==
  [o EXCEPT !.ns = ns, !.nsName = nsName, !.tombs = names, !.deleted = deleted]

Listing(o, remote, remoteName) == [o EXCEPT !.remote = remote, !.remoteName = remoteName]

Creating(o, created, createdName) ==
  [o EXCEPT !.created = created, !.createdKeys = created, !.createdName = createdName]

(* An empty overlay says nothing about any name.                           *)
LEMMA NoOverlayFacts ==
  /\ NoOverlay \in Overlays
  /\ NoOverlay.remoteTombs = {} /\ NoOverlay.remoteDeleted = {}
  /\ NoOverlay.tombs = {} /\ NoOverlay.deleted = {}
  /\ \A n \in Names : NoOverlay.nsName[n] = None /\ NoOverlay.createdName[n] = None
  /\ \A n \in Names : NoOverlay.remoteName[n] = None
BY DEF NoOverlay, Overlays, Empty, MaybeKeys, MaybeNames

(* What restore_namespace_overlay sets.                                    *)
LEMMA NamingFacts ==
  ASSUME NEW o \in Overlays, NEW ns \in [Keys -> MaybeNames],
         NEW nsName \in [Names -> MaybeKeys], NEW names \in SUBSET Names,
         NEW deleted \in SUBSET Keys, NEW q, q = Naming(o, ns, nsName, names, deleted)
  PROVE  /\ q \in Overlays
         /\ q.ns = ns /\ q.nsName = nsName /\ q.tombs = names /\ q.deleted = deleted
         /\ q.remoteTombs = o.remoteTombs /\ q.remoteDeleted = o.remoteDeleted
<1>1. q \in Overlays
  BY Zenon DEF Overlays, Naming
<1>2. /\ q.ns = ns /\ q.nsName = nsName /\ q.tombs = names /\ q.deleted = deleted
      /\ q.remoteTombs = o.remoteTombs /\ q.remoteDeleted = o.remoteDeleted
  BY Zenon DEF Overlays, Naming
<1> QED
  BY <1>1, <1>2

(* What is restored of the remote index.                                   *)
LEMMA ListingFacts ==
  ASSUME NEW o \in Overlays, NEW remote \in [Keys -> MaybeNames],
         NEW remoteName \in [Names -> MaybeKeys], NEW q, q = Listing(o, remote, remoteName)
  PROVE  /\ q \in Overlays /\ q.remote = remote /\ q.remoteName = remoteName
         /\ q.ns = o.ns /\ q.nsName = o.nsName /\ q.tombs = o.tombs /\ q.deleted = o.deleted
         /\ q.remoteTombs = o.remoteTombs /\ q.remoteDeleted = o.remoteDeleted
<1>1. q \in Overlays
  BY Zenon DEF Overlays, Listing
<1>2. /\ q.remote = remote /\ q.remoteName = remoteName
      /\ q.ns = o.ns /\ q.nsName = o.nsName /\ q.tombs = o.tombs /\ q.deleted = o.deleted
      /\ q.remoteTombs = o.remoteTombs /\ q.remoteDeleted = o.remoteDeleted
  BY Zenon DEF Overlays, Listing
<1> QED
  BY <1>1, <1>2

(* What is restored of pending creates.                                    *)
LEMMA CreatingFacts ==
  ASSUME NEW o \in Overlays, NEW created \in SUBSET Keys,
         NEW createdName \in [Names -> MaybeKeys], NEW q, q = Creating(o, created, createdName)
  PROVE  /\ q \in Overlays /\ q.created = created /\ q.createdName = createdName
         /\ q.createdKeys = created
         /\ q.remote = o.remote /\ q.remoteName = o.remoteName
         /\ q.ns = o.ns /\ q.nsName = o.nsName /\ q.tombs = o.tombs /\ q.deleted = o.deleted
         /\ q.remoteTombs = o.remoteTombs /\ q.remoteDeleted = o.remoteDeleted
<1>1. q \in Overlays
  BY Zenon DEF Overlays, Creating
<1>2. /\ q.created = created /\ q.createdName = createdName /\ q.createdKeys = created
      /\ q.remote = o.remote /\ q.remoteName = o.remoteName
      /\ q.ns = o.ns /\ q.nsName = o.nsName /\ q.tombs = o.tombs /\ q.deleted = o.deleted
      /\ q.remoteTombs = o.remoteTombs /\ q.remoteDeleted = o.remoteDeleted
  BY Zenon DEF Overlays, Creating
<1> QED
  BY <1>1, <1>2

(* The overlay a mount starts with, when the entries `passed` are passed.  *)
IsRestored(q, passed) ==
  /\ q \in Overlays /\ q.remoteTombs = {} /\ q.remoteDeleted = {}
  /\ q.tombs = {n \in Names : tombs[n] # NoTomb}
  /\ q.deleted = {tombs[n].key : n \in {m \in Names : tombs[m].deletes}}
  /\ q.created = creates /\ q.createdKeys = creates
  /\ \A k \in items : q.ns[k] \in Names
  /\ \A k \in Keys \ items : q.ns[k] = None
  /\ \A k \in passed : q.remote[k] \in Names
  /\ \A n \in Names :
       /\ q.nsName[n] = IF entry[n] \in items THEN entry[n] ELSE None
       /\ q.createdName[n] = IF entry[n] \in creates THEN entry[n] ELSE None
       /\ q.remoteName[n] = IF tree[n] \in passed THEN tree[n] ELSE None

(* A mount restores what the store has.                                    *)
LEMMA RestoredFacts ==
  ASSUME StoreTypes, items \subseteq KeysOf(entry),
         NEW passed, passed \subseteq KeysOf(tree),
         \A n \in Names : tombs[n].deletes => tombs[n].key \in Keys
  PROVE  IsRestored(RestoreCreated(RestoreRemote(RestoreNamespace, passed)), passed)
<1>1. PICK ns, nsName, names, deleted, remote, remoteName, createdName :
        /\ ns = [k \in Keys |-> IF k \in items THEN NameOf(entry, k) ELSE None]
        /\ nsName = [n \in Names |-> IF entry[n] \in items THEN entry[n] ELSE None]
        /\ names = {n \in Names : tombs[n] # NoTomb}
        /\ deleted = {tombs[n].key : n \in {m \in Names : tombs[m].deletes}}
        /\ remote = [k \in Keys |-> IF k \in passed THEN NameOf(tree, k) ELSE None]
        /\ remoteName = [n \in Names |-> IF tree[n] \in passed THEN tree[n] ELSE None]
        /\ createdName = [n \in Names |-> IF entry[n] \in creates THEN entry[n] ELSE None]
  OBVIOUS
<1>2. PICK p, s, q : /\ p = Naming(NoOverlay, ns, nsName, names, deleted)
                     /\ s = Listing(p, remote, remoteName)
                     /\ q = Creating(s, creates, createdName)
  OBVIOUS
<1>3. q = RestoreCreated(RestoreRemote(RestoreNamespace, passed))
  BY <1>1, <1>2, Zenon DEF RestoreCreated, RestoreRemote, RestoreNamespace,
                           Naming, Listing, Creating
<1>4. creates \in SUBSET Keys /\ passed \subseteq Keys /\ items \subseteq Keys
  BY DEF StoreTypes, KeysOf, Keys, Listings, RemoteKeys
<1>5. /\ \A k \in items : NameOf(entry, k) \in Names
      /\ \A k \in passed : NameOf(tree, k) \in Names
  BY NameOfFacts
<1>6. /\ ns \in [Keys -> MaybeNames] /\ remote \in [Keys -> MaybeNames]
      /\ \A k \in items : ns[k] \in Names
      /\ \A k \in Keys \ items : ns[k] = None
      /\ \A k \in passed : remote[k] \in Names
  BY <1>1, <1>4, <1>5 DEF MaybeNames
<1>7. /\ names \in SUBSET Names /\ deleted \in SUBSET Keys
      /\ nsName \in [Names -> MaybeKeys] /\ createdName \in [Names -> MaybeKeys]
      /\ remoteName \in [Names -> MaybeKeys]
  BY <1>1, <1>4 DEF StoreTypes, MaybeKeys
<1>8. /\ p \in Overlays
      /\ p.ns = ns /\ p.nsName = nsName /\ p.tombs = names /\ p.deleted = deleted
      /\ p.remoteTombs = {} /\ p.remoteDeleted = {}
  BY <1>2, <1>6, <1>7, NamingFacts, NoOverlayFacts
<1>9. /\ s \in Overlays /\ s.remote = remote /\ s.remoteName = remoteName
      /\ s.ns = ns /\ s.nsName = nsName /\ s.tombs = names /\ s.deleted = deleted
      /\ s.remoteTombs = {} /\ s.remoteDeleted = {}
  <2>1. /\ s = Listing(p, remote, remoteName) /\ p \in Overlays
        /\ remote \in [Keys -> MaybeNames] /\ remoteName \in [Names -> MaybeKeys]
    BY <1>2, <1>6, <1>7, <1>8
  <2>2. /\ s \in Overlays /\ s.remote = remote /\ s.remoteName = remoteName
        /\ s.ns = p.ns /\ s.nsName = p.nsName /\ s.tombs = p.tombs /\ s.deleted = p.deleted
        /\ s.remoteTombs = p.remoteTombs /\ s.remoteDeleted = p.remoteDeleted
    BY ONLY <2>1, ListingFacts
  <2> QED
    BY <1>8, <2>2
<1>10. /\ q \in Overlays /\ q.created = creates /\ q.createdName = createdName
       /\ q.createdKeys = creates
       /\ q.remote = remote /\ q.remoteName = remoteName
       /\ q.ns = ns /\ q.nsName = nsName /\ q.tombs = names /\ q.deleted = deleted
       /\ q.remoteTombs = {} /\ q.remoteDeleted = {}
  BY <1>2, <1>4, <1>7, <1>9, CreatingFacts
<1>11. IsRestored(q, passed)
  BY <1>1, <1>6, <1>10 DEF IsRestored
<1> QED
  BY <1>3, <1>11

-----------------------------------------------------------------------------
(* The inductive invariant.                                                *)

Pending == items \cup creates

(* A remote item whose local name is another than its remote name has left *)
(* a tombstone at the latter.                                              *)
Marked(k) == k \in RemoteKeys => \E p \in Names : tree[p] = k /\ tombs[p] # NoTomb

(* An item without a local name, which it will never have again.           *)
Gone(k) ==
  /\ k \in used \cup RemoteKeys /\ \A n \in Names : entry[n] # k
  /\ Marked(k)

Unique(f) == \A m, n \in Names : f[m] = f[n] /\ f[m] # None => m = n

(* The store: what no local mutation is pending for is as it is remotely,  *)
(* and what a tombstone deletes is gone.                                   *)
StoreInv ==
  /\ Unique(entry) /\ Unique(tree)
  /\ \A k \in Pending : \E n \in Names : entry[n] = k
  /\ \A n \in Names : entry[n] \in used \cup RemoteKeys \cup {None}
  /\ \A n \in Names : entry[n] \notin Pending \cup {None} => SameEntry(n)
  /\ \A k \in items : Marked(k)
  /\ \A n \in Names : tombs[n].deletes => Gone(tombs[n].key)

(* A committed operation that is still to be accepted.                     *)
LocalInv == local.pc = "accept" =>
  /\ local.op # "remove" => entry[local.to] = local.key
  /\ local.op # "create" => entry[local.from] = None /\ tombs[local.from] # NoTomb
  /\ local.op = "create" =>
       /\ IF local.key \in Files THEN local.key \in creates \ items ELSE local.key \in items
       /\ local.to \in refused \/ overlay.nsName[local.to] = None
  /\ local.op = "rename" =>
       local.key \in items /\ (local.dest # None => Gone(local.dest))
  /\ local.op = "remove" => Gone(local.key)

(* A committed change that is still to be applied.                         *)
ChangeInv == change.pc # "none" =>
  /\ \A n \in Names : entry[n] # None => entry[n] # change.replaced
  /\ change.op = "delete" =>
       /\ \A n \in Names : entry[n] # change.key
       /\ tree[change.name] = None /\ change.prev = None
  /\ change.op = "upsert" =>
       /\ tree[change.name] = change.key
       /\ change.prev # None => tree[change.prev] = None

Accepting == IF local.pc = "accept" THEN LocalNames ELSE {}
Changing == IF change.pc # "none" THEN ChangeNames ELSE {}

(* What the overlay's indices say of the name n.                           *)
NamespaceAgrees(n) ==
  IF entry[n] \in items
  THEN overlay.nsName[n] = entry[n] /\ overlay.ns[entry[n]] # None
  ELSE overlay.nsName[n] = None

CreatedAgrees(n) ==
  /\ entry[n] \in creates \ items =>
       overlay.createdName[n] = entry[n] /\ entry[n] \in overlay.created
  /\ entry[n] \notin Pending => overlay.createdName[n] = None

RemoteAgrees(n) ==
  entry[n] \notin Pending \cup {None} =>
    \/ overlay.remoteName[n] = entry[n] /\ overlay.remote[entry[n]] # None
    \/ overlay.remoteName[n] = None /\ n \notin overlay.remoteTombs /\ backend[n] = entry[n]

StaysRemote(n) == entry[n] \notin items => entry[n] \notin overlay.remoteDeleted

DeletedInv ==
  /\ \A k \in overlay.deleted : Gone(k)
  /\ overlay.remoteDeleted \subseteq RemoteKeys
  /\ \A n \in overlay.tombs : tombs[n] # NoTomb
  /\ \A n \in Names : backend[n] \in table \cup {None}

LocalAgrees == \A n \in Names \ (refused \cup Accepting) : NamespaceAgrees(n) /\ CreatedAgrees(n)
ListingAgrees == \A n \in Names \ (refused \cup Changing) : RemoteAgrees(n) /\ StaysRemote(n)

MountInv == LocalInv /\ ChangeInv /\ LocalAgrees /\ ListingAgrees /\ DeletedInv

HiddenInv == Types /\ StoreInv /\ (Mounted => MountInv)

(* What a lookup finds is an item.                                         *)
LEMMA LookupIsKey ==
  ASSUME NEW o \in Overlays, NEW b \in Listings, NEW n \in Names
  PROVE  Lookup(o, b, n) \in MaybeKeys
<1>1. NamespaceAt(o, n) \in MaybeKeys /\ RemoteAt(o, n) \in MaybeKeys
  BY DEF NamespaceAt, RemoteAt, Overlays, MaybeKeys
<1>2. CreatedAt(o, n) \in MaybeKeys
  BY DEF CreatedAt, Overlays, MaybeKeys
<1>3. b[n] \in MaybeKeys
  BY DEF Listings, MaybeKeys, RemoteKeys, Keys
<1> QED
  BY <1>1, <1>2, <1>3 DEF Lookup, First, MaybeKeys

(* Indices that agree with the store show what it has: each item is found  *)
(* by the first of the four lookups that knows its name, and no tombstone  *)
(* is left on it.                                                          *)
LEMMA HiddenInvHides ==
  ASSUME KeysAreDistinct, HiddenInv
  PROVE  ShownAsCommitted
<1> SUFFICES ASSUME Mounted, NEW n \in Names \ Unsettled, entry[n] # None
             PROVE  /\ Shown(n) = entry[n] /\ HasAttributes(entry[n])
                    /\ n \in OpenDirectory(overlay, backend)
  BY DEF ShownAsCommitted
<1>1. n \in Names \ (refused \cup Accepting) /\ n \in Names \ (refused \cup Changing)
  BY DEF Unsettled, Accepting, Changing
<1>2. NamespaceAgrees(n) /\ CreatedAgrees(n) /\ RemoteAgrees(n) /\ StaysRemote(n)
  BY <1>1 DEF HiddenInv, MountInv, LocalAgrees, ListingAgrees
<1>3. PICK k \in Keys : k = entry[n]
  BY DEF HiddenInv, Types, StoreTypes, MaybeKeys
<1>4. k # None /\ None \notin Keys /\ None \notin Names
  BY <1>3 DEF KeysAreDistinct
<1>5. overlay.created \subseteq Keys
  BY DEF HiddenInv, Types, MountTypes, Overlays
<1>6. CASE k \in items
  <2>1. overlay.nsName[n] = k /\ overlay.ns[k] # None
    BY <1>2, <1>3, <1>6 DEF NamespaceAgrees
  <2>2. NamespaceAt(overlay, n) = k
    BY <1>4, <2>1 DEF NamespaceAt
  <2> QED
    BY <1>3, <1>4, <2>1, <2>2
    DEF Shown, Lookup, First, HasAttributes, OpenDirectory
<1>7. ASSUME k \notin items PROVE NamespaceAt(overlay, n) = None
  BY <1>2, <1>3, <1>7 DEF NamespaceAgrees, NamespaceAt
<1>8. k \notin overlay.deleted
  BY <1>3 DEF HiddenInv, MountInv, DeletedInv, Gone
<1>9. CASE k \in creates \ items
  <2>1. CreatedAt(overlay, n) = k /\ k \in overlay.created
    BY <1>2, <1>3, <1>9 DEF CreatedAgrees, CreatedAt
  <2>2. k \notin overlay.remoteDeleted
    <3>1. k \in Files /\ RemoteKeys \cap Files = {}
      BY <1>9 DEF HiddenInv, Types, StoreTypes, KeysAreDistinct, RemoteKeys
    <3>2. overlay.remoteDeleted \subseteq RemoteKeys
      BY DEF HiddenInv, MountInv, DeletedInv
    <3> QED
      BY <3>1, <3>2
  <2> QED
    BY <1>3, <1>4, <1>7, <1>8, <1>9, <2>1, <2>2
    DEF Shown, Lookup, First, HasAttributes, OpenDirectory
<1>10. CASE k \notin Pending
  <2>1. k \notin items /\ k \notin creates
    BY <1>10 DEF Pending
  <2>2. NamespaceAt(overlay, n) = None /\ CreatedAt(overlay, n) = None
    BY <1>2, <1>3, <1>4, <1>5, <1>7, <1>10, <2>1 DEF CreatedAgrees, CreatedAt
  <2>3. k \notin overlay.remoteDeleted
    BY <1>2, <1>3, <2>1 DEF StaysRemote
  <2>4. CASE overlay.remoteName[n] = k /\ overlay.remote[k] # None
    <3>1. RemoteAt(overlay, n) = k
      BY <1>4, <2>4 DEF RemoteAt
    <3> QED
      BY <1>3, <1>4, <2>2, <2>4, <3>1
      DEF Shown, Lookup, First, HasAttributes, OpenDirectory
  <2>5. CASE /\ overlay.remoteName[n] = None /\ n \notin overlay.remoteTombs
             /\ backend[n] = k
    <3>1. RemoteAt(overlay, n) = None
      BY <2>5 DEF RemoteAt
    <3>2. n \notin overlay.tombs
      BY <1>3, <1>4, <1>10 DEF HiddenInv, StoreInv, SameEntry, MountInv, DeletedInv
    <3>3. k \in table
      BY <1>4, <2>5 DEF HiddenInv, MountInv, DeletedInv
    <3> QED
      BY <1>3, <1>4, <1>8, <2>2, <2>3, <2>5, <3>1, <3>2, <3>3
      DEF Shown, Lookup, First, HasAttributes, OpenDirectory
  <2> QED
    BY <1>2, <1>3, <1>4, <1>10, <2>4, <2>5 DEF RemoteAgrees
<1> QED
  BY <1>6, <1>9, <1>10 DEF Pending

(* The first mount has an empty overlay over the backend's listing.        *)
LEMMA InitHides ==
  ASSUME KeysAreDistinct, Init
  PROVE  HiddenInv
<1>1. tree \in [Names -> Base \cup {None}] /\ entry = tree /\ backend = tree
  BY DEF Init
<1>2. \A k \in Base : \E n \in Names : {m \in Names : tree[m] = k} = {n}
  <2> SUFFICES ASSUME NEW k \in Base
               PROVE  \E n \in Names : {m \in Names : tree[m] = k} = {n}
    OBVIOUS
  <2>1. PICK S : S = {m \in Names : tree[m] = k}
    OBVIOUS
  <2>2. S \subseteq Names /\ IsFiniteSet(S) /\ Cardinality(S) = 1
    BY <2>1, FS_Subset DEF Init, KeysAreDistinct
  <2>3. PICK n : S = {n}
    BY <2>2, FS_Singleton
  <2> QED
    BY <2>1, <2>2, <2>3
<1>3. Unique(tree)
  <2> SUFFICES ASSUME NEW m \in Names, NEW n \in Names, tree[m] = tree[n], tree[m] # None
               PROVE  m = n
    BY DEF Unique
  <2>1. PICK k \in Base : k = tree[m]
    BY <1>1
  <2>2. PICK p \in Names : {l \in Names : tree[l] = k} = {p}
    BY <1>2
  <2> QED
    BY <2>1, <2>2
<1>4. Types
  <2>1. StoreTypes
    BY <1>1 DEF Init, StoreTypes, Listings, MaybeKeys, Keys, RemoteKeys, NoTomb
  <2>2. MountTypes
    BY <1>1, NoOverlayFacts DEF Init, MountTypes, Listings, Keys, RemoteKeys
  <2> QED
    BY <2>1, <2>2 DEF Init, Types, LocalTypes, ChangeTypes
<1>5. StoreInv
  BY <1>1, <1>3 DEF Init, StoreInv, Pending, RemoteKeys, SameEntry, NoTomb
<1>6. MountInv
  <2>1. \A n \in Names : entry[n] \in Base \cup {None}
    BY <1>1
  <2>2. Pending = {} /\ local.pc = "none" /\ change.pc = "none" /\ table = Base
    BY DEF Init, Pending, NoLocal, NoChange
  <2>3. \A n \in Names : NamespaceAgrees(n) /\ CreatedAgrees(n)
    BY <2>2, NoOverlayFacts DEF Init, Pending, NamespaceAgrees, CreatedAgrees
  <2>4. \A n \in Names : RemoteAgrees(n) /\ StaysRemote(n)
    BY <1>1, NoOverlayFacts DEF Init, RemoteAgrees, StaysRemote
  <2>5. DeletedInv
    BY <1>1, <2>1, <2>2, NoOverlayFacts DEF Init, DeletedInv
  <2> QED
    BY <2>2, <2>3, <2>4, <2>5 DEF MountInv, LocalInv, ChangeInv, LocalAgrees, ListingAgrees
<1> QED
  BY <1>4, <1>5, <1>6 DEF HiddenInv

-----------------------------------------------------------------------------
(* Steps that change neither the store nor the overlay.                    *)

(* An item is a remote one, a file or a directory that was created.        *)
LEMMA KeyKinds ==
  ASSUME KeysAreDistinct
  PROVE  /\ Keys = RemoteKeys \cup Files \cup Dirs /\ RemoteKeys \cap (Files \cup Dirs) = {}
         /\ Files \cap Dirs = {} /\ None \notin Keys /\ None \notin Names
BY DEF KeysAreDistinct, Keys, RemoteKeys

(* Such a step keeps the invariant when no name becomes one that nobody    *)
(* answers for.                                                            *)
LEMMA Quiet ==
  ASSUME HiddenInv, Types', UNCHANGED <<table, backend, overlay, store, mount>>,
         refused \subseteq refused', Accepting \subseteq refused' \cup Accepting',
         Changing \subseteq refused' \cup Changing', LocalInv', ChangeInv'
  PROVE  HiddenInv'
<1>1. /\ entry' = entry /\ tree' = tree /\ creates' = creates /\ items' = items
      /\ tombs' = tombs /\ used' = used /\ overlay' = overlay
      /\ backend' = backend /\ table' = table /\ mount' = mount
  BY DEF store
<1>2. StoreInv'
  BY <1>1 DEF HiddenInv, StoreInv, Unique, Pending, SameEntry, Marked, Gone
<1>3. ASSUME Mounted' PROVE MountInv'
  <2>1. MountInv
    BY <1>1, <1>3 DEF HiddenInv, Mounted
  <2>2. LocalAgrees'
    BY <1>1, <2>1 DEF MountInv, LocalAgrees, NamespaceAgrees, CreatedAgrees, Pending
  <2>3. ListingAgrees'
    BY <1>1, <2>1 DEF MountInv, ListingAgrees, RemoteAgrees, StaysRemote, Pending
  <2>4. DeletedInv'
    BY <1>1, <2>1 DEF MountInv, DeletedInv, Gone, Marked
  <2> QED
    BY <2>2, <2>3, <2>4 DEF MountInv
<1> QED
  BY <1>2, <1>3 DEF HiddenInv

(* An operation that is over leaves nothing to accept.                     *)
LEMMA NothingToAccept ==
  ASSUME local' = NoLocal
  PROVE  local'.pc = "none" /\ LocalInv' /\ Accepting' = {} /\ LocalTypes'
BY DEF NoLocal, LocalInv, Accepting, LocalTypes

(* And a change that is over leaves nothing to apply.                      *)
LEMMA NothingToApply ==
  ASSUME change' = NoChange
  PROVE  change'.pc = "none" /\ ChangeInv' /\ Changing' = {} /\ ChangeTypes'
BY DEF NoChange, ChangeInv, Changing, ChangeTypes

(* The operation stays the same.                                           *)
LEMMA ChangeStays ==
  ASSUME HiddenInv, Mounted, UNCHANGED <<entry, tree, change, mount>>
  PROVE  ChangeInv' /\ Changing' = Changing /\ ChangeTypes'
<1>1. ChangeInv /\ ChangeTypes
  BY DEF HiddenInv, MountInv, Types
<1> QED
  BY <1>1 DEF ChangeInv, ChangeTypes, Changing, ChangeNames, Mounted

(* The same for the local operation.                                       *)
LEMMA LocalStays ==
  ASSUME HiddenInv, Mounted, UNCHANGED <<store, local, overlay, mount>>, refused \subseteq refused'
  PROVE  LocalInv' /\ Accepting' = Accepting /\ LocalTypes'
<1>1. LocalInv /\ LocalTypes
  BY DEF HiddenInv, MountInv, Types
<1> QED
  BY <1>1 DEF LocalInv, LocalTypes, Accepting, LocalNames, Mounted, Gone, Marked, store

(* The store keeps its types with its contents.                            *)
LEMMA StoreTypesStay ==
  ASSUME Types, UNCHANGED store
  PROVE  StoreTypes'
BY DEF Types, StoreTypes, store

(* An operation or a change under way is one of a mount that is up.        *)
LEMMA UnderWay ==
  ASSUME Types, local.pc # "none" \/ change.pc # "none"
  PROVE  Mounted
BY DEF Types, LocalTypes, ChangeTypes, NoLocal, NoChange

(* rename and remove look their source up.                                 *)
LEMMA LookupSourceStep ==
  ASSUME KeysAreDistinct, HiddenInv, NEW op \in {"rename", "remove"}, NEW n \in Names,
         NEW m \in MaybeNames, LookupSource(op, n, m)
  PROVE  HiddenInv'
<1>1. /\ Mounted /\ local = NoLocal /\ Shown(n) # None /\ (op = "remove") = (m = None)
      /\ m # n /\ UNCHANGED <<table, backend, overlay, store, change, refused, mount>>
  BY DEF LookupSource
<1>2. Shown(n) \in Keys
  BY <1>1, LookupIsKey DEF HiddenInv, Types, MountTypes, Shown, MaybeKeys
<1>3. local' = [pc |-> IF op = "rename" THEN "dest" ELSE "store", op |-> op, key |-> Shown(n),
                from |-> n, to |-> m, dest |-> None]
  BY DEF LookupSource
<1>4. local'.pc \in {"dest", "store"}
  BY <1>3
<1>5. LocalTypes'
  BY <1>1, <1>2, <1>3 DEF LocalTypes, Mounted, MaybeNames, MaybeKeys
<1>6. StoreTypes' /\ MountTypes'
  BY <1>1, StoreTypesStay DEF HiddenInv, Types, MountTypes
<1>7. ChangeInv' /\ Changing' = Changing /\ ChangeTypes'
  BY <1>1, ChangeStays DEF store
<1>8. LocalInv' /\ Accepting = {} /\ Accepting' = {}
  BY <1>1, <1>4 DEF LocalInv, Accepting, NoLocal
<1> QED
  BY <1>1, <1>5, <1>6, <1>7, <1>8, Quiet DEF Types

(* rename looks its destination up.                                        *)
LEMMA LookupDestinationStep ==
  ASSUME KeysAreDistinct, HiddenInv, LookupDestination
  PROVE  HiddenInv'
<1>1. /\ local.pc = "dest" /\ local' = [local EXCEPT !.pc = "store", !.dest = Shown(local.to)]
      /\ UNCHANGED <<table, backend, overlay, store, change, refused, mount>>
  BY DEF LookupDestination
<1>2. Mounted /\ LocalTypes /\ local # NoLocal
  BY <1>1, UnderWay DEF HiddenInv, Types, NoLocal
<1>3. local.op = "rename" /\ local.from \in Names /\ local.to \in Names \ {local.from}
  BY <1>1, <1>2 DEF LocalTypes
<1>4. Shown(local.to) \in MaybeKeys
  BY <1>3, LookupIsKey DEF HiddenInv, Types, MountTypes, Shown
<1>5. PICK d \in MaybeKeys : d = Shown(local.to)
  BY <1>4
<1>6. local' = [local EXCEPT !.pc = "store", !.dest = d]
  BY <1>1, <1>5
<1>7. local \in [pc : {"dest", "store", "accept"}, op : {"create", "rename", "remove"},
                 key : Keys, from : MaybeNames, to : MaybeNames, dest : MaybeKeys]
  BY <1>2 DEF LocalTypes
<1>8. /\ local' \in [pc : {"dest", "store", "accept"}, op : {"create", "rename", "remove"},
                     key : Keys, from : MaybeNames, to : MaybeNames, dest : MaybeKeys]
      /\ local'.pc = "store" /\ local'.op = local.op /\ local'.from = local.from
      /\ local'.to = local.to
  BY <1>6, <1>7, Zenon
<1>9. LocalTypes'
  BY <1>1, <1>2, <1>3, <1>8 DEF LocalTypes, Mounted
<1>10. StoreTypes' /\ MountTypes'
  BY <1>1, StoreTypesStay DEF HiddenInv, Types, MountTypes
<1>11. ChangeInv' /\ Changing' = Changing /\ ChangeTypes'
  BY <1>1, <1>2, ChangeStays DEF store
<1>12. LocalInv' /\ Accepting = {} /\ Accepting' = {}
  BY <1>1, <1>8 DEF LocalInv, Accepting
<1> QED
  BY <1>1, <1>9, <1>10, <1>11, <1>12, Quiet DEF Types

(* The store refuses facts that no longer hold.                            *)
LEMMA StoreRefusesStep ==
  ASSUME HiddenInv, StoreRefuses
  PROVE  HiddenInv'
<1>1. /\ local.pc = "store" /\ local' = NoLocal
      /\ UNCHANGED <<table, backend, overlay, store, change, refused, mount>>
  BY DEF StoreRefuses
<1>2. Mounted
  BY <1>1, UnderWay DEF HiddenInv
<1>3. LocalInv' /\ Accepting' = {} /\ LocalTypes' /\ Accepting = {}
  BY <1>1, NothingToAccept DEF Accepting
<1>4. StoreTypes' /\ MountTypes'
  BY <1>1, StoreTypesStay DEF HiddenInv, Types, MountTypes
<1>5. ChangeInv' /\ Changing' = Changing /\ ChangeTypes'
  BY <1>1, <1>2, ChangeStays DEF store
<1> QED
  BY <1>1, <1>3, <1>4, <1>5, Quiet DEF Types

(* A committed operation that the overlay does not take: an answer that    *)
(* got lost, or one that is refused.                                       *)
LEMMA NotAccepted ==
  ASSUME HiddenInv, local.pc = "accept", local' = NoLocal,
         refused' = refused \cup LocalNames,
         UNCHANGED <<table, backend, overlay, store, change, mount>>
  PROVE  HiddenInv'
<1>1. Mounted /\ local # NoLocal
  BY UnderWay DEF HiddenInv, NoLocal
<1>2. LocalInv' /\ Accepting' = {} /\ LocalTypes' /\ Accepting = LocalNames
  BY NothingToAccept DEF Accepting
<1>3. LocalNames \subseteq Names
  BY <1>1 DEF HiddenInv, Types, LocalTypes, LocalNames, MaybeNames
<1>4. StoreTypes' /\ MountTypes'
  BY <1>3, StoreTypesStay DEF HiddenInv, Types, MountTypes
<1>5. ChangeInv' /\ Changing' = Changing /\ ChangeTypes'
  BY <1>1, ChangeStays DEF store
<1> QED
  BY <1>2, <1>4, <1>5, Quiet DEF Types

(* And a change that the overlay does not take.                            *)
LEMMA NotApplied ==
  ASSUME HiddenInv, change.pc # "none", change' = NoChange,
         refused' = refused \cup ChangeNames,
         UNCHANGED <<table, backend, overlay, store, local, mount>>
  PROVE  HiddenInv'
<1>1. Mounted /\ change # NoChange
  BY UnderWay DEF HiddenInv, NoChange
<1>2. ChangeInv' /\ Changing' = {} /\ ChangeTypes' /\ Changing = ChangeNames
  BY NothingToApply DEF Changing
<1>3. ChangeNames \subseteq Names
  BY <1>1 DEF HiddenInv, Types, ChangeTypes, ChangeNames, MaybeNames
<1>4. StoreTypes' /\ MountTypes'
  BY <1>3, StoreTypesStay DEF HiddenInv, Types, MountTypes
<1>5. LocalInv' /\ Accepting' = Accepting /\ LocalTypes'
  BY <1>1, LocalStays
<1> QED
  BY <1>2, <1>4, <1>5, Quiet DEF Types

(* A change that is validated goes on or is given up.                      *)
LEMMA ValidateStep ==
  ASSUME HiddenInv, change.pc # "none", NEW next \in {"previous", "apply"},
         \/ change' = [change EXCEPT !.pc = next] /\ refused' = refused
         \/ change' = NoChange /\ refused' = refused \cup ChangeNames,
         UNCHANGED <<table, backend, overlay, store, local, mount>>
  PROVE  HiddenInv'
<1>1. UNCHANGED <<table, backend, overlay, store, local, mount>>
  OBVIOUS
<1>2. CASE change' = [change EXCEPT !.pc = next] /\ refused' = refused
  <2>1. change' = [change EXCEPT !.pc = next] /\ refused' = refused
    BY <1>2
  <2>2. /\ Mounted /\ ChangeInv /\ change.replaced # change.key /\ change.prev # change.name
        /\ change \in [pc : {"lookup", "previous", "apply"}, op : {"upsert", "delete"},
                       key : RemoteKeys, name : Names, prev : MaybeNames,
                       replaced : RemoteKeys \cup {None}]
    BY UnderWay DEF HiddenInv, Types, ChangeTypes, NoChange, MountInv
  <2>3. /\ change' \in [pc : {"lookup", "previous", "apply"}, op : {"upsert", "delete"},
                        key : RemoteKeys, name : Names, prev : MaybeNames,
                        replaced : RemoteKeys \cup {None}]
        /\ change'.pc = next /\ change'.op = change.op /\ change'.key = change.key
        /\ change'.name = change.name /\ change'.prev = change.prev
        /\ change'.replaced = change.replaced
    BY <2>1, <2>2, Zenon
  <2>4. ChangeTypes'
    BY <1>1, <2>2, <2>3 DEF ChangeTypes, Mounted
  <2>5. ChangeInv' /\ Changing' = Changing
    BY <1>1, <2>2, <2>3 DEF ChangeInv, Changing, ChangeNames, store
  <2>6. StoreTypes' /\ MountTypes'
    BY <1>1, <2>1, StoreTypesStay DEF HiddenInv, Types, MountTypes
  <2>7. LocalInv' /\ Accepting' = Accepting /\ LocalTypes'
    BY <1>1, <2>1, <2>2, LocalStays
  <2> QED
    BY <1>1, <2>1, <2>4, <2>5, <2>6, <2>7, Quiet DEF Types
<1>3. CASE change' = NoChange /\ refused' = refused \cup ChangeNames
  BY <1>1, <1>3, NotApplied
<1> QED
  BY <1>2, <1>3

-----------------------------------------------------------------------------
(* Local commits.                                                          *)

(* create_file and create_directory commit a new item.                     *)
LEMMA CreateStep ==
  ASSUME KeysAreDistinct, HiddenInv, NEW k \in Files \cup Dirs, NEW n \in Names, Create(k, n)
  PROVE  HiddenInv'
<1>1. /\ Mounted /\ local = NoLocal /\ k \notin used /\ entry[n] = None
      /\ entry' = [entry EXCEPT ![n] = k]
      /\ creates' = creates \cup ({k} \cap Files) /\ items' = items \cup ({k} \cap Dirs)
      /\ used' = used \cup {k}
      /\ UNCHANGED <<table, backend, overlay, tree, tombs, change, refused, mount>>
  BY DEF Create
<1>2. local' = [pc |-> "accept", op |-> "create", key |-> k, from |-> None, to |-> n,
                dest |-> None]
  BY DEF Create
<1>3. /\ local'.pc = "accept" /\ local'.op = "create" /\ local'.key = k
      /\ local'.from = None /\ local'.to = n
  BY <1>2
<1>4. /\ k \in Keys /\ k \notin RemoteKeys /\ k # None /\ None \notin Names /\ None \notin Keys
      /\ Keys = RemoteKeys \cup Files \cup Dirs /\ Files \cap Dirs = {}
  BY KeyKinds
<1>5. StoreTypes /\ MountTypes /\ ChangeTypes /\ StoreInv /\ MountInv
  BY <1>1 DEF HiddenInv, Types
<1>6. Accepting = {} /\ Accepting' = {n}
  BY <1>1, <1>3, <1>4 DEF Accepting, NoLocal, LocalNames
<1>7. \A m \in Names : entry[m] # k
  BY <1>1, <1>4, <1>5 DEF StoreInv
<1>8. \A m \in Names : entry'[m] = IF m = n THEN k ELSE entry[m]
  BY <1>1, <1>5 DEF StoreTypes
<1>9. \A l : l \in Pending' <=> l \in Pending \/ l = k
  BY <1>1 DEF Pending
<1>10. k \notin Pending /\ None \notin Pending
  <2>1. k \notin Pending
    BY <1>5, <1>7 DEF StoreInv
  <2>2. None \notin items /\ None \notin creates
    BY <1>4, <1>5 DEF StoreTypes
  <2> QED
    BY <2>1, <2>2 DEF Pending
<1>11. Types'
  <2>1. StoreTypes'
    BY <1>1, <1>4, <1>5 DEF StoreTypes, MaybeKeys
  <2>2. LocalTypes'
    BY <1>1, <1>2, <1>3, <1>4 DEF LocalTypes, Mounted, MaybeNames, MaybeKeys
  <2>3. MountTypes' /\ ChangeTypes'
    BY <1>1, <1>5 DEF MountTypes, ChangeTypes, Mounted
  <2> QED
    BY <2>1, <2>2, <2>3 DEF Types
<1>12. \A l : Marked(l)' <=> Marked(l)
  BY <1>1 DEF Marked
<1>13. \A l : Gone(l) => Gone(l)'
  BY <1>1, <1>4, <1>8, <1>12 DEF Gone
<1>14. StoreInv'
  <2>1. Unique(entry') /\ Unique(tree')
    BY <1>1, <1>5, <1>7, <1>8 DEF StoreInv, Unique
  <2>2. \A l \in Pending' : \E m \in Names : entry'[m] = l
    BY <1>1, <1>5, <1>8, <1>9, <1>10 DEF StoreInv
  <2>3. \A m \in Names : entry'[m] \in used' \cup RemoteKeys \cup {None}
    BY <1>1, <1>5, <1>8 DEF StoreInv
  <2>4. \A m \in Names : entry'[m] \notin Pending' \cup {None} => SameEntry(m)'
    BY <1>1, <1>5, <1>8, <1>9 DEF StoreInv, SameEntry
  <2>5. \A l \in items' : Marked(l)'
    BY <1>1, <1>4, <1>5, <1>12 DEF StoreInv, Marked
  <2>6. \A m \in Names : \A l : tombs'[m].deletes /\ l = tombs'[m].key => Gone(l)'
    BY <1>1, <1>5, <1>13 DEF StoreInv
  <2>7. (\A m \in Names : tombs[m].deletes => Gone(tombs[m].key))'
    BY ONLY <2>6 DEF Gone, Marked
  <2> QED
    BY <2>1, <2>2, <2>3, <2>4, <2>5, <2>7 DEF StoreInv
<1>15. LocalInv'
  <2>1. n \in refused \/ overlay.nsName[n] = None
    BY <1>1, <1>5, <1>6, <1>10 DEF MountInv, LocalAgrees, NamespaceAgrees, Pending
  <2>2. IF k \in Files THEN k \in creates' \ items' ELSE k \in items'
    BY <1>1, <1>4, <1>10 DEF Pending
  <2> QED
    BY <1>1, <1>3, <1>8, <2>1, <2>2 DEF LocalInv
<1>16. ChangeInv'
  <2>1. ASSUME change.pc # "none" PROVE k # change.replaced /\ k # change.key
    BY <1>4, <2>1, <1>5 DEF ChangeTypes, NoChange
  <2> QED
    BY <1>1, <1>5, <1>8, <2>1 DEF MountInv, ChangeInv
<1>17. /\ \A l : l # k => (l \in items' <=> l \in items) /\ (l \in creates' <=> l \in creates)
       /\ Changing' = Changing
  BY <1>1 DEF Changing, ChangeNames
<1>18. LocalAgrees'
  BY <1>1, <1>5, <1>6, <1>7, <1>8, <1>9, <1>17
  DEF MountInv, LocalAgrees, NamespaceAgrees, CreatedAgrees
<1>19. ListingAgrees'
  <2>1. k \notin overlay.remoteDeleted
    BY <1>4, <1>5 DEF MountInv, DeletedInv
  <2> QED
    BY <1>1, <1>5, <1>7, <1>8, <1>9, <1>17, <2>1
    DEF MountInv, ListingAgrees, RemoteAgrees, StaysRemote
<1>20. DeletedInv'
  BY <1>1, <1>5, <1>13 DEF MountInv, DeletedInv
<1> QED
  BY <1>11, <1>14, <1>15, <1>16, <1>18, <1>19, <1>20 DEF HiddenInv, MountInv

(* A rename and a removal commit: the source has no entry, the items keep  *)
(* what they were, and tombstones are left.                                *)
LEMMA StoreCommitsStep ==
  ASSUME KeysAreDistinct, HiddenInv, StoreCommits
  PROVE  HiddenInv'
<1> PICK from, to, key, dest :
      from = local.from /\ to = local.to /\ key = local.key /\ dest = local.dest
  OBVIOUS
<1>1. /\ local.pc = "store" /\ FactsHold /\ local' = [local EXCEPT !.pc = "accept"]
      /\ UNCHANGED <<table, backend, overlay, tree, used, change, refused, mount>>
  BY DEF StoreCommits
<1>2. /\ Mounted /\ StoreTypes /\ MountTypes /\ ChangeTypes /\ StoreInv /\ MountInv
      /\ local.op \in {"rename", "remove"} /\ from \in Names /\ key \in Keys
      /\ dest \in MaybeKeys /\ (local.op = "rename" => to \in Names /\ to # from)
      /\ (local.op = "remove" => to = None)
      /\ local \in [pc : {"dest", "store", "accept"}, op : {"create", "rename", "remove"},
                    key : Keys, from : MaybeNames, to : MaybeNames, dest : MaybeKeys]
  BY <1>1, UnderWay DEF HiddenInv, Types, LocalTypes, NoLocal
<1>3. /\ None \notin Keys /\ None \notin Names /\ key # None
      /\ Keys = RemoteKeys \cup Files \cup Dirs /\ RemoteKeys \cap (Files \cup Dirs) = {}
  BY <1>2, KeyKinds
<1>4. /\ local' \in [pc : {"dest", "store", "accept"}, op : {"create", "rename", "remove"},
                     key : Keys, from : MaybeNames, to : MaybeNames, dest : MaybeKeys]
      /\ local'.pc = "accept" /\ local'.op = local.op /\ local'.key = key
      /\ local'.from = from /\ local'.to = to /\ local'.dest = dest
  BY <1>1, <1>2, Zenon
<1>5. entry[from] = key /\ (local.op = "rename" => entry[to] = dest)
  BY <1>1 DEF FactsHold
<1>6. PICK gone, D :
        /\ gone = IF local.op = "rename" THEN dest ELSE key
        /\ D = IF local.op = "rename" THEN {from, to} ELSE {from}
  OBVIOUS
(* The entries of the names it is not about, and the pending mutations of  *)
(* other items.                                                            *)
<1>7. /\ D \subseteq Names /\ from \in D
      /\ \A m \in Names \ D :
           entry'[m] = entry[m] /\ tombs'[m] = tombs[m] /\ entry[m] \notin ({key, gone} \ {None})
      /\ entry'[from] = None
      /\ local.op = "rename" => entry'[to] = key
  <2>1. CASE local.op = "rename"
    BY <1>1, <1>2, <1>3, <1>5, <1>6, <2>1
    DEF StoreCommits, CommitRename, StoreTypes, StoreInv, Unique
  <2>2. CASE local.op = "remove"
    BY <1>1, <1>2, <1>3, <1>5, <1>6, <2>2
    DEF StoreCommits, CommitRemove, StoreTypes, StoreInv, Unique
  <2> QED
    BY <1>2, <2>1, <2>2
<1>8. /\ \A m \in D : tombs'[m].deletes /\ tombs'[m] # tombs[m] =>
           tombs'[m].key = gone /\ gone # None
      /\ gone # None => \E m \in D : tombs'[m] # NoTomb /\ entry[m] = gone
      /\ tombs'[from] # NoTomb
      /\ \A m \in Names : tombs[m] # NoTomb => tombs'[m] # NoTomb
      /\ tombs' \in [Names -> [key : MaybeKeys, deletes : BOOLEAN]]
  <2>1. CASE local.op = "rename"
    <3>1. tombs' = [tombs EXCEPT
                      ![from] = [key |-> key, deletes |-> FALSE],
                      ![to] = IF dest = None THEN @ ELSE [key |-> dest, deletes |-> TRUE]]
      BY <1>1, <2>1 DEF StoreCommits, CommitRename
    <3>2. /\ tombs'[from] = [key |-> key, deletes |-> FALSE]
          /\ tombs'[to] = IF dest = None THEN tombs[to] ELSE [key |-> dest, deletes |-> TRUE]
          /\ \A m \in Names \ {from, to} : tombs'[m] = tombs[m]
      BY <1>2, <2>1, <3>1 DEF StoreTypes
    <3>3. /\ [key |-> key, deletes |-> FALSE] # NoTomb
          /\ [key |-> key, deletes |-> FALSE].deletes = FALSE
          /\ dest # None => [key |-> dest, deletes |-> TRUE] # NoTomb
          /\ [key |-> dest, deletes |-> TRUE].key = dest
      BY <1>3 DEF NoTomb
    <3>4. /\ [key |-> key, deletes |-> FALSE] \in [key : MaybeKeys, deletes : BOOLEAN]
          /\ [key |-> dest, deletes |-> TRUE] \in [key : MaybeKeys, deletes : BOOLEAN]
      BY <1>2 DEF MaybeKeys
    <3>5. tombs' \in [Names -> [key : MaybeKeys, deletes : BOOLEAN]]
      BY <1>2, <2>1, <3>1, <3>4 DEF StoreTypes
    <3>6. gone = dest /\ D = {from, to} /\ from # to
      BY <1>2, <1>6, <2>1
    <3>7. ASSUME NEW m \in D, tombs'[m].deletes, tombs'[m] # tombs[m]
          PROVE  tombs'[m].key = gone /\ gone # None
      BY <3>2, <3>3, <3>6, <3>7
    <3>8. gone # None => tombs'[to] # NoTomb /\ entry[to] = gone
      BY <1>5, <2>1, <3>2, <3>3, <3>6
    <3>9. /\ tombs'[from] # NoTomb
          /\ \A m \in Names : tombs[m] # NoTomb => tombs'[m] # NoTomb
      BY <3>2, <3>3
    <3> QED
      BY <3>5, <3>6, <3>7, <3>8, <3>9
  <2>2. CASE local.op = "remove"
    <3>1. tombs' = [tombs EXCEPT ![from] = [key |-> key, deletes |-> TRUE]]
      BY <1>1, <2>2 DEF StoreCommits, CommitRemove
    <3>2. /\ tombs'[from] = [key |-> key, deletes |-> TRUE]
          /\ \A m \in Names \ {from} : tombs'[m] = tombs[m]
      BY <1>2, <3>1 DEF StoreTypes
    <3>3. /\ [key |-> key, deletes |-> TRUE] # NoTomb
          /\ [key |-> key, deletes |-> TRUE].key = key
      BY <1>3 DEF NoTomb
    <3>4. [key |-> key, deletes |-> TRUE] \in [key : MaybeKeys, deletes : BOOLEAN]
      BY <1>2 DEF MaybeKeys
    <3>5. tombs' \in [Names -> [key : MaybeKeys, deletes : BOOLEAN]]
      BY <1>2, <3>1, <3>4 DEF StoreTypes
    <3>6. gone = key /\ D = {from}
      BY <1>6, <2>2
    <3>7. ASSUME NEW m \in D, tombs'[m].deletes, tombs'[m] # tombs[m]
          PROVE  tombs'[m].key = gone /\ gone # None
      BY <1>3, <3>2, <3>3, <3>6, <3>7
    <3>8. /\ tombs'[from] # NoTomb
          /\ \A m \in Names : tombs[m] # NoTomb => tombs'[m] # NoTomb
      BY <3>2, <3>3
    <3> QED
      BY <1>5, <3>5, <3>6, <3>7, <3>8
  <2> QED
    BY <1>2, <2>1, <2>2
<1>9. /\ items' = IF local.op = "rename" THEN (items \ {gone}) \cup {key} ELSE items \ {gone}
      /\ creates' = creates \ {gone}
      /\ entry' \in [Names -> MaybeKeys]
  <2>1. CASE local.op = "rename"
    BY <1>1, <1>2, <1>6, <2>1 DEF StoreCommits, CommitRename, StoreTypes, MaybeKeys
  <2>2. CASE local.op = "remove"
    BY <1>1, <1>2, <1>6, <2>2 DEF StoreCommits, CommitRemove, StoreTypes, MaybeKeys
  <2> QED
    BY <1>2, <2>1, <2>2
<1>10. None \notin items /\ None \notin creates
  BY <1>2, <1>3 DEF StoreTypes
<1>11. \A m \in Names : entry'[m] # None => \E p \in Names : entry[p] = entry'[m]
  BY <1>2, <1>5, <1>6, <1>7
<1>12. \A l : Marked(l) => Marked(l)'
  BY <1>1, <1>8 DEF Marked
<1>13. \A m \in D : \A l : l = entry[m] /\ l # None /\ tombs'[m] # NoTomb => Marked(l)'
  <2> SUFFICES ASSUME NEW m \in D, entry[m] # None, tombs'[m] # NoTomb,
                      entry[m] \in RemoteKeys
               PROVE  \E p \in Names : tree[p] = entry[m] /\ tombs'[p] # NoTomb
    BY <1>1 DEF Marked
  <2>1. m \in Names /\ entry[m] \notin creates
    BY <1>2, <1>3, <1>7 DEF StoreTypes
  <2>2. CASE entry[m] \in items
    BY <1>2, <1>8, <2>2 DEF StoreInv, Marked
  <2>3. CASE entry[m] \notin items
    BY <1>2, <2>1, <2>3 DEF StoreInv, SameEntry, Pending
  <2> QED
    BY <2>2, <2>3
<1>14. \A l : l # None /\ Gone(l) => Gone(l)'
  <2> SUFFICES ASSUME NEW l, l # None, Gone(l) PROVE Gone(l)'
    OBVIOUS
  <2>1. l \in used' \cup RemoteKeys /\ Marked(l)'
    BY <1>1, <1>12 DEF Gone
  <2>2. \A m \in Names : entry'[m] # l
    BY <1>11 DEF Gone
  <2> QED
    BY <2>1, <2>2 DEF Gone
<1>15. ASSUME gone # None PROVE Gone(gone)'
  <2>1. PICK m \in D : tombs'[m] # NoTomb /\ entry[m] = gone
    BY <1>8, <1>15
  <2>2. Marked(gone)' /\ m \in Names
    BY <1>7, <1>13, <1>15, <2>1
  <2>3. gone \in used' \cup RemoteKeys
    BY <1>1, <1>2, <1>15, <2>1, <2>2 DEF StoreInv
  <2>4. \A p \in Names : entry'[p] # gone
    <3>1. local.op = "rename" => key # gone
      BY <1>2, <1>5, <1>6, <1>15 DEF StoreInv, Unique
    <3> QED
      BY <1>2, <1>6, <1>7, <1>15, <3>1
  <2> QED
    BY <2>2, <2>3, <2>4 DEF Gone
<1>16. Types'
  <2>1. StoreTypes'
    BY <1>1, <1>2, <1>8, <1>9 DEF StoreTypes
  <2>2. LocalTypes'
    BY <1>1, <1>2, <1>4 DEF LocalTypes, Mounted
  <2>3. MountTypes' /\ ChangeTypes'
    BY <1>1, <1>2 DEF MountTypes, ChangeTypes, Mounted
  <2> QED
    BY <2>1, <2>2, <2>3 DEF Types
<1>17. StoreInv'
  <2>1. Unique(entry')
    BY <1>2, <1>6, <1>7 DEF StoreInv, Unique
  <2>2. \A l \in Pending' : \E m \in Names : entry'[m] = l
    <3> SUFFICES ASSUME NEW l \in Pending' PROVE \E m \in Names : entry'[m] = l
      OBVIOUS
    <3>1. CASE l = key
      BY <1>2, <1>6, <1>7, <1>9, <1>15, <3>1, <1>3 DEF Pending
    <3>2. CASE l # key
      <4>1. l \in Pending /\ l # gone /\ l # None
        BY <1>9, <1>10, <3>2 DEF Pending
      <4>2. PICK m \in Names : entry[m] = l
        BY <1>2, <4>1 DEF StoreInv
      <4>3. m \notin D
        BY <1>2, <1>5, <1>6, <3>2, <4>1, <4>2
      <4> QED
        BY <1>7, <4>2, <4>3
    <3> QED
      BY <3>1, <3>2
  <2>3. \A m \in Names : entry'[m] \in used' \cup RemoteKeys \cup {None}
    BY <1>1, <1>2, <1>11 DEF StoreInv
  <2>4. \A m \in Names : entry'[m] \notin Pending' \cup {None} => SameEntry(m)'
    <3> SUFFICES ASSUME NEW m \in Names, entry'[m] \notin Pending' \cup {None}
                 PROVE  SameEntry(m)'
      OBVIOUS
    <3>1. m \notin D
      BY <1>2, <1>6, <1>7, <1>9 DEF Pending
    <3>2. entry'[m] = entry[m] /\ tombs'[m] = tombs[m] /\ entry[m] # gone
      BY <1>7, <3>1
    <3>3. entry[m] \notin Pending \cup {None}
      BY <1>9, <3>2 DEF Pending
    <3> QED
      BY <1>1, <1>2, <3>2, <3>3 DEF StoreInv, SameEntry
  <2>5. \A l \in items' : Marked(l)'
    <3>1. local.op = "rename" => Marked(key)'
      BY <1>3, <1>5, <1>7, <1>8, <1>13
    <3> QED
      BY <1>2, <1>9, <1>12, <3>1 DEF StoreInv
  <2>6. \A m \in Names : \A l : tombs'[m].deletes /\ l = tombs'[m].key => Gone(l)'
    <3> SUFFICES ASSUME NEW m \in Names, NEW l, tombs'[m].deletes, l = tombs'[m].key
                 PROVE  Gone(l)'
      OBVIOUS
    <3>1. CASE tombs'[m] = tombs[m]
      <4>1. Gone(l)
        BY <1>2, <3>1 DEF StoreInv
      <4>2. l # None
        BY <1>2, <1>3, <4>1 DEF Gone, StoreTypes
      <4> QED
        BY <1>14, <4>1, <4>2
    <3>2. CASE tombs'[m] # tombs[m]
      <4>1. l = gone /\ m \in D
        BY <1>7, <1>8, <3>2
      <4>2. gone # None
        BY <1>8, <3>2, <4>1
      <4> QED
        BY <1>15, <4>1, <4>2
    <3> QED
      BY <3>1, <3>2
  <2>7. (\A m \in Names : tombs[m].deletes => Gone(tombs[m].key))'
    BY ONLY <2>6 DEF Gone, Marked
  <2> QED
    BY <1>1, <1>2, <2>1, <2>2, <2>3, <2>4, <2>5, <2>7 DEF StoreInv
<1>18. LocalInv'
  <2>1. local.op = "rename" => key \in items' /\ gone = dest
    BY <1>6, <1>9
  <2>2. local.op = "remove" => gone = key
    BY <1>6
  <2>3. /\ local.op = "rename" =>
             key \in items' /\ \A l : l = dest /\ l # None => Gone(l)'
        /\ local.op = "remove" => \A l : l = key => Gone(l)'
    BY <1>3, <1>15, <2>1, <2>2
  <2>4. entry'[from] = None /\ tombs'[from] # NoTomb /\ (local.op = "rename" => entry'[to] = key)
    BY <1>7, <1>8
  <2> QED
    BY <1>2, <1>4, <2>3, <2>4 DEF LocalInv, Gone, Marked
<1>19. ChangeInv' /\ Changing' = Changing
  <2>1. change' = change /\ tree' = tree
    BY <1>1
  <2>2. ASSUME change.pc # "none", NEW l, \A m \in Names : entry[m] # l, l # None
        PROVE  \A m \in Names : entry'[m] # l
    BY <1>11, <2>2
  <2>3. ASSUME change.pc # "none" PROVE change.key # None
    BY <1>2, <1>3, <2>3 DEF ChangeTypes, NoChange
  <2>4. ASSUME change.pc # "none"
        PROVE  \A m \in Names : entry'[m] # None => entry'[m] # change.replaced
    BY <1>2, <1>11, <2>4 DEF MountInv, ChangeInv
  <2>5. ASSUME change.pc # "none", change.op = "delete"
        PROVE  \A m \in Names : entry'[m] # change.key
    BY <1>2, <2>2, <2>3, <2>5 DEF MountInv, ChangeInv
  <2>6. ChangeInv'
    BY <1>2, <2>1, <2>4, <2>5 DEF MountInv, ChangeInv
  <2> QED
    BY <2>1, <2>6 DEF Changing, ChangeNames
<1>20. Accepting = {} /\ Accepting' = D
  BY <1>1, <1>2, <1>3, <1>4, <1>6 DEF Accepting, LocalNames
<1>21. \A m \in Names \ D : /\ entry'[m] \in items' <=> entry[m] \in items
                            /\ entry'[m] \in creates' <=> entry[m] \in creates
  BY <1>3, <1>7, <1>9, <1>10
<1>22. LocalAgrees'
  BY <1>1, <1>2, <1>7, <1>20, <1>21
  DEF MountInv, LocalAgrees, NamespaceAgrees, CreatedAgrees, Pending
<1>23. ListingAgrees'
  <2> SUFFICES ASSUME NEW m \in Names \ (refused' \cup Changing')
               PROVE  RemoteAgrees(m)' /\ StaysRemote(m)'
    BY DEF ListingAgrees
  <2>1. RemoteAgrees(m) /\ StaysRemote(m)
    BY <1>1, <1>2, <1>19 DEF MountInv, ListingAgrees
  <2>2. CASE m \notin D
    BY <1>1, <1>7, <1>21, <2>1, <2>2 DEF RemoteAgrees, StaysRemote, Pending
  <2>3. CASE m \in D
    <3>1. entry'[m] = None \/ entry'[m] \in items'
      BY <1>2, <1>6, <1>7, <1>9, <2>3
    <3>2. None \notin overlay.remoteDeleted
      BY <1>2, <1>3 DEF MountInv, DeletedInv
    <3> QED
      BY <1>1, <3>1, <3>2 DEF RemoteAgrees, StaysRemote, Pending
  <2> QED
    BY <2>2, <2>3
<1>24. DeletedInv'
  <2>1. \A l \in overlay.deleted : l # None
    BY <1>2, <1>3 DEF MountTypes, Overlays
  <2> QED
    BY <1>1, <1>2, <1>8, <1>14, <2>1 DEF MountInv, DeletedInv, MountTypes, Overlays
<1> QED
  BY <1>16, <1>17, <1>18, <1>19, <1>22, <1>23, <1>24 DEF HiddenInv, MountInv

-----------------------------------------------------------------------------
(* What the overlay takes.                                                 *)

(* An item is gone whatever the overlay does.                              *)
LEMMA GoneStays ==
  ASSUME UNCHANGED store
  PROVE  \A l : Gone(l) => Gone(l)'
BY DEF store, Gone, Marked

(* The facts about the store do not depend on the overlay.                 *)
LEMMA StoreStays ==
  ASSUME StoreInv, UNCHANGED store
  PROVE  StoreInv'
BY DEF store, StoreInv, Unique, Pending, SameEntry, Gone, Marked

(* A local operation that is accepted: only local indices change, so that  *)
(* the entries they name and the tombstones are left to be shown.          *)
LEMMA Taken ==
  ASSUME HiddenInv, local.pc = "accept", local' = NoLocal,
         UNCHANGED <<table, backend, store, change, refused, mount>>,
         NEW q \in Overlays, q = overlay', SameRemote(overlay, q),
         \A l \in q.deleted : l \in overlay.deleted \/ Gone(l),
         \A n \in q.tombs : n \in overlay.tombs \/ tombs[n] # NoTomb,
         \A n \in Names \ refused :
           /\ IF entry[n] \in items
              THEN q.nsName[n] = entry[n] /\ q.ns[entry[n]] # None
              ELSE q.nsName[n] = None
           /\ entry[n] \in creates \ items =>
                q.createdName[n] = entry[n] /\ entry[n] \in q.created
           /\ entry[n] \notin Pending => q.createdName[n] = None
  PROVE  HiddenInv'
<1>1. Mounted /\ Types /\ StoreInv /\ MountInv
  BY UnderWay DEF HiddenInv
<1>2. /\ entry' = entry /\ tree' = tree /\ creates' = creates /\ items' = items
      /\ tombs' = tombs /\ used' = used
  BY DEF store
<1>3. LocalInv' /\ Accepting' = {} /\ LocalTypes'
  BY NothingToAccept
<1>4. ChangeInv' /\ Changing' = Changing /\ ChangeTypes'
  BY <1>1, <1>2, ChangeStays
<1>5. Types'
  BY <1>1, <1>3, <1>4, StoreTypesStay DEF Types, MountTypes
<1>6. LocalAgrees'
  BY <1>2, <1>3 DEF LocalAgrees, NamespaceAgrees, CreatedAgrees, Pending
<1>7. ListingAgrees'
  BY <1>1, <1>2, <1>4
  DEF MountInv, ListingAgrees, RemoteAgrees, StaysRemote, SameRemote, Pending
<1>8. DeletedInv'
  <2>1. \A l \in q.deleted : Gone(l)'
    BY <1>1, GoneStays DEF MountInv, DeletedInv
  <2>2. q.remoteDeleted \subseteq RemoteKeys /\ \A n \in q.tombs : tombs[n] # NoTomb
    BY <1>1 DEF MountInv, DeletedInv, SameRemote
  <2> QED
    BY <1>1, <1>2, <2>1, <2>2 DEF MountInv, DeletedInv
<1> QED
  BY <1>1, <1>3, <1>4, <1>5, <1>6, <1>7, <1>8, StoreStays DEF HiddenInv, MountInv

(* accept_created_file, accept_namespace_item, accept_rename and           *)
(* accept_remove.                                                          *)
LEMMA AcceptStep ==
  ASSUME KeysAreDistinct, HiddenInv, Accept
  PROVE  HiddenInv'
<1>1. /\ local.pc = "accept" /\ local' = NoLocal
      /\ UNCHANGED <<table, backend, store, change, mount>>
  BY DEF Accept
<1>2. CASE ~Acceptable
  BY <1>1, <1>2, NotAccepted DEF Accept
<1>3. CASE Acceptable
  <2>1. overlay' = Accepted /\ refused' = refused
    BY <1>3 DEF Accept
  <2> PICK q, o : q = overlay' /\ o = overlay
    OBVIOUS
  <2>2. /\ Mounted /\ o \in Overlays /\ StoreTypes /\ StoreInv /\ LocalInv /\ LocalTypes
        /\ local # NoLocal
    BY <1>1, UnderWay DEF HiddenInv, Types, MountTypes, MountInv, NoLocal
  <2>3. /\ None \notin Keys /\ None \notin Names /\ None \notin items /\ None \notin creates
        /\ Keys = RemoteKeys \cup Files \cup Dirs /\ Files \cap Dirs = {}
    BY <2>2, KeyKinds DEF StoreTypes
  <2>4. \A n \in Names \ (refused \cup LocalNames) :
           /\ IF entry[n] \in items
              THEN o.nsName[n] = entry[n] /\ o.ns[entry[n]] # None
              ELSE o.nsName[n] = None
           /\ entry[n] \in creates \ items =>
                o.createdName[n] = entry[n] /\ entry[n] \in o.created
           /\ entry[n] \notin Pending => o.createdName[n] = None
    BY <1>1, <2>2 DEF HiddenInv, MountInv, LocalAgrees, Accepting, NamespaceAgrees, CreatedAgrees
  <2> PICK from, to, key, dest :
        from = local.from /\ to = local.to /\ key = local.key /\ dest = local.dest
    OBVIOUS
  <2>5. /\ key \in Keys /\ key # None /\ dest \in MaybeKeys /\ items \subseteq Keys
        /\ local.op \in {"create", "rename", "remove"}
        /\ \A m, n \in Names : entry[m] = entry[n] /\ entry[m] # None => m = n
    BY <2>2, <2>3 DEF LocalTypes, StoreInv, Unique, StoreTypes
  <2>6. CASE local.op = "create"
    <3>1. /\ to \in Names /\ LocalNames = {to} /\ entry[to] = key
          /\ key \in Files \cup Dirs /\ (to \in refused \/ o.nsName[to] = None)
          /\ IF key \in Files THEN key \in creates \ items ELSE key \in items
      BY <1>1, <2>2, <2>3, <2>6 DEF LocalTypes, LocalNames, LocalInv
    <3>2. \A m \in Names \ {to} : entry[m] # key
      BY <2>5, <3>1
    <3>3. CASE key \in Files
      <4>1. q = AcceptCreatedFile(o, key, to)
        BY <2>1, <2>3, <2>6, <3>3 DEF Accepted
      <4>2. /\ q \in Overlays /\ SameRemote(o, q)
            /\ q.ns = o.ns /\ q.nsName = o.nsName /\ q.deleted = o.deleted
            /\ q.tombs \subseteq o.tombs /\ q.created = o.created \cup {key}
            /\ q.createdName[to] = key
            /\ \A m \in Names \ {to} : q.createdName[m] = o.createdName[m]
        BY ONLY <2>2, <2>5, <3>1, <4>1, CreatedFileFacts
      <4>3. \A n \in Names \ refused :
              /\ IF entry[n] \in items
                 THEN q.nsName[n] = entry[n] /\ q.ns[entry[n]] # None
                 ELSE q.nsName[n] = None
              /\ entry[n] \in creates \ items =>
                   q.createdName[n] = entry[n] /\ entry[n] \in q.created
              /\ entry[n] \notin Pending => q.createdName[n] = None
        BY <2>4, <3>1, <3>3, <4>2 DEF Pending
      <4> QED
        BY <1>1, <2>1, <4>2, <4>3, Taken
    <3>4. CASE key \in Dirs
      <4>1. q = AcceptNamespaceCreate(o, key, to)
        BY <2>1, <2>3, <2>6, <3>4 DEF Accepted
      <4>2. /\ q \in Overlays /\ SameRemote(o, q)
            /\ q.created = o.created /\ q.createdName = o.createdName
            /\ q.deleted = o.deleted /\ q.tombs \subseteq o.tombs
            /\ q.ns[key] = to /\ \A l \in Keys \ {key} : q.ns[l] = o.ns[l]
            /\ q.nsName[to] = key /\ \A m \in Names \ {to} : q.nsName[m] = o.nsName[m]
        BY ONLY <2>2, <2>5, <3>1, <4>1, NamespaceCreateFacts
      <4>3. key \in items
        BY <2>3, <3>1, <3>4
      <4>4. \A n \in Names \ refused :
              /\ IF entry[n] \in items
                 THEN q.nsName[n] = entry[n] /\ q.ns[entry[n]] # None
                 ELSE q.nsName[n] = None
              /\ entry[n] \in creates \ items =>
                   q.createdName[n] = entry[n] /\ entry[n] \in q.created
              /\ entry[n] \notin Pending => q.createdName[n] = None
        BY <2>3, <2>4, <2>5, <3>1, <3>2, <4>2, <4>3 DEF Pending
      <4> QED
        BY <1>1, <2>1, <4>2, <4>4, Taken
    <3> QED
      BY <3>1, <3>3, <3>4
  <2>7. CASE local.op = "rename"
    <3>1. /\ from \in Names /\ to \in Names /\ from # to /\ LocalNames = {from, to}
          /\ entry[to] = key /\ entry[from] = None /\ tombs[from] # NoTomb
          /\ key \in items /\ \A l : l = dest /\ l # None => Gone(l)
      BY <1>1, <2>2, <2>3, <2>7 DEF LocalTypes, LocalNames, LocalInv
    <3>2. /\ \A m \in Names \ {to} : entry[m] # key
          /\ \A m \in Names : entry[m] # None => entry[m] # dest
      BY <2>5, <3>1 DEF Gone
    <3>3. q = AcceptRename(o, table, local)
      BY <2>1, <2>7 DEF Accepted
    <3>4. /\ local.key \in Keys /\ local.from \in Names /\ local.to \in Names
          /\ local.from # local.to /\ local.dest \in MaybeKeys
      BY <2>5, <3>1
    <3>5. /\ q \in Overlays /\ SameRemote(o, q) /\ q.created = o.created
          /\ q.deleted \subseteq o.deleted \cup ({local.dest} \ {None})
          /\ q.tombs \subseteq o.tombs \cup {local.from}
          /\ q.ns[local.key] = local.to
          /\ \A l \in Keys \ {local.key, local.dest} : q.ns[l] = o.ns[l]
          /\ q.nsName[local.from] = None /\ q.createdName[local.from] = None
          /\ q.nsName[local.to] = local.key
          /\ \A m \in Names \ {local.from, local.to} :
               q.nsName[m] = o.nsName[m] /\ q.createdName[m] = o.createdName[m]
      BY ONLY <2>2, <2>3, <3>3, <3>4, RenameFacts
    <3>6. \A n \in Names \ refused :
            /\ IF entry[n] \in items
               THEN q.nsName[n] = entry[n] /\ q.ns[entry[n]] # None
               ELSE q.nsName[n] = None
            /\ entry[n] \in creates \ items =>
                 q.createdName[n] = entry[n] /\ entry[n] \in q.created
            /\ entry[n] \notin Pending => q.createdName[n] = None
      BY <2>3, <2>4, <2>5, <3>1, <3>2, <3>5 DEF Pending
    <3>7. /\ \A l \in q.deleted : l \in o.deleted \/ Gone(l)
          /\ \A n \in q.tombs : n \in o.tombs \/ tombs[n] # NoTomb
      BY <3>1, <3>5
    <3> QED
      BY <1>1, <2>1, <3>5, <3>6, <3>7, Taken
  <2>8. CASE local.op = "remove"
    <3>1. /\ from \in Names /\ to = None /\ LocalNames = {from}
          /\ entry[from] = None /\ tombs[from] # NoTomb /\ \A l : l = key => Gone(l)
      BY <1>1, <2>2, <2>3, <2>8 DEF LocalTypes, LocalNames, LocalInv
    <3>2. \A m \in Names : entry[m] # key
      BY <3>1 DEF Gone
    <3>3. q = AcceptRemove(o, local)
      BY <2>1, <2>8 DEF Accepted
    <3>4. local.key \in Keys /\ local.from \in Names
      BY <2>5, <3>1
    <3>5. /\ q \in Overlays /\ SameRemote(o, q)
          /\ q.created = o.created /\ q.deleted = o.deleted \cup {local.key}
          /\ q.tombs = o.tombs \cup {local.from}
          /\ \A l \in Keys \ {local.key} : q.ns[l] = o.ns[l]
          /\ q.nsName[local.from] = None /\ q.createdName[local.from] = None
          /\ \A m \in Names \ {local.from} :
               q.nsName[m] = o.nsName[m] /\ q.createdName[m] = o.createdName[m]
      BY ONLY <2>2, <3>3, <3>4, RemoveFacts
    <3>6. \A n \in Names \ refused :
            /\ IF entry[n] \in items
               THEN q.nsName[n] = entry[n] /\ q.ns[entry[n]] # None
               ELSE q.nsName[n] = None
            /\ entry[n] \in creates \ items =>
                 q.createdName[n] = entry[n] /\ entry[n] \in q.created
            /\ entry[n] \notin Pending => q.createdName[n] = None
      BY <2>3, <2>4, <2>5, <3>1, <3>2, <3>5 DEF Pending
    <3>7. /\ \A l \in q.deleted : l \in o.deleted \/ Gone(l)
          /\ \A n \in q.tombs : n \in o.tombs \/ tombs[n] # NoTomb
      BY <3>1, <3>5
    <3> QED
      BY <1>1, <2>1, <3>5, <3>6, <3>7, Taken
  <2> QED
    BY <2>5, <2>6, <2>7, <2>8
<1> QED
  BY <1>2, <1>3

(* An operation whose answer is lost.                                      *)
LEMMA AnswerLostStep ==
  ASSUME HiddenInv, AnswerLost
  PROVE  HiddenInv'
BY NotAccepted DEF AnswerLost

-----------------------------------------------------------------------------
(* Remote changes.                                                         *)

(* A change is committed: the names D, about which no local mutation is    *)
(* pending, get the item k or nothing.                                     *)
LEMMA RemoteCommit ==
  ASSUME KeysAreDistinct, HiddenInv, Mounted, change = NoChange,
         NEW D \in SUBSET Names, NEW k \in RemoteKeys, k \notin items,
         \A n \in D : /\ SameEntry(n) /\ entry[n] \notin items
                      /\ entry'[n] = tree'[n] /\ entry'[n] \in {None, k},
         \A n \in Names \ D : /\ entry'[n] = entry[n] /\ tree'[n] = tree[n]
                              /\ entry[n] # k /\ tree[n] # k,
         \A m, n \in D : entry'[m] = k /\ entry'[n] = k => m = n,
         entry' \in [Names -> MaybeKeys], tree' \in Listings,
         ChangeTypes', ChangeInv', Changing' = D,
         UNCHANGED <<table, backend, overlay, creates, items, tombs, used, local, refused, mount>>
  PROVE  HiddenInv'
<1>1. Types /\ StoreTypes /\ StoreInv /\ MountInv /\ Changing = {}
  BY DEF HiddenInv, Types, Changing, NoChange
<1>2. /\ None \notin Keys /\ k # None /\ k \notin Files \cup Dirs
      /\ Keys = RemoteKeys \cup Files \cup Dirs
  BY KeyKinds
<1>3. k \notin Pending /\ None \notin items /\ None \notin creates
  BY <1>1, <1>2 DEF StoreTypes, Pending
<1>4. \A n \in D : entry[n] \notin creates /\ entry[n] \notin Pending /\ tombs[n] = NoTomb
  BY <1>1, <1>2, KeyKinds DEF StoreTypes, SameEntry, Listings, Pending
<1>5. Pending' = Pending
  BY DEF Pending
<1>6. \A n \in D : entry'[n] \notin items /\ entry'[n] \notin creates
  BY <1>3 DEF Pending
<1>7. Types'
  BY <1>1 DEF Types, StoreTypes, MountTypes, LocalTypes, Mounted
<1>8. \A l : Marked(l) => Marked(l)'
  BY <1>4 DEF Marked
<1>9. \A l : Gone(l) => Gone(l)'
  <2> SUFFICES ASSUME NEW l, Gone(l) PROVE Gone(l)'
    OBVIOUS
  <2>1. l # None
    BY <1>1, <1>2 DEF Gone, StoreTypes
  <2>2. l # k
    BY <1>4 DEF Gone, Marked
  <2>3. \A m \in Names : entry'[m] # l
    BY <2>1, <2>2 DEF Gone
  <2> QED
    BY <1>8, <2>3 DEF Gone
<1>10. StoreInv'
  <2>1. Unique(entry') /\ Unique(tree')
    BY <1>1 DEF StoreInv, Unique
  <2>2. \A l \in Pending' : \E m \in Names : entry'[m] = l
    BY <1>1, <1>4, <1>5 DEF StoreInv
  <2>3. \A m \in Names : entry'[m] \in used' \cup RemoteKeys \cup {None}
    BY <1>1 DEF StoreInv
  <2>4. \A m \in Names : entry'[m] \notin Pending' \cup {None} => SameEntry(m)'
    BY <1>1, <1>5 DEF StoreInv, SameEntry
  <2>5. \A l \in items' : Marked(l)'
    BY <1>1, <1>8 DEF StoreInv
  <2>6. \A m \in Names : \A l : tombs'[m].deletes /\ l = tombs'[m].key => Gone(l)'
    BY <1>1, <1>9 DEF StoreInv
  <2>7. (\A m \in Names : tombs[m].deletes => Gone(tombs[m].key))'
    BY ONLY <2>6 DEF Gone, Marked
  <2> QED
    BY <2>1, <2>2, <2>3, <2>4, <2>5, <2>7 DEF StoreInv
<1>11. Accepting' = Accepting
  BY DEF Accepting, LocalNames
<1>12. LocalInv'
  <2> SUFFICES ASSUME local.pc = "accept" PROVE LocalInv'
    BY DEF LocalInv
  <2>1. LocalInv /\ LocalTypes /\ local # NoLocal
    BY <1>1 DEF MountInv, Types, NoLocal
  <2>2. ASSUME local.op # "remove" PROVE entry'[local.to] = local.key
    <3>1. local.to \in Names /\ local.op \in {"create", "rename"}
      BY <2>1, <2>2 DEF LocalTypes
    <3>2. entry[local.to] = local.key /\ local.key \in Pending
      BY <2>1, <2>2, <3>1 DEF LocalInv, Pending
    <3> QED
      BY <1>4, <3>1, <3>2
  <2>3. ASSUME local.op # "create" PROVE entry'[local.from] = None
    <3>1. local.from \in Names
      BY <2>1, <2>3 DEF LocalTypes
    <3>2. entry[local.from] = None /\ tombs[local.from] # NoTomb
      BY <2>1, <2>3 DEF LocalInv
    <3> QED
      BY <1>4, <3>1, <3>2
  <2>4. \A l : /\ local.op = "rename" /\ l = local.dest /\ l # None => Gone(l)'
               /\ local.op = "remove" /\ l = local.key => Gone(l)'
    BY <1>9, <2>1 DEF LocalInv
  <2> QED
    BY <2>1, <2>2, <2>3, <2>4 DEF LocalInv, Gone, Marked
<1>13. LocalAgrees'
  <2> SUFFICES ASSUME NEW n \in Names \ (refused' \cup Accepting')
               PROVE  NamespaceAgrees(n)' /\ CreatedAgrees(n)'
    BY DEF LocalAgrees
  <2>1. NamespaceAgrees(n) /\ CreatedAgrees(n)
    BY <1>1, <1>11 DEF MountInv, LocalAgrees
  <2>2. CASE n \in D
    BY <1>4, <1>6, <2>1, <2>2 DEF NamespaceAgrees, CreatedAgrees
  <2>3. CASE n \notin D
    BY <1>5, <2>1, <2>3 DEF NamespaceAgrees, CreatedAgrees
  <2> QED
    BY <2>2, <2>3
<1>14. ListingAgrees'
  BY <1>1, <1>5 DEF MountInv, ListingAgrees, RemoteAgrees, StaysRemote
<1>15. DeletedInv'
  BY <1>1, <1>9 DEF MountInv, DeletedInv
<1> QED
  BY <1>7, <1>10, <1>12, <1>13, <1>14, <1>15 DEF HiddenInv, MountInv

(* A new remote item, a move or an update in place.                        *)
LEMMA CommitUpsertStep ==
  ASSUME KeysAreDistinct, HiddenInv, NEW k \in RemoteKeys, NEW n \in Names, CommitUpsert(k, n)
  PROVE  HiddenInv'
<1> PICK prev, replaced :
      /\ prev = IF k \in KeysOf(tree) /\ tree[n] # k THEN NameOf(tree, k) ELSE None
      /\ replaced = IF tree[n] = k THEN None ELSE tree[n]
  OBVIOUS
<1>1. /\ Mounted /\ change = NoChange /\ Untouched(k) /\ SameEntry(n)
      /\ prev # None => SameEntry(prev)
      /\ replaced # None => Untouched(replaced)
      /\ tree' = [m \in Names |-> IF m = n THEN k ELSE IF m = prev THEN None ELSE tree[m]]
      /\ entry' = [m \in Names |-> IF m = n THEN k ELSE IF m = prev THEN None ELSE entry[m]]
      /\ change' = [pc |-> "lookup", op |-> "upsert", key |-> k, name |-> n,
                    prev |-> prev, replaced |-> replaced]
      /\ UNCHANGED <<table, backend, overlay, creates, items, tombs, used, local, refused, mount>>
  BY Zenon DEF CommitUpsert
<1>2. StoreTypes /\ StoreInv
  BY DEF HiddenInv, Types
<1>3. /\ None \notin Keys /\ None \notin Names /\ k # None /\ k \in Keys
      /\ k \notin Files \cup Dirs
  BY KeyKinds
<1>4. k \notin Pending /\ k \notin items
  BY <1>1, <1>2, <1>3 DEF StoreTypes, Pending, Untouched
<1>5. /\ prev \in MaybeNames /\ prev # n /\ (prev # None => tree[prev] = k)
      /\ (k \in KeysOf(tree) /\ tree[n] # k => prev # None)
  BY <1>3, NameOfFacts DEF MaybeNames
<1>6. replaced \in RemoteKeys \cup {None} /\ replaced # k
  BY <1>2, <1>3 DEF StoreTypes, Listings
<1> PICK D : D = {n, prev} \ {None}
  OBVIOUS
<1>7. D \in SUBSET Names /\ n \in D /\ (prev # None => prev \in D)
  BY <1>3, <1>5 DEF MaybeNames
<1>8. \A m \in D : /\ SameEntry(m) /\ entry[m] \notin items
                   /\ entry'[m] = tree'[m] /\ entry'[m] \in {None, k}
  <2>1. entry[n] \notin items
    BY <1>1, <1>2, <1>3, <1>4 DEF SameEntry, Untouched, StoreTypes
  <2>2. prev # None => entry[prev] \notin items
    BY <1>1, <1>4, <1>5 DEF SameEntry
  <2> QED
    BY <1>1, <1>7, <2>1, <2>2
<1>9. \A m \in Names \ D : tree[m] # k /\ entry[m] # k
  <2> SUFFICES ASSUME NEW m \in Names, m \notin D, tree[m] = k \/ entry[m] = k PROVE FALSE
    OBVIOUS
  <2>1. tree[m] = k
    BY <1>2, <1>3, <1>4 DEF StoreInv, SameEntry
  <2>2. k \in KeysOf(tree)
    BY <1>3, <2>1 DEF KeysOf
  <2>3. tree[n] = k \/ (tree[prev] = k /\ prev \in D)
    BY <1>5, <1>7, <2>2
  <2> QED
    BY <1>2, <1>3, <1>5, <1>7, <2>1, <2>3 DEF StoreInv, Unique
<1>10. /\ \A m \in Names \ D : entry'[m] = entry[m] /\ tree'[m] = tree[m]
       /\ \A l, m \in D : entry'[l] = k /\ entry'[m] = k => l = m
  BY <1>1, <1>3, <1>7
<1>11. entry' \in [Names -> MaybeKeys] /\ tree' \in Listings
  BY <1>1, <1>2, <1>3 DEF StoreTypes, MaybeKeys, Listings
<1>12. /\ change'.pc = "lookup" /\ change'.op = "upsert" /\ change'.key = k
       /\ change'.name = n /\ change'.prev = prev /\ change'.replaced = replaced
  BY <1>1
<1>13. ChangeTypes'
  BY <1>1, <1>5, <1>6, <1>12 DEF ChangeTypes, Mounted
<1>14. Changing' = D
  BY <1>12 DEF Changing, ChangeNames
<1>15. \A m \in Names : entry'[m] # None => entry'[m] # replaced
  <2> SUFFICES ASSUME NEW m \in Names, entry'[m] # None, entry'[m] = replaced PROVE FALSE
    OBVIOUS
  <2>1. m \notin D /\ entry[m] = tree[n]
    BY <1>6, <1>8, <1>10
  <2> QED
    BY <1>1, <1>2, <1>7, <1>10, <2>1 DEF SameEntry, StoreInv, Unique
<1>16. ChangeInv'
  <2>1. tree'[n] = k /\ (prev # None => tree'[prev] = None)
    BY <1>1, <1>5 DEF MaybeNames
  <2> QED
    BY <1>12, <1>15, <2>1 DEF ChangeInv
<1>17. \A m \in Names \ D : /\ entry'[m] = entry[m] /\ tree'[m] = tree[m]
                              /\ entry[m] # k /\ tree[m] # k
  BY <1>9, <1>10
<1>18. /\ Mounted /\ change = NoChange
       /\ UNCHANGED <<table, backend, overlay, creates, items, tombs, used, local, refused, mount>>
  BY <1>1
<1> QED
  BY ONLY KeysAreDistinct, HiddenInv, k \in RemoteKeys, <1>4, <1>7, <1>8, <1>10, <1>11, <1>13,
          <1>14, <1>16, <1>17, <1>18, RemoteCommit

(* A remote deletion.                                                      *)
LEMMA CommitDeleteStep ==
  ASSUME KeysAreDistinct, HiddenInv, NEW n \in Names, CommitDelete(n)
  PROVE  HiddenInv'
<1> PICK k : k = tree[n]
  OBVIOUS
<1>1. /\ Mounted /\ change = NoChange /\ k # None /\ Untouched(k) /\ SameEntry(n)
      /\ tree' = [tree EXCEPT ![n] = None] /\ entry' = [entry EXCEPT ![n] = None]
      /\ change' = [pc |-> "lookup", op |-> "delete", key |-> k, name |-> n,
                    prev |-> None, replaced |-> None]
      /\ UNCHANGED <<table, backend, overlay, creates, items, tombs, used, local, refused, mount>>
  BY DEF CommitDelete
<1>2. StoreTypes /\ StoreInv /\ k \in RemoteKeys /\ k \notin items
  BY <1>1 DEF HiddenInv, Types, StoreTypes, Listings, Untouched
<1>3. None \notin Keys /\ None \notin Names
  BY KeyKinds
<1>4. /\ tree'[n] = None /\ entry'[n] = None /\ entry[n] = k /\ tree[n] = k
      /\ \A m \in Names \ {n} : tree'[m] = tree[m] /\ entry'[m] = entry[m]
      /\ entry' \in [Names -> MaybeKeys] /\ tree' \in Listings
  BY <1>1, <1>2 DEF StoreTypes, Listings, MaybeKeys, SameEntry
<1>5. \A m \in Names \ {n} : entry[m] # k /\ tree[m] # k
  BY <1>1, <1>2, <1>4 DEF StoreInv, Unique
<1>6. /\ change'.pc = "lookup" /\ change'.op = "delete" /\ change'.key = k
      /\ change'.name = n /\ change'.prev = None /\ change'.replaced = None
  BY <1>1
<1>7. ChangeTypes'
  BY <1>1, <1>2, <1>3, <1>6 DEF ChangeTypes, Mounted, MaybeNames
<1>8. ChangeInv' /\ Changing' = {n}
  BY <1>1, <1>3, <1>4, <1>5, <1>6 DEF ChangeInv, Changing, ChangeNames
<1>9. \A m \in {n} : /\ SameEntry(m) /\ entry[m] \notin items
                     /\ entry'[m] = tree'[m] /\ entry'[m] \in {None, k}
  BY <1>1, <1>2, <1>4
<1>10. {n} \in SUBSET Names /\ \A l, m \in {n} : l = m
  OBVIOUS
<1> QED
  BY <1>1, <1>2, <1>4, <1>5, <1>7, <1>8, <1>9, <1>10, RemoteCommit

(* A change that is applied: only the remote index changes.                *)
LEMMA Applied ==
  ASSUME HiddenInv, change.pc # "none", change' = NoChange,
         UNCHANGED <<table, backend, store, local, refused, mount>>,
         NEW q \in Overlays, q = overlay', SameLocal(overlay, q),
         q.remoteDeleted \subseteq RemoteKeys,
         \A n \in Names \ refused :
           /\ entry[n] \notin Pending \cup {None} =>
                \/ q.remoteName[n] = entry[n] /\ q.remote[entry[n]] # None
                \/ q.remoteName[n] = None /\ n \notin q.remoteTombs /\ backend[n] = entry[n]
           /\ entry[n] \notin items => entry[n] \notin q.remoteDeleted
  PROVE  HiddenInv'
<1>1. Mounted /\ Types /\ StoreInv /\ MountInv
  BY UnderWay DEF HiddenInv
<1>2. /\ entry' = entry /\ tree' = tree /\ creates' = creates /\ items' = items
      /\ tombs' = tombs /\ used' = used
  BY DEF store
<1>3. ChangeInv' /\ Changing' = {} /\ ChangeTypes'
  BY NothingToApply
<1>4. LocalInv' /\ Accepting' = Accepting /\ LocalTypes'
  <2>1. q.nsName = overlay.nsName
    BY DEF SameLocal
  <2> QED
    BY <1>1, <1>2, <2>1
    DEF Types, MountInv, LocalInv, LocalTypes, Accepting, LocalNames, Mounted, Gone, Marked
<1>5. Types'
  BY <1>1, <1>3, <1>4, StoreTypesStay DEF Types, MountTypes
<1>6. LocalAgrees'
  BY <1>1, <1>2, <1>4
  DEF MountInv, LocalAgrees, NamespaceAgrees, CreatedAgrees, SameLocal, Pending
<1>7. ListingAgrees'
  BY <1>1, <1>2, <1>3 DEF ListingAgrees, RemoteAgrees, StaysRemote, Pending
<1>8. DeletedInv'
  BY <1>1, <1>2, GoneStays DEF MountInv, DeletedInv, SameLocal
<1> QED
  BY <1>1, <1>3, <1>4, <1>5, <1>6, <1>7, <1>8, StoreStays DEF HiddenInv, MountInv

(* apply_remote_upsert and apply_remote_delete.                            *)
LEMMA ApplyStep ==
  ASSUME KeysAreDistinct, HiddenInv, Apply
  PROVE  HiddenInv'
<1>1. /\ change.pc = "apply" /\ change' = NoChange
      /\ UNCHANGED <<table, backend, store, local, mount>>
  BY DEF Apply
<1>2. CASE ~Fits(overlay, change)
  BY <1>1, <1>2, NotApplied DEF Apply
<1>3. CASE Fits(overlay, change)
  <2>1. overlay' = ApplyChange(overlay, change) /\ refused' = refused
    BY <1>3 DEF Apply
  <2> PICK q, o, c : q = overlay' /\ o = overlay /\ c = change
    OBVIOUS
  <2>2. /\ Mounted /\ o \in Overlays /\ StoreTypes /\ StoreInv /\ MountInv
        /\ c.op \in {"upsert", "delete"} /\ c.key \in RemoteKeys /\ c.name \in Names
        /\ c.prev \in MaybeNames /\ c.replaced \in RemoteKeys \cup {None}
    BY <1>1, UnderWay DEF HiddenInv, Types, MountTypes, ChangeTypes, NoChange
  <2>3. /\ None \notin Keys /\ None \notin Names /\ c.key \in Keys
        /\ c.replaced \in MaybeKeys /\ c.key # None
        /\ RemoteKeys \cap (Files \cup Dirs) = {}
    BY <2>2, KeyKinds DEF MaybeKeys
  <2>4. o.remoteDeleted \subseteq RemoteKeys
    BY <2>2 DEF MountInv, DeletedInv
  <2>5. \A m \in Names \ (refused \cup {c.name, c.prev}) :
          /\ entry[m] \notin Pending \cup {None} =>
               \/ o.remoteName[m] = entry[m] /\ o.remote[entry[m]] # None
               \/ o.remoteName[m] = None /\ m \notin o.remoteTombs /\ backend[m] = entry[m]
          /\ entry[m] \notin items => entry[m] \notin o.remoteDeleted
    BY <1>1, <2>2
    DEF MountInv, ListingAgrees, Changing, ChangeNames, RemoteAgrees, StaysRemote
  <2>6. /\ \A m \in Names : entry[m] \notin Pending \cup {None} =>
             entry[m] = tree[m] /\ entry[m] \in Keys
        /\ \A m \in Names : entry[m] # None => entry[m] # c.replaced
    BY <1>1, <2>2 DEF StoreInv, SameEntry, StoreTypes, MaybeKeys, MountInv, ChangeInv
(* An item that is no item of the remote side is not among the deleted ones. *)
  <2>7. ASSUME q \in Overlays, q.remoteDeleted \subseteq RemoteKeys \cup {None}
        PROVE  /\ q.remoteDeleted \subseteq RemoteKeys
               /\ \A m \in Names : entry[m] \in creates \cup {None} =>
                    entry[m] \notin q.remoteDeleted
    <3>1. None \notin q.remoteDeleted
      BY <2>3, <2>7 DEF Overlays
    <3> QED
      BY <2>2, <2>3, <2>7, <3>1 DEF StoreTypes
  <2>8. CASE c.op = "delete"
    <3>1. /\ \A m \in Names : entry[m] # c.key
          /\ tree[c.name] = None /\ c.prev = None
      BY <1>1, <2>2, <2>8 DEF MountInv, ChangeInv
    <3>2. q = RemoteDrops(o, c.key, c.name)
      BY <2>1, <2>8 DEF ApplyChange
    <3>3. IsDropped(q, o, c.key, c.name)
      BY ONLY <2>2, <2>3, <3>2, DropFacts
    <3>4. /\ q \in Overlays /\ SameLocal(o, q)
          /\ \A l \in Keys \ {c.key} : q.remote[l] = o.remote[l]
          /\ q.remoteDeleted = o.remoteDeleted \cup {c.key}
          /\ q.remoteTombs = o.remoteTombs \cup {c.name}
          /\ \A m \in Names \ {c.name} : q.remoteName[m] = o.remoteName[m]
      BY ONLY <3>3 DEF IsDropped
    <3>5. /\ q.remoteDeleted \subseteq RemoteKeys
          /\ \A m \in Names : entry[m] \in creates \cup {None} =>
               entry[m] \notin q.remoteDeleted
      BY <2>2, <2>4, <2>7, <3>4
    <3>6. ASSUME NEW m \in Names \ refused
          PROVE  /\ entry[m] \notin Pending \cup {None} =>
                      \/ q.remoteName[m] = entry[m] /\ q.remote[entry[m]] # None
                      \/ /\ q.remoteName[m] = None /\ m \notin q.remoteTombs
                         /\ backend[m] = entry[m]
                 /\ entry[m] \notin items => entry[m] \notin q.remoteDeleted
      <4>1. CASE m = c.name
        BY <2>6, <3>1, <3>5, <4>1 DEF Pending
      <4>2. CASE m # c.name
        <5>1. m \in Names \ (refused \cup {c.name, c.prev})
          BY <2>3, <3>1, <4>2
        <5> QED
          BY <2>5, <2>6, <3>1, <3>4, <4>2, <5>1
      <4> QED
        BY <4>1, <4>2
    <3> QED
      BY <1>1, <2>1, <3>4, <3>5, <3>6, Applied
  <2>9. CASE c.op = "upsert"
    <3>1. /\ tree[c.name] = c.key /\ (c.prev # None => tree[c.prev] = None)
      BY <1>1, <2>2, <2>9 DEF MountInv, ChangeInv
    <3>2. q = ApplyUpsert(o, c)
      BY <2>1, <2>9 DEF ApplyChange
    <3>3. IsUpserted(q, o, c)
      BY ONLY <2>2, <2>3, <3>2, UpsertFacts
    <3>4. /\ q \in Overlays /\ SameLocal(o, q)
          /\ q.remoteName[c.name] = c.key /\ q.remote[c.key] = c.name
          /\ \A l \in Keys \ {c.key, c.replaced} : q.remote[l] = o.remote[l]
          /\ c.name \notin q.remoteTombs
          /\ \A m \in Names \ {c.name, c.prev} :
               q.remoteName[m] = o.remoteName[m] /\ (m \in q.remoteTombs => m \in o.remoteTombs)
          /\ q.remoteDeleted \subseteq (o.remoteDeleted \cup {c.replaced}) \ {c.key}
      BY ONLY <3>3 DEF IsUpserted
    <3>5. /\ q.remoteDeleted \subseteq RemoteKeys
          /\ \A m \in Names : entry[m] \in creates \cup {None} =>
               entry[m] \notin q.remoteDeleted
      BY <2>2, <2>4, <2>7, <3>4
    <3>6. \A m \in Names : tree[m] = c.key => m = c.name
      BY <2>2, <2>3, <3>1 DEF StoreInv, Unique
    <3>7. ASSUME NEW m \in Names \ refused
          PROVE  /\ entry[m] \notin Pending \cup {None} =>
                      \/ q.remoteName[m] = entry[m] /\ q.remote[entry[m]] # None
                      \/ /\ q.remoteName[m] = None /\ m \notin q.remoteTombs
                         /\ backend[m] = entry[m]
                 /\ entry[m] \notin items => entry[m] \notin q.remoteDeleted
      <4>1. CASE entry[m] \in Pending \cup {None}
        BY <3>5, <4>1 DEF Pending
      <4>2. CASE entry[m] \notin Pending \cup {None}
        <5>1. entry[m] = tree[m] /\ entry[m] \in Keys /\ entry[m] # c.replaced
          BY <2>6, <4>2
        <5>2. CASE m = c.name
          BY <2>2, <2>3, <3>1, <3>4, <5>1, <5>2
        <5>3. CASE m # c.name
          <6>1. m # c.prev
            BY <2>3, <3>1, <4>2, <5>1
          <6>2. entry[m] # c.key /\ entry[m] \notin items
            BY <3>6, <4>2, <5>1, <5>3 DEF Pending
          <6> QED
            BY <2>5, <3>4, <4>2, <5>1, <5>3, <6>1, <6>2
        <5> QED
          BY <5>2, <5>3
      <4> QED
        BY <4>1, <4>2
    <3> QED
      BY <1>1, <2>1, <3>4, <3>5, <3>7, Applied
  <2> QED
    BY <2>2, <2>8, <2>9
<1> QED
  BY <1>2, <1>3

-----------------------------------------------------------------------------
(* A new mount, from what the store has.                                   *)

(* A new mount rebuilds the indices from the store, or does not come up.   *)
LEMMA RemountStep ==
  ASSUME KeysAreDistinct, HiddenInv, Remount
  PROVE  HiddenInv'
<1>1. /\ backend' = tree /\ table' = KeysOf(tree) /\ UNCHANGED store
      /\ local' = NoLocal /\ change' = NoChange /\ refused' = {}
  BY DEF Remount
<1>2. StoreTypes /\ StoreInv
  BY DEF HiddenInv, Types
<1>3. StoreTypes' /\ StoreInv' /\ LocalTypes' /\ ChangeTypes' /\ LocalInv' /\ ChangeInv'
  BY <1>1, <1>2, StoreStays, NothingToAccept, NothingToApply DEF StoreTypes, store
<1>4. /\ None \notin Keys /\ None \notin Names
      /\ Keys = RemoteKeys \cup Files \cup Dirs
  BY KeyKinds
<1>5. KeysOf(tree) \subseteq Keys /\ tree \in Listings
  BY <1>2, <1>4 DEF StoreTypes, Listings, KeysOf
<1>6. CASE mount' = "failed" /\ overlay' = NoOverlay
  <2>1. MountTypes' /\ ~Mounted'
    BY <1>1, <1>5, <1>6, NoOverlayFacts DEF MountTypes, Mounted
  <2> QED
    BY <1>3, <2>1 DEF HiddenInv, Types
<1>7. CASE /\ mount' = "up"
           /\ \E passed \in {{}, PassedEntries} :
                overlay' = RestoreCreated(RestoreRemote(RestoreNamespace, passed))
  <2>1. PICK passed \in {{}, PassedEntries} :
          overlay' = RestoreCreated(RestoreRemote(RestoreNamespace, passed))
    BY <1>7
  <2>2. passed \subseteq KeysOf(tree)
    BY DEF PassedEntries
  <2>3. items \subseteq KeysOf(entry)
    BY <1>2, <1>4 DEF StoreInv, Pending, KeysOf, StoreTypes
  <2>4. \A n \in Names : tombs[n].deletes => tombs[n].key \in Keys
    BY <1>2, <1>4 DEF StoreInv, Gone, StoreTypes
  <2>5. PICK q : q = overlay'
    OBVIOUS
  <2>6. IsRestored(q, passed)
    BY <1>2, <2>1, <2>2, <2>3, <2>4, <2>5, RestoredFacts
  <2>7. /\ q \in Overlays /\ q.remoteTombs = {} /\ q.remoteDeleted = {}
        /\ q.tombs = {n \in Names : tombs[n] # NoTomb}
        /\ q.deleted = {tombs[n].key : n \in {m \in Names : tombs[m].deletes}}
        /\ q.created = creates
        /\ \A k \in items : q.ns[k] \in Names
        /\ \A k \in passed : q.remote[k] \in Names
        /\ \A n \in Names :
             /\ q.nsName[n] = IF entry[n] \in items THEN entry[n] ELSE None
             /\ q.createdName[n] = IF entry[n] \in creates THEN entry[n] ELSE None
             /\ q.remoteName[n] = IF tree[n] \in passed THEN tree[n] ELSE None
    BY ONLY <2>6 DEF IsRestored
  <2>8. /\ entry' = entry /\ tree' = tree /\ creates' = creates /\ items' = items
        /\ tombs' = tombs /\ used' = used
    BY <1>1 DEF store
  <2>9. LocalAgrees'
    BY <1>4, <2>5, <2>7, <2>8 DEF LocalAgrees, NamespaceAgrees, CreatedAgrees, Pending
  <2>10. ListingAgrees'
    <3> SUFFICES ASSUME NEW n \in Names PROVE RemoteAgrees(n)' /\ StaysRemote(n)'
      BY DEF ListingAgrees
    <3>1. entry[n] \notin Pending \cup {None} => entry[n] = tree[n]
      BY <1>2 DEF StoreInv, SameEntry
    <3> QED
      BY <1>1, <1>4, <2>5, <2>7, <2>8, <3>1 DEF RemoteAgrees, StaysRemote, Pending
  <2>11. DeletedInv'
    <3>1. \A l \in q.deleted : Gone(l)'
      <4> SUFFICES ASSUME NEW l \in q.deleted PROVE Gone(l)'
        OBVIOUS
      <4>1. Gone(l)
        BY <1>2, <2>7 DEF StoreInv
      <4> QED
        BY <1>1, <4>1, GoneStays
    <3>2. \A n \in Names : tree[n] \in KeysOf(tree) \cup {None}
      BY DEF KeysOf
    <3> QED
      BY <1>1, <2>5, <2>7, <2>8, <3>1, <3>2 DEF DeletedInv
  <2>12. MountTypes'
    BY <1>1, <1>5, <1>7, <2>5, <2>7 DEF MountTypes
  <2> QED
    BY <1>3, <2>9, <2>10, <2>11, <2>12 DEF HiddenInv, Types, MountInv
<1> QED
  BY <1>6, <1>7 DEF Remount, Mounted

-----------------------------------------------------------------------------
(* Every step of the mount, of the store and of the product keeps it.      *)
LEMMA NextHides ==
  ASSUME KeysAreDistinct, HiddenInv, [Next]_vars
  PROVE  HiddenInv'
<1>1. ASSUME NEW k \in Files \cup Dirs, NEW n \in Names, Create(k, n) PROVE HiddenInv'
  BY <1>1, CreateStep
<1>2. ASSUME NEW op \in {"rename", "remove"}, NEW n \in Names, NEW m \in Names \cup {None},
             LookupSource(op, n, m)
      PROVE  HiddenInv'
  BY <1>2, LookupSourceStep DEF MaybeNames
<1>3. CASE LookupDestination
  BY <1>3, LookupDestinationStep
<1>4. CASE StoreCommits
  BY <1>4, StoreCommitsStep
<1>5. CASE StoreRefuses
  BY <1>5, StoreRefusesStep
<1>6. CASE AnswerLost
  BY <1>6, AnswerLostStep
<1>7. CASE Accept
  BY <1>7, AcceptStep
<1>8. ASSUME NEW k \in Base \cup Arrivals, NEW n \in Names, CommitUpsert(k, n) PROVE HiddenInv'
  BY <1>8, CommitUpsertStep DEF RemoteKeys
<1>9. ASSUME NEW n \in Names, CommitDelete(n) PROVE HiddenInv'
  BY <1>9, CommitDeleteStep
<1>10. CASE LookupTarget
  <2>1. change.pc # "none"
    BY <1>10 DEF LookupTarget
  <2> PICK next \in {"previous", "apply"} :
          next = IF change.prev = None THEN "apply" ELSE "previous"
    OBVIOUS
  <2>2. /\ \/ change' = [change EXCEPT !.pc = next] /\ refused' = refused
           \/ change' = NoChange /\ refused' = refused \cup ChangeNames
        /\ UNCHANGED <<table, backend, overlay, store, local, mount>>
    BY <1>10, Zenon DEF LookupTarget, Validate
  <2> QED
    BY <2>1, <2>2, ValidateStep
<1>11. CASE LookupPrevious
  <2>1. change.pc # "none"
    BY <1>11 DEF LookupPrevious
  <2>2. /\ \/ change' = [change EXCEPT !.pc = "apply"] /\ refused' = refused
           \/ change' = NoChange /\ refused' = refused \cup ChangeNames
        /\ UNCHANGED <<table, backend, overlay, store, local, mount>>
    BY <1>11, Zenon DEF LookupPrevious, Validate
  <2> QED
    BY <2>1, <2>2, ValidateStep
<1>12. CASE Apply
  BY <1>12, ApplyStep
<1>13. CASE Remount
  BY <1>13, RemountStep
<1>14. CASE UNCHANGED vars
  <2>1. UNCHANGED <<table, backend, overlay, entry, tree, creates, items, tombs, used,
                    local, change, refused, mount>>
    BY <1>14 DEF vars
  <2>2. UNCHANGED store
    BY <2>1 DEF store
  <2>3. Types'
    BY <2>1 DEF HiddenInv, Types, StoreTypes, MountTypes, LocalTypes, ChangeTypes, Mounted
  <2>4. CASE Mounted
    <3>1. LocalInv' /\ Accepting' = Accepting /\ ChangeInv' /\ Changing' = Changing
      BY <2>1, <2>2, <2>4, LocalStays, ChangeStays
    <3> QED
      BY <2>1, <2>2, <2>3, <3>1, Quiet
  <2>5. CASE ~Mounted
    BY <2>1, <2>2, <2>3, <2>5, StoreStays DEF HiddenInv, Mounted
  <2> QED
    BY <2>4, <2>5
<1> QED
  BY <1>1, <1>2, <1>3, <1>4, <1>5, <1>6, <1>7, <1>8, <1>9, <1>10, <1>11, <1>12, <1>13, <1>14
  DEF Next

-----------------------------------------------------------------------------
(* What the overlay refuses of what the store committed.                   *)

(* The overlay has local entries of items that were created or remote ones *)
(* only.                                                                   *)
Known(o) ==
  /\ o.created \cup o.createdKeys \subseteq used
  /\ \A k \in Keys : o.ns[k] # None => k \in used \cup RemoteKeys

(* A created item that awaits the overlay is new to it, and so is its      *)
(* name; a rename's new name is that of the item it replaces.              *)
AwaitInv == local.pc = "accept" =>
  /\ local.op = "create" =>
       /\ local.key \notin overlay.created \cup overlay.createdKeys
       /\ overlay.ns[local.key] = None
  /\ local.to \notin refused =>
       /\ local.op = "create" =>
            overlay.nsName[local.to] = None /\ overlay.createdName[local.to] = None
       /\ local.op = "rename" => IndexedAt(overlay, local.to) \in {None, local.dest}

ReasonInv ==
  /\ Mounted => table \subseteq RemoteKeys /\ Known(overlay) /\ AwaitInv
  /\ OnlyRenamesFail

(* What is asked of a create then holds; only a replaced item is in the    *)
(* way of a rename.                                                        *)
LEMMA ReasonInvExplains ==
  ASSUME KeysAreDistinct, HiddenInv, ReasonInv
  PROVE  OnlyReplacementsAreRefused
<1> SUFFICES ASSUME Mounted, local.pc = "accept", ~Acceptable, local.to \notin refused
             PROVE  /\ local.op = "rename" /\ local.dest # None
                    /\ IndexedAt(overlay, local.to) = local.dest
  BY DEF OnlyReplacementsAreRefused
<1>1. /\ AwaitInv /\ table \subseteq RemoteKeys /\ LocalTypes /\ local # NoLocal
  BY DEF ReasonInv, HiddenInv, Types, NoLocal
<1>2. /\ RemoteKeys \cap (Files \cup Dirs) = {} /\ Files \cap Dirs = {}
  BY KeyKinds
<1>3. local.op \in {"create", "rename", "remove"}
  BY <1>1 DEF LocalTypes
<1>4. CASE local.op = "create"
  <2>1. local.key \in Files \cup Dirs /\ local.key \notin table
    BY <1>1, <1>2, <1>4 DEF LocalTypes
  <2>2. CASE local.key \in Files
    BY <1>1, <1>2, <1>4, <2>1, <2>2 DEF AwaitInv, Acceptable, UniqueCreatedFile
  <2>3. CASE local.key \in Dirs
    BY <1>1, <1>2, <1>4, <2>1, <2>3 DEF AwaitInv, Acceptable, UniqueNamespaceItem, IndexedAt
  <2> QED
    BY <2>1, <2>2, <2>3
<1>5. CASE local.op = "rename"
  BY <1>1, <1>5 DEF AwaitInv, Acceptable, UniqueNamespaceItem
<1>6. CASE local.op = "remove"
  BY <1>6 DEF Acceptable
<1> QED
  BY <1>3, <1>4, <1>5, <1>6

(* Local operations index created files by key when they create them only. *)
LEMMA CreatedKeysFacts ==
  ASSUME NEW o \in Overlays
  PROVE  /\ \A k, n : AcceptCreatedFile(o, k, n).createdKeys = o.createdKeys \cup {k}
         /\ \A k, n : AcceptNamespaceCreate(o, k, n).createdKeys = o.createdKeys
         /\ \A r : AcceptRemove(o, r).createdKeys = o.createdKeys
         /\ \A known, r : AcceptRename(o, known, r).createdKeys \subseteq o.createdKeys
<1>1. \A k, n : AcceptCreatedFile(o, k, n).createdKeys = o.createdKeys \cup {k}
  BY Zenon DEF AcceptCreatedFile, Overlays
<1>2. \A k, n : AcceptNamespaceCreate(o, k, n).createdKeys = o.createdKeys
  BY Zenon DEF AcceptNamespaceCreate, Overlays
<1>3. \A r : AcceptRemove(o, r).createdKeys = o.createdKeys
  BY Zenon DEF AcceptRemove, Overlays
<1>4. \A known, r : AcceptRename(o, known, r).createdKeys \subseteq o.createdKeys
  BY DEF AcceptRename, DropReplaced, Overlays
<1> QED
  BY <1>1, <1>2, <1>3, <1>4

(* A step that accepts nothing and commits nothing local.                  *)
LEMMA ReasonStays ==
  ASSUME ReasonInv, HiddenInv, Mounted, UNCHANGED <<table, used, mount>>,
         NEW q \in Overlays, q = overlay', SameLocal(overlay, q), refused \subseteq refused',
         local' = local \/ local'.pc # "accept"
  PROVE  ReasonInv'
<1>1. table \subseteq RemoteKeys /\ Known(overlay) /\ AwaitInv
  BY DEF ReasonInv
<1>2. mount' = "up"
  BY DEF Mounted
<1>3. Known(overlay)'
  BY <1>1 DEF Known, SameLocal
<1>4. AwaitInv'
  BY <1>1 DEF AwaitInv, SameLocal, IndexedAt
<1> QED
  BY <1>1, <1>2, <1>3, <1>4 DEF ReasonInv, OnlyRenamesFail

(* A create commits a new key, under a name that nothing is indexed under. *)
LEMMA CreateAwaits ==
  ASSUME KeysAreDistinct, HiddenInv, ReasonInv, NEW k \in Files \cup Dirs, NEW n \in Names,
         Create(k, n)
  PROVE  ReasonInv'
<1>1. /\ Mounted /\ local = NoLocal /\ k \notin used /\ entry[n] = None
      /\ used' = used \cup {k} /\ UNCHANGED <<table, overlay, refused, mount>>
  BY DEF Create
<1>2. local' = [pc |-> "accept", op |-> "create", key |-> k, from |-> None, to |-> n,
                dest |-> None]
  BY DEF Create
<1>3. /\ StoreTypes /\ LocalAgrees /\ table \subseteq RemoteKeys /\ Known(overlay)
  BY <1>1 DEF ReasonInv, HiddenInv, Types, MountInv
<1>4. k \in Keys /\ k \notin RemoteKeys /\ None \notin Keys
  BY KeyKinds
<1>5. None \notin items /\ None \notin creates
  BY <1>3, <1>4 DEF StoreTypes, Keys
<1>6. n \notin refused => overlay.nsName[n] = None /\ overlay.createdName[n] = None
  BY <1>1, <1>3, <1>5
  DEF LocalAgrees, Accepting, NoLocal, NamespaceAgrees, CreatedAgrees, Pending
<1>7. k \notin overlay.created \cup overlay.createdKeys /\ overlay.ns[k] = None
  BY <1>1, <1>3, <1>4 DEF Known
<1>8. AwaitInv'
  BY <1>1, <1>2, <1>6, <1>7 DEF AwaitInv
<1>9. Known(overlay)'
  BY <1>1, <1>3 DEF Known
<1> QED
  BY <1>1, <1>3, <1>8, <1>9 DEF ReasonInv, OnlyRenamesFail, Mounted

(* The store commits a rename onto what the name has, which is what the    *)
(* overlay has indexed under it, if anything.                              *)
LEMMA StoreCommitsAwaits ==
  ASSUME KeysAreDistinct, HiddenInv, ReasonInv, StoreCommits
  PROVE  ReasonInv'
<1>1. /\ local.pc = "store" /\ FactsHold /\ local' = [local EXCEPT !.pc = "accept"]
      /\ UNCHANGED <<table, overlay, used, refused, mount>>
  BY DEF StoreCommits
<1>2. /\ Mounted /\ StoreTypes /\ LocalAgrees /\ LocalTypes /\ local # NoLocal
      /\ table \subseteq RemoteKeys /\ Known(overlay)
  BY <1>1, UnderWay DEF ReasonInv, HiddenInv, Types, MountInv, NoLocal
<1>3. None \notin items /\ None \notin creates
  BY <1>2, KeyKinds DEF StoreTypes
<1>4. /\ local'.op = local.op /\ local'.to = local.to /\ local'.dest = local.dest
      /\ local.op # "create" /\ (local.op = "rename" => local.to \in Names)
  BY <1>1, <1>2 DEF LocalTypes
<1>5. ASSUME local.op = "rename", local.to \notin refused
      PROVE  IndexedAt(overlay, local.to) \in {None, local.dest}
  <2>1. local.to \in Names /\ entry[local.to] = local.dest
    BY <1>1, <1>4, <1>5 DEF FactsHold
  <2>2. NamespaceAgrees(local.to) /\ CreatedAgrees(local.to)
    BY <1>1, <1>2, <1>5, <2>1 DEF LocalAgrees, Accepting
  <2> QED
    BY <1>3, <2>1, <2>2 DEF NamespaceAgrees, CreatedAgrees, IndexedAt, Pending
<1>6. AwaitInv'
  BY <1>1, <1>4, <1>5 DEF AwaitInv, IndexedAt
<1>7. Known(overlay)'
  BY <1>1, <1>2 DEF Known
<1> QED
  BY <1>1, <1>2, <1>6, <1>7 DEF ReasonInv, OnlyRenamesFail, Mounted

(* The overlay takes an item that the store knows.                         *)
LEMMA AcceptIsKnown ==
  ASSUME KeysAreDistinct, HiddenInv, ReasonInv, Accept
  PROVE  ReasonInv'
<1>1. /\ local.pc = "accept" /\ local' = NoLocal
      /\ UNCHANGED <<table, store, mount>>
  BY DEF Accept
<1>2. used' = used
  BY <1>1 DEF store
<1>3. /\ Mounted /\ overlay \in Overlays /\ StoreTypes /\ StoreInv /\ LocalInv /\ LocalTypes
      /\ local # NoLocal /\ table \subseteq RemoteKeys /\ Known(overlay)
  BY <1>1, UnderWay DEF ReasonInv, HiddenInv, Types, MountTypes, MountInv, NoLocal
<1>4. /\ None \notin Keys /\ Keys = RemoteKeys \cup Files \cup Dirs
      /\ RemoteKeys \cap (Files \cup Dirs) = {} /\ Files \cap Dirs = {}
  BY KeyKinds
<1>5. local'.pc = "none"
  BY <1>1 DEF NoLocal
<1>6. Known(overlay)'
  <2>1. CASE ~Acceptable
    BY <1>2, <1>3, <2>1 DEF Accept, Known
  <2>2. CASE Acceptable
    <3> PICK q, o : q = overlay' /\ o = overlay
      OBVIOUS
    <3>1. q = Accepted /\ o \in Overlays /\ Known(o)
      BY <1>3, <2>2 DEF Accept
    <3>2. /\ local.key \in Keys /\ local.dest \in MaybeKeys
          /\ local.op \in {"create", "rename", "remove"}
      BY <1>3 DEF LocalTypes
    <3>3. \A k \in Pending : k \in used \cup RemoteKeys
      BY <1>3, <1>4 DEF StoreInv, Pending, StoreTypes
    <3>4. CASE local.op = "create"
      <4>1. local.to \in Names /\ local.key \in Files \cup Dirs
        BY <1>3, <3>4 DEF LocalTypes
      <4>2. local.key \in used
        BY <1>1, <1>3, <1>4, <3>3, <3>4, <4>1 DEF LocalInv, Pending
      <4>3. CASE local.key \in Files
        <5>1. q = AcceptCreatedFile(o, local.key, local.to)
          BY <1>4, <3>1, <3>4, <4>3 DEF Accepted
        <5>2. q.ns = o.ns /\ q.created = o.created \cup {local.key}
          BY ONLY <3>1, <3>2, <4>1, <5>1, CreatedFileFacts
        <5>3. q.createdKeys = o.createdKeys \cup {local.key}
          BY ONLY <3>1, <3>2, <4>1, <5>1, CreatedKeysFacts
        <5> QED
          BY <1>2, <3>1, <4>2, <5>2, <5>3 DEF Known
      <4>4. CASE local.key \in Dirs
        <5>1. q = AcceptNamespaceCreate(o, local.key, local.to)
          BY <1>4, <3>1, <3>4, <4>4 DEF Accepted
        <5>2. /\ q.created = o.created
              /\ \A l \in Keys \ {local.key} : q.ns[l] = o.ns[l]
          BY ONLY <3>1, <3>2, <4>1, <5>1, NamespaceCreateFacts
        <5>3. q.createdKeys = o.createdKeys
          BY ONLY <3>1, <3>2, <4>1, <5>1, CreatedKeysFacts
        <5> QED
          BY <1>2, <3>1, <4>2, <5>2, <5>3 DEF Known
      <4> QED
        BY <4>1, <4>3, <4>4
    <3>5. CASE local.op = "rename"
      <4>1. /\ local.from \in Names /\ local.to \in Names /\ local.from # local.to
            /\ local.key \in items /\ (local.dest # None => Gone(local.dest))
        BY <1>1, <1>3, <3>5 DEF LocalTypes, LocalInv
      <4>2. /\ local.key \in used \cup RemoteKeys
            /\ local.dest # None => local.dest \in used \cup RemoteKeys
        BY <3>3, <4>1 DEF Pending, Gone
      <4>3. q = AcceptRename(o, table, local)
        BY <3>1, <3>5 DEF Accepted
      <4>4. /\ q.created = o.created
            /\ \A l \in Keys \ {local.key, local.dest} : q.ns[l] = o.ns[l]
        BY ONLY <1>4, <3>1, <3>2, <4>1, <4>3, RenameFacts
      <4>5. q.createdKeys \subseteq o.createdKeys
        BY ONLY <3>1, <3>2, <4>1, <4>3, CreatedKeysFacts
      <4> QED
        BY <1>2, <1>4, <3>1, <4>2, <4>4, <4>5 DEF Known
    <3>6. CASE local.op = "remove"
      <4>1. local.from \in Names /\ Gone(local.key)
        BY <1>1, <1>3, <3>6 DEF LocalTypes, LocalInv
      <4>2. q = AcceptRemove(o, local)
        BY <3>1, <3>6 DEF Accepted
      <4>3. /\ q.created = o.created
            /\ \A l \in Keys \ {local.key} : q.ns[l] = o.ns[l]
        BY ONLY <3>1, <3>2, <4>1, <4>2, RemoveFacts
      <4>4. q.createdKeys = o.createdKeys
        BY ONLY <3>1, <3>2, <4>1, <4>2, CreatedKeysFacts
      <4> QED
        BY <1>2, <3>1, <4>1, <4>3, <4>4 DEF Known, Gone
    <3> QED
      BY <3>2, <3>4, <3>5, <3>6
  <2> QED
    BY <2>1, <2>2
<1> QED
  BY <1>1, <1>3, <1>5, <1>6 DEF ReasonInv, OnlyRenamesFail, AwaitInv, Mounted

(* A new mount restores items the store knows, and asks of each item no    *)
(* more than that the inode table lack it.                                 *)
LEMMA RemountExplains ==
  ASSUME KeysAreDistinct, HiddenInv, Remount
  PROVE  ReasonInv'
<1>1. /\ table' = KeysOf(tree) /\ UNCHANGED store /\ local' = NoLocal
  BY DEF Remount
<1>2. items' = items /\ used' = used
  BY <1>1 DEF store
<1>3. StoreTypes /\ StoreInv
  BY DEF HiddenInv, Types
<1>4. /\ None \notin Keys /\ Keys = RemoteKeys \cup Files \cup Dirs
      /\ RemoteKeys \cap (Files \cup Dirs) = {}
  BY KeyKinds
<1>5. KeysOf(tree) \subseteq RemoteKeys
  BY <1>3, <1>4 DEF StoreTypes, Listings, KeysOf
<1>6. \A k \in Pending : k \in used \cup RemoteKeys
  BY <1>3, <1>4 DEF StoreInv, Pending, StoreTypes
<1>7. items \subseteq KeysOf(entry) /\ items \subseteq Keys
  BY <1>3, <1>4 DEF StoreInv, Pending, KeysOf, StoreTypes
<1>8. CASE /\ mount' = "failed"
           /\ ~ \A k \in items :
                UniqueNamespaceItem(NoOverlay, KeysOf(tree), k, NameOf(entry, k), FALSE)
  <2>1. PICK k \in items :
          ~UniqueNamespaceItem(NoOverlay, KeysOf(tree), k, NameOf(entry, k), FALSE)
    BY <1>8
  <2>2. k \in Keys /\ NameOf(entry, k) \in Names
    BY <1>7, NameOfFacts
  <2>3. NoOverlay.ns[k] = None /\ IndexedAt(NoOverlay, NameOf(entry, k)) = None
    BY <2>2, NoOverlayFacts DEF NoOverlay, Empty, IndexedAt
  <2>4. k \in KeysOf(tree)
    BY <2>1, <2>3 DEF UniqueNamespaceItem
  <2>5. k \in items' /\ k \in table' \cap (Base \cup Arrivals)
    BY <1>1, <1>2, <1>5, <2>4 DEF RemoteKeys
  <2> QED
    BY <1>8, <2>5 DEF ReasonInv, Mounted, OnlyRenamesFail
<1>9. CASE /\ mount' = "up"
           /\ \E passed \in {{}, PassedEntries} :
                overlay' = RestoreCreated(RestoreRemote(RestoreNamespace, passed))
  <2>1. PICK passed \in {{}, PassedEntries} :
          overlay' = RestoreCreated(RestoreRemote(RestoreNamespace, passed))
    BY <1>9
  <2>2. passed \subseteq KeysOf(tree)
    BY DEF PassedEntries
  <2>3. \A n \in Names : tombs[n].deletes => tombs[n].key \in Keys
    BY <1>3, <1>4 DEF StoreInv, Gone, StoreTypes
  <2>4. PICK q : q = overlay'
    OBVIOUS
  <2>5. IsRestored(q, passed)
    BY <1>3, <1>7, <2>1, <2>2, <2>3, <2>4, RestoredFacts
  <2>6. /\ q.created = creates /\ q.createdKeys = creates
        /\ \A k \in Keys \ items : q.ns[k] = None
    BY ONLY <2>5 DEF IsRestored
  <2>7. creates \subseteq used /\ items \subseteq used \cup RemoteKeys
    BY <1>3, <1>4, <1>6 DEF Pending, StoreTypes
  <2>8. Known(overlay)'
    BY <1>2, <2>4, <2>6, <2>7 DEF Known
  <2> QED
    BY <1>1, <1>5, <1>9, <2>8, NothingToAccept DEF ReasonInv, AwaitInv, OnlyRenamesFail
<1> QED
  BY <1>8, <1>9 DEF Remount

(* Remote changes leave the local parts of the overlay alone.              *)
LEMMA ApplyIsRemote ==
  ASSUME KeysAreDistinct, HiddenInv, Apply
  PROVE  SameLocal(overlay, overlay')
<1>1. CASE ~Fits(overlay, change)
  BY <1>1 DEF Apply, SameLocal
<1>2. CASE Fits(overlay, change)
  <2> PICK q, o, c : q = overlay' /\ o = overlay /\ c = change
    OBVIOUS
  <2>1. q = ApplyChange(o, c)
    BY <1>2 DEF Apply
  <2>2. /\ o \in Overlays /\ c.op \in {"upsert", "delete"} /\ c.key \in RemoteKeys
        /\ c.name \in Names /\ c.prev \in MaybeNames /\ c.replaced \in RemoteKeys \cup {None}
    BY DEF Apply, HiddenInv, Types, MountTypes, ChangeTypes, NoChange
  <2>3. /\ c.key \in Keys /\ c.replaced \in MaybeKeys /\ None \notin Keys /\ None \notin Names
    BY <2>2, KeyKinds DEF MaybeKeys
  <2>4. CASE c.op = "delete"
    <3>1. q = RemoteDrops(o, c.key, c.name)
      BY <2>1, <2>4 DEF ApplyChange
    <3>2. IsDropped(q, o, c.key, c.name)
      BY <2>2, <2>3, <3>1, DropFacts
    <3> QED
      BY <3>2 DEF IsDropped
  <2>5. CASE c.op # "delete"
    <3>1. q = ApplyUpsert(o, c)
      BY <2>1, <2>5 DEF ApplyChange
    <3>2. IsUpserted(q, o, c)
      BY ONLY <2>2, <2>3, <3>1, UpsertFacts
    <3> QED
      BY <3>2 DEF IsUpserted
  <2> QED
    BY <2>4, <2>5
<1> QED
  BY <1>1, <1>2


(* Every step keeps what the overlay has refused explained.                *)
LEMMA NextExplains ==
  ASSUME KeysAreDistinct, HiddenInv, HiddenInv', ReasonInv, [Next]_vars
  PROVE  ReasonInv'
<1>1. overlay' \in Overlays
  BY DEF HiddenInv, Types, MountTypes
<1>2. ASSUME NEW k \in Files \cup Dirs, NEW n \in Names, Create(k, n) PROVE ReasonInv'
  BY <1>2, CreateAwaits
<1>3. CASE StoreCommits
  BY <1>3, StoreCommitsAwaits
<1>4. CASE Accept
  BY <1>4, AcceptIsKnown
<1>5. CASE Remount
  BY <1>5, RemountExplains
<1>6. CASE Apply
  <2>1. /\ change.pc = "apply" /\ refused \subseteq refused'
        /\ UNCHANGED <<table, store, local, mount>>
    BY <1>6 DEF Apply
  <2>2. Mounted /\ SameLocal(overlay, overlay')
    BY <1>6, <2>1, UnderWay, ApplyIsRemote DEF HiddenInv
  <2> QED
    BY <1>1, <2>1, <2>2, ReasonStays DEF store
<1>7. ASSUME Mounted, UNCHANGED <<table, overlay, used, mount>>, refused \subseteq refused',
             local' = local \/ local'.pc # "accept"
      PROVE  ReasonInv'
  <2>1. SameLocal(overlay, overlay')
    BY <1>7 DEF SameLocal
  <2> QED
    BY <1>1, <1>7, <2>1, ReasonStays
<1>8. ASSUME NEW op \in {"rename", "remove"}, NEW n \in Names, NEW m \in Names \cup {None},
             LookupSource(op, n, m)
      PROVE  ReasonInv'
  BY <1>7, <1>8 DEF LookupSource, store
<1>9. CASE LookupDestination
  <2>1. local.pc = "dest"
    BY <1>9 DEF LookupDestination
  <2>2. Mounted /\ LocalTypes /\ local # NoLocal
    BY <2>1, UnderWay DEF HiddenInv, Types, NoLocal
  <2>3. local'.pc = "store"
    BY <1>9, <2>2 DEF LookupDestination, LocalTypes
  <2> QED
    BY <1>7, <1>9, <2>2, <2>3 DEF LookupDestination, store
<1>10. CASE StoreRefuses \/ AnswerLost
  <2>1. local.pc # "none" /\ local' = NoLocal /\ refused \subseteq refused'
    BY <1>10 DEF StoreRefuses, AnswerLost
  <2> QED
    BY <1>7, <1>10, <2>1, UnderWay, NothingToAccept
    DEF HiddenInv, StoreRefuses, AnswerLost, store
<1>11. ASSUME NEW k \in Base \cup Arrivals, NEW n \in Names, CommitUpsert(k, n)
       PROVE  ReasonInv'
  BY <1>7, <1>11 DEF CommitUpsert
<1>12. ASSUME NEW n \in Names, CommitDelete(n) PROVE ReasonInv'
  BY <1>7, <1>12 DEF CommitDelete
<1>13. CASE LookupTarget \/ LookupPrevious
  <2>1. /\ change.pc # "none" /\ refused \subseteq refused'
        /\ UNCHANGED <<table, overlay, store, local, mount>>
    BY <1>13 DEF LookupTarget, LookupPrevious, Validate
  <2> QED
    BY <1>7, <2>1, UnderWay DEF HiddenInv, store
<1>14. CASE UNCHANGED vars
  <2>1. UNCHANGED <<table, overlay, items, used, local, refused, mount>>
    BY <1>14 DEF vars
  <2>2. CASE Mounted
    BY <1>7, <2>1, <2>2
  <2>3. CASE ~Mounted
    BY <2>1, <2>3 DEF ReasonInv, OnlyRenamesFail, Mounted
  <2> QED
    BY <2>2, <2>3
<1> QED
  BY <1>2, <1>3, <1>4, <1>5, <1>6, <1>8, <1>9, <1>10, <1>11, <1>12, <1>13, <1>14 DEF Next

(* The first mount has nothing local.                                      *)
LEMMA InitExplains ==
  ASSUME KeysAreDistinct, Init
  PROVE  ReasonInv
<1>1. /\ mount = "up" /\ table = Base /\ overlay = NoOverlay /\ local.pc = "none"
  BY DEF Init, NoLocal
<1>2. Known(NoOverlay)
  BY DEF Known, NoOverlay, Empty
<1> QED
  BY <1>1, <1>2 DEF ReasonInv, AwaitInv, OnlyRenamesFail, RemoteKeys

(* Both invariants together.                                               *)
NamespaceInv == HiddenInv /\ ReasonInv

(* They hold of the first mount, are kept, and are what they are for.      *)
LEMMA NamespaceInvHolds ==
  ASSUME KeysAreDistinct
  PROVE  /\ Init => NamespaceInv
         /\ NamespaceInv /\ [Next]_vars => NamespaceInv'
         /\ NamespaceInv => NothingIsHidden
<1>1. Init => NamespaceInv
  BY InitHides, InitExplains DEF NamespaceInv
<1>2. NamespaceInv /\ [Next]_vars => NamespaceInv'
  BY NextHides, NextExplains DEF NamespaceInv
<1>3. NamespaceInv => NothingIsHidden
  BY HiddenInvHides, ReasonInvExplains DEF NothingIsHidden, NamespaceInv, ReasonInv
<1> QED
  BY <1>1, <1>2, <1>3

(* writeback.rs: whatever local and remote operations, lost answers and    *)
(* remounts a directory goes through, an entry the store has committed     *)
(* resolves to its item, is listed and has attributes, in every mount that *)
(* comes up and at every name that no operation under way or refused is    *)
(* about.  Of committed local operations, only a rename onto a local item  *)
(* is refused, or one about a name of an earlier refusal; and only the     *)
(* pending rename of an item of the remote side fails a mount.             *)
THEOREM NothingCommittedIsHidden ==
  ASSUME KeysAreDistinct
  PROVE  Spec => []NothingIsHidden
<1>1. Init => NamespaceInv
  BY NamespaceInvHolds
<1>2. NamespaceInv /\ [Next]_vars => NamespaceInv'
  BY NamespaceInvHolds
<1>3. NamespaceInv => NothingIsHidden
  BY NamespaceInvHolds
<1> QED
  BY <1>1, <1>2, <1>3, PTL DEF Spec
=============================================================================
