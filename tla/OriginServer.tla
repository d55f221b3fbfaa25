---------------------------- MODULE OriginServer ----------------------------
(***************************************************************************)
(* litecast/origin_server.py: publication of a checkpoint by an origin,    *)
(* with the list of versions (distribution.txt, litecast/utils.py) that    *)
(* readers poll, the version directories on disk and the RAM store behind  *)
(* the HTTP handler (litecast/server.py).                                  *)
(*                                                                         *)
(* Publications of one process exclude each other (_publication_lock);     *)
(* readers and crashes come between any two of their steps.  A version is  *)
(* its number.                                                             *)
(***************************************************************************)
EXTENDS StoreOps, FiniteSetsExt

CONSTANTS
    ShardSize,      \* the shard size of every publication
    MaxFolders,     \* max_distribution_folders
    Setups          \* how the origin may be run: which publications are made
                    \* ("ram", "mirror", "legacy"), whether a file operation
                    \* may raise and whether the process may die and restart

ASSUME NamesAssumption == Names \subseteq Nat \ {0}
ASSUME ShardSizeAssumption == ShardSize \in ShardSizes
ASSUME MaxFoldersAssumption == MaxFolders \in Nat \ {0}
ASSUME SetupsAssumption ==
    Setups \subseteq [modes : SUBSET {"ram", "mirror", "legacy"},
                      errors : BOOLEAN, crashes : BOOLEAN]

VARIABLES
    setup,      \* how this origin is run; never changes
    store,      \* self.store
    disk,       \* the version directories
    dist,       \* distribution.txt: version to digest of its content
    pub,        \* the publication in progress
    listedEver, \* history: the versions that were ever in distribution.txt
    returned    \* history: the versions broadcast returned

vars == <<setup, store, disk, dist, pub, listedEver, returned>>

(* A version directory: data is the content whose shard files it is to     *)
(* receive, files how many of them are written.                            *)
NoDir == [made |-> FALSE, manifest |-> FALSE, data |-> None, files |-> 0]

Idle == [at |-> "idle", mode |-> None, version |-> None, data |-> None,
         evicted |-> {}, removed |-> {}, list |-> None]

Unlisted == [v \in Names |-> None]

Listed == {v \in Names : dist[v] # None}

Shards(c) == ShardCount([total |-> Size[c], shard |-> ShardSize])

Init ==
    /\ setup \in Setups
    /\ store = EmptyStore
    /\ disk = [v \in Names |-> NoDir]
    /\ dist = Unlisted
    /\ pub = Idle
    /\ listedEver = {}
    /\ returned = {}

-----------------------------------------------------------------------------
(* The steps of broadcast_buffer and broadcast *)

(* Mutant: the lowest number that is not in use. *)
NextVersionUnused ==
    LET used == Held(store) \cup Listed \cup {v \in Names : disk[v].made}
    IN Min((1 .. Max(Names) + 1) \ used)

(* One more than every number in the store, in the list or on disk. *)
NextVersion ==
    Max(Held(store) \cup Listed \cup {v \in Names : disk[v].made} \cup {0}) + 1

(* broadcast_buffer, also for a file that fits in the RAM cache: the bytes *)
(* are in the store first, where a full store loses its oldest versions.   *)
(* Bytes that exceed the cache raise, and nothing has changed.             *)
BroadcastBuffer(c, mode) ==
    LET v == NextVersion
    IN /\ pub = Idle /\ v \in Names /\ mode \in setup.modes \ {"legacy"}
       /\ PutVerifiedError(c, ShardSize, c) = "ok"
       /\ store' = StoreComplete(store, v, c, c, ShardSize, SumsOf([total |-> Size[c]], c))
       /\ pub' = [Idle EXCEPT !.at = "manifest", !.mode = mode, !.version = v,
                              !.data = c,
                              !.evicted = Held(store) \ Held(store')]
       /\ UNCHANGED <<disk, dist, listedEver, returned>>

(* The directory, and the manifest file renamed into it. *)
WriteManifest ==
    /\ pub.at = "manifest"
    /\ disk' = [disk EXCEPT ![pub.version].made = TRUE,
                            ![pub.version].manifest = TRUE,
                            ![pub.version].data = IF pub.mode = "mirror"
                                                  THEN pub.data ELSE None]
    /\ pub' = [pub EXCEPT !.at = IF pub.mode = "mirror" THEN "mirror" ELSE "list"]
    /\ UNCHANGED <<store, dist, listedEver, returned>>

(* broadcast of a file that exceeds the RAM cache: straight to the disk. *)
BroadcastLegacy(c) ==
    LET v == NextVersion
    IN /\ pub = Idle /\ v \in Names /\ "legacy" \in setup.modes
       /\ Size[c] > Capacity
       /\ disk' = [disk EXCEPT ![v].made = TRUE, ![v].data = c]
       /\ pub' = [Idle EXCEPT !.at = "mirror", !.mode = "legacy",
                              !.version = v, !.data = c]
       /\ UNCHANGED <<store, dist, listedEver, returned>>

(* The shard files, one after the other. *)
WriteShard ==
    /\ pub.at = "mirror" /\ disk[pub.version].files < Shards(pub.data)
    /\ disk' = [disk EXCEPT ![pub.version].files = @ + 1]
    /\ UNCHANGED <<store, dist, pub, listedEver, returned>>

ShardsWritten ==
    /\ pub.at = "mirror" /\ disk[pub.version].files = Shards(pub.data)
    /\ pub' = [pub EXCEPT !.at = "list"]
    /\ UNCHANGED <<store, disk, dist, listedEver, returned>>

(* Mutant: highest numbers first. *)
SurplusNewest(versions) ==
    CHOOSE low \in SUBSET versions :
        /\ Cardinality(low) = Max({0, Cardinality(versions) - MaxFolders})
        /\ \A v \in low, w \in versions \ low : v > w

(* The versions over max_distribution_folders, lowest numbers first. *)
Surplus(versions) ==
    CHOOSE low \in SUBSET versions :
        /\ Cardinality(low) = Max({0, Cardinality(versions) - MaxFolders})
        /\ \A v \in low, w \in versions \ low : v < w

(* update_distribution_file: the list is read, and opened for writing,     *)
(* which empties it.                                                       *)
OpenList ==
    LET listed == Listed \cup {pub.version}
        low == Surplus(listed)
        new == [dist EXCEPT ![pub.version] = pub.data]
    IN /\ pub.at = "list"
       /\ dist' = Unlisted
       /\ pub' = [pub EXCEPT !.at = "write", !.removed = low,
                             !.list = [v \in Names |->
                                         IF v \in low THEN None ELSE new[v]]]
       /\ UNCHANGED <<store, disk, listedEver, returned>>

WriteList ==
    /\ pub.at = "write"
    /\ dist' = pub.list
    /\ listedEver' = listedEver \cup {v \in Names : dist'[v] # None}
    /\ pub' = [pub EXCEPT !.at = IF pub.mode = "ram" THEN "delist" ELSE "retire"]
    /\ UNCHANGED <<store, disk, returned>>

(* Mutant: evicted versions stay in the list. *)
DelistNothing ==
    /\ pub.at = "delist"
    /\ pub' = [pub EXCEPT !.at = "discard"]
    /\ UNCHANGED <<store, disk, dist, listedEver, returned>>

(* remove_distribution_versions, in one rename: without files, a version   *)
(* that left the store cannot be served any more.                          *)
Delist ==
    /\ pub.at = "delist"
    /\ dist' = [v \in Names |-> IF v \in pub.evicted THEN None ELSE dist[v]]
    /\ pub' = [pub EXCEPT !.at = "discard"]
    /\ UNCHANGED <<store, disk, listedEver, returned>>

(* rmtree(..., ignore_errors=True): a directory that resists is left. *)
Discard ==
    /\ pub.at = "discard"
    /\ \E left \in SUBSET (IF setup.errors THEN pub.evicted ELSE {}) :
          disk' = [v \in Names |->
                     IF v \in pub.evicted \ left THEN NoDir ELSE disk[v]]
    /\ pub' = [pub EXCEPT !.at = "retire"]
    /\ UNCHANGED <<store, dist, listedEver, returned>>

(* Mutant: a retired version's directory stays. *)
RetireKeepsFiles ==
    /\ pub.at = "retire" /\ pub.removed # {}
    /\ store' = Drop(store, Min(pub.removed))
    /\ pub' = [pub EXCEPT !.removed = @ \ {Min(pub.removed)}]
    /\ UNCHANGED <<disk, dist, listedEver, returned>>

(* A version that left the list leaves the store and the disk. *)
Retire ==
    /\ pub.at = "retire" /\ pub.removed # {}
    /\ store' = Drop(store, Min(pub.removed))
    /\ disk' = [disk EXCEPT ![Min(pub.removed)] = NoDir]
    /\ pub' = [pub EXCEPT !.removed = @ \ {Min(pub.removed)}]
    /\ UNCHANGED <<dist, listedEver, returned>>

Return ==
    /\ pub.at = "retire" /\ pub.removed = {}
    /\ returned' = returned \cup {pub.version}
    /\ pub' = Idle
    /\ UNCHANGED <<store, disk, dist, listedEver>>

-----------------------------------------------------------------------------
(* Faults *)

(* A file operation of the current step raises: the publication ends where *)
(* it is, and what it did stays.  A directory may have been made without   *)
(* its manifest; the directory being removed may be gone in part.          *)
Raise ==
    /\ setup.errors
    /\ pub.at \in {"manifest", "mirror", "list", "write", "delist", "retire"}
    /\ pub' = Idle
    /\ \/ UNCHANGED <<store, disk>>
       \/ /\ pub.at = "manifest"
          /\ disk' = [disk EXCEPT ![pub.version].made = TRUE]
          /\ UNCHANGED store
       \/ /\ pub.at = "retire" /\ pub.removed # {}
          /\ store' = Drop(store, Min(pub.removed))
          /\ disk' = [disk EXCEPT ![Min(pub.removed)].files = 0,
                                  ![Min(pub.removed)].manifest = FALSE]
    /\ UNCHANGED <<dist, listedEver, returned>>

(* The process dies and is started on the same directory: the store is     *)
(* empty, the list is the one on disk.                                     *)
Restart ==
    /\ setup.crashes
    /\ store' = EmptyStore
    /\ pub' = Idle
    /\ UNCHANGED <<disk, dist, listedEver, returned>>

Next ==
    /\ \/ \E c \in Contents :
             BroadcastLegacy(c) \/ \E mode \in setup.modes : BroadcastBuffer(c, mode)
       \/ WriteManifest \/ WriteShard \/ ShardsWritten \/ OpenList \/ WriteList
       \/ Delist \/ Discard \/ Retire \/ Return
       \/ Raise \/ Restart
    /\ UNCHANGED setup

Spec == Init /\ [][Next]_vars

-----------------------------------------------------------------------------
(* What a reader gets: LitecastRequestHandler._serve_store answers from    *)
(* the store, and from the files only for a version the store does not     *)
(* know.                                                                   *)
ServedFromStore(v) ==
    store.ver[v] # None /\ IsComplete(store, v)

ServedFromDisk(v) ==
    /\ store.ver[v] = None
    /\ disk[v].data # None /\ disk[v].files = Shards(disk[v].data)

Served(v) == IF ServedFromStore(v) THEN store.ver[v].data ELSE disk[v].data

-----------------------------------------------------------------------------
(* Properties *)

Places == {"idle", "manifest", "mirror", "list", "write", "delist", "discard",
           "retire"}

(* The state has its type. *)
TypeOK ==
    /\ setup \in Setups
    /\ store \in [order : Seq(Names), ver : [Names -> StoredVersion \cup {None}],
                  used : 0 .. Capacity]
    /\ disk \in [Names -> [made : BOOLEAN, manifest : BOOLEAN,
                           data : Contents \cup {None}, files : Nat]]
    /\ dist \in [Names -> Contents \cup {None}]
    /\ pub \in [at : Places, mode : setup.modes \cup {None},
                version : Names \cup {None}, data : Contents \cup {None},
                evicted : SUBSET Names, removed : SUBSET Names,
                list : [Names -> Contents \cup {None}] \cup {None}]
    /\ listedEver \subseteq Names
    /\ returned \subseteq Names

Servable(v) ==
    (ServedFromStore(v) \/ ServedFromDisk(v)) /\ Served(v) = dist[v]

(* A memory-only origin loses its bytes with its process, and a failure    *)
(* between eviction and delisting leaves the evicted versions listed.      *)
Durable == "ram" \notin setup.modes
FaultFree == ~setup.errors /\ ~setup.crashes

(* A version in distribution.txt can be downloaded and its bytes have the  *)
(* digest the list gives, whatever was evicted or retired since: across    *)
(* failures and restarts if every version has its files, without them if   *)
(* every version is in memory only.  A memory-only publication in progress *)
(* may have pushed out versions that it has not delisted yet.              *)
ListedIsServable ==
    (Durable \/ (FaultFree /\ setup.modes = {"ram"})) =>
        \A v \in Listed :
            Servable(v) \/ (pub.mode = "ram" /\ v \in pub.evicted)

(* Between publications every listed version can be downloaded ("memory    *)
(* capacity eviction removes unservable manifest version").                *)
RestIsServable == pub = Idle => \A v \in Listed : Servable(v)

(* A number that was ever listed is not given to another publication, even *)
(* after a crash that lost the store and the list (_next_version).         *)
NumbersAreFresh ==
    pub.at \in {"manifest", "mirror", "list", "write"} =>
        pub.version \notin listedEver

(* A list that is not empty names the newest published version, or a newer *)
(* one: a reader that ignores an empty list, as MiddleNode does, never     *)
(* takes an old list for a new one.                                        *)
NewestIsListed ==
    Listed # {} => \A r \in returned : \E v \in Listed : r <= v

(* Without faults, a memory-only origin keeps nothing that is not listed:  *)
(* between publications the store and the disk hold listed versions only,  *)
(* and at most max_distribution_folders of them.                           *)
NothingIsLeftOver ==
    FaultFree /\ pub = Idle /\ setup.modes = {"ram"} =>
        /\ Held(store) \cup {v \in Names : disk[v].made} \subseteq Listed
        /\ Cardinality(Listed) <= MaxFolders
=============================================================================
