----------------------------- MODULE MiddleNode -----------------------------
(***************************************************************************)
(* litecast/middle_node.py: relays that poll an origin's distribution.txt, *)
(* fetch the versions it lists into their own store and list them in turn. *)
(*                                                                         *)
(* With middle_servers (streaming) a relay fetches only the shards it owns *)
(* by shard_owners: its primary shards from the origin, its replica shards *)
(* from the primary owner.  Otherwise it fetches whole versions.  One      *)
(* monitor thread runs the cycle; the shards of a version that is streamed *)
(* or fetched as files come by worker threads, in any order.  The worker   *)
(* pools only limit how many fetches run at a time, and are left out.      *)
(*                                                                         *)
(* The origin is abstract: it lists and serves its newest versions and     *)
(* never gives a number twice (OriginServer!NumbersAreFresh).              *)
(***************************************************************************)
EXTENDS StoreOps, Placement

CONSTANTS
    Middles,        \* the relays (canonical middle_servers)
    Ranking,        \* Ranking[v][i]: the relays by their score for shard i
    Domain,         \* Domain[m]: the failure domain of relay m
    Factor,         \* replication_factor
    ShardSize,      \* the shard size of every publication
    MaxListed,      \* versions the origin keeps
    Setups          \* how the relays may be run: see SetupsAssumption

ASSUME NamesAssumption == Names \subseteq Nat \ {0}
ASSUME RankingAssumption ==
    \A v \in Names : \A i \in DOMAIN Ranking[v] :
        /\ Ranking[v][i] \in Seq(Middles) /\ IsInjective(Ranking[v][i])
        /\ ToSet(Ranking[v][i]) = Middles
ASSUME FactorAssumption == Factor \in Nat \ {0}
ASSUME ShardSizeAssumption == ShardSize \in ShardSizes
ASSUME MaxListedAssumption == MaxListed \in Nat \ {0}

(* streaming: middle_servers is configured; mirror: self.disk_mirror;      *)
(* unreliable: a transfer may fail, or deliver other bytes; errors: a file *)
(* operation may raise; crashes: a relay may die and be started again.     *)
ASSUME SetupsAssumption ==
    Setups \subseteq [streaming : BOOLEAN, mirror : BOOLEAN, unreliable : BOOLEAN,
                      errors : BOOLEAN, crashes : BOOLEAN]

VARIABLES
    setup,      \* how these relays are run; never changes
    published,  \* what the origin has published under each number
    store,      \* self.store
    disk,       \* version directories: made, and the shard files in them
    dist,       \* the relay's own distribution.txt
    processed,  \* self.processed_versions
    pc,         \* where the monitor thread is
    snap,       \* the list this cycle works on
    todo,       \* its versions not processed yet in this cycle
    need,       \* shards the workers still have to fetch
    failed      \* a worker raised

local == <<store, disk, dist, processed, pc, snap, todo, need, failed>>
vars == <<setup, published, local>>

Unlisted == [v \in Names |-> None]
NoDir == [made |-> FALSE, files |-> {}]

Manifest(c) == [sum |-> c, total |-> Size[c], shard |-> ShardSize]

AllShards(c) == 0 .. (ShardCount(Manifest(c)) - 1)

(* There is a ranking for every shard of what may be published. *)
ASSUME RankedAssumption ==
    \A v \in Names, c \in Contents : AllShards(c) \subseteq DOMAIN Ranking[v]

(* The owners of shard i of version v, primary first. *)
Owners == [v \in Names |-> [i \in DOMAIN Ranking[v] |->
              ShardOwners(Ranking[v][i], Domain, Factor)]]

(* The indexes of v that m owns, as primary or as replica. *)
Assigned(m, v, c) == {i \in AllShards(c) : m \in ToSet(Owners[v][i])}

Current(m) == Min(todo[m])

Listed(l) == {v \in Names : l[v] # None}

Init ==
    /\ setup \in Setups
    /\ published = Unlisted
    /\ store = [m \in Middles |-> EmptyStore]
    /\ disk = [m \in Middles |-> [v \in Names |-> NoDir]]
    /\ dist = [m \in Middles |-> Unlisted]
    /\ processed = [m \in Middles |-> {}]
    /\ pc = [m \in Middles |-> "idle"]
    /\ snap = [m \in Middles |-> Unlisted]
    /\ todo = [m \in Middles |-> {}]
    /\ need = [m \in Middles |-> {}]
    /\ failed = [m \in Middles |-> FALSE]

-----------------------------------------------------------------------------
(* The origin *)

Newest == Max({0} \cup Listed(published))

(* The origin lists and serves its newest MaxListed versions. *)
Up(v) == IF v > Newest - MaxListed THEN published[v] ELSE None

Publish(c) ==
    /\ Newest + 1 \in Names
    /\ published' = [published EXCEPT ![Newest + 1] = c]
    /\ UNCHANGED <<setup, local>>

-----------------------------------------------------------------------------
(* The cycle of _monitor_upstream *)

(* Mutant: the workers of the cycle are not forgotten. *)
AbortKeepsWorkers(m) ==
    /\ pc' = [pc EXCEPT ![m] = "idle"]
    /\ snap' = [snap EXCEPT ![m] = Unlisted]
    /\ todo' = [todo EXCEPT ![m] = {}]
    /\ UNCHANGED <<need, failed>>

(* An exception ends the cycle where it is: the rest waits for the next. *)
Abort(m) ==
    /\ pc' = [pc EXCEPT ![m] = "idle"]
    /\ snap' = [snap EXCEPT ![m] = Unlisted]
    /\ todo' = [todo EXCEPT ![m] = {}]
    /\ need' = [need EXCEPT ![m] = {}]
    /\ failed' = [failed EXCEPT ![m] = FALSE]

(* A list that cannot be fetched, or is empty, is ignored. *)
FetchList(m) ==
    /\ pc[m] = "idle" /\ Newest # 0
    /\ snap' = [snap EXCEPT ![m] = [v \in Names |-> Up(v)]]
    /\ todo' = [todo EXCEPT ![m] = {v \in Names : Up(v) # None}]
    /\ pc' = [pc EXCEPT ![m] = "process"]
    /\ UNCHANGED <<setup, published, store, disk, dist, processed, need, failed>>

(* _process_version returns: the loop goes on with the next version. *)
Skip(m) ==
    /\ todo' = [todo EXCEPT ![m] = @ \ {Current(m)}]
    /\ pc' = [pc EXCEPT ![m] = "process"]

Known(m) ==
    /\ pc[m] = "process" /\ todo[m] # {} /\ Current(m) \in processed[m]
    /\ Skip(m)
    /\ UNCHANGED <<setup, published, store, disk, dist, processed, snap, need, failed>>

Unknown(m) ==
    pc[m] = "process" /\ todo[m] # {} /\ Current(m) \notin processed[m]

Ready(m, v) == processed' = [processed EXCEPT ![m] = @ \cup {v}]

-----------------------------------------------------------------------------
(* A whole version: without middle_servers, or without a valid manifest *)

(* The shard size the relay cuts by is inferred from the number of shards. *)
InferredShard(c) ==
    LET n == ShardCount(Manifest(c))
    IN IF n = 0 THEN 1 ELSE Max({1, (Size[c] + n - 1) \div n})

(* The shard sizes that occur are among those of the store. *)
ASSUME InferredAssumption == \A c \in Contents : InferredShard(c) \in ShardSizes

(* download_version_buffer delivers bytes that have the listed digest.     *)
(* They fit in the store: the client has the same limit.                   *)
Downloaded(m) ==
    LET v == Current(m)
        c == snap[m][v]
    IN /\ Unknown(m)
       /\ setup.streaming => setup.unreliable
       /\ Up(v) = c /\ Size[c] <= Capacity
       /\ store' = [store EXCEPT ![m] =
                      StoreComplete(@, v, c, c, InferredShard(c), None)]
       /\ IF setup.mirror
          THEN pc' = [pc EXCEPT ![m] = "mirror"] /\ UNCHANGED <<todo, processed>>
          ELSE Skip(m) /\ Ready(m, v)
       /\ UNCHANGED <<setup, published, disk, dist, snap, need, failed>>

(* The shard files of a version that is in the store. *)
Mirror(m) ==
    LET v == Current(m)
    IN /\ pc[m] = "mirror"
       /\ disk' = [disk EXCEPT ![m][v] =
                     [made |-> TRUE, files |-> AllShards(snap[m][v])]]
       /\ Skip(m) /\ Ready(m, v)
       /\ UNCHANGED <<setup, published, store, dist, snap, need, failed>>

(* What an interruption leaves of the directory: it is not made yet, or    *)
(* the file being written is truncated and those after it are what they    *)
(* were.                                                                   *)
Torn(m) ==
    LET old == disk[m][Current(m)].files
    IN {disk[m][Current(m)], [made |-> TRUE, files |-> old]} \cup
       {[made |-> TRUE, files |-> (old \cup 0 .. i) \ {i}] :
           i \in AllShards(snap[m][Current(m)])}

MirrorRaises(m) ==
    /\ setup.errors /\ pc[m] = "mirror"
    /\ \E torn \in Torn(m) : disk' = [disk EXCEPT ![m][Current(m)] = torn]
    /\ Abort(m)
    /\ UNCHANGED <<setup, published, store, dist, processed>>

(* download_version_buffer returns None. *)
Undelivered(m) ==
    LET v == Current(m)
        c == snap[m][v]
    IN /\ Unknown(m)
       /\ Up(v) = c /\ (setup.streaming \/ Size[c] <= Capacity) => setup.unreliable

(* With a mirror the shards are then fetched as files, by worker threads.  *)
NotDownloaded(m) ==
    LET v == Current(m)
    IN /\ Undelivered(m)
       /\ IF setup.mirror
          THEN /\ disk' = [disk EXCEPT ![m][v].made = TRUE]
               /\ need' = [need EXCEPT ![m] = AllShards(snap[m][v])]
               /\ pc' = [pc EXCEPT ![m] = "files"]
               /\ UNCHANGED todo
          ELSE Skip(m) /\ UNCHANGED <<disk, need>>
       /\ UNCHANGED <<setup, published, store, dist, processed, snap, failed>>

(* A file is renamed to its name when it is whole. *)
FileArrives(m, i) ==
    LET v == Current(m)
    IN /\ pc[m] = "files" /\ i \in need[m] /\ Up(v) # None
       /\ disk' = [disk EXCEPT ![m][v].files = @ \cup {i}]
       /\ need' = [need EXCEPT ![m] = @ \ {i}]
       /\ UNCHANGED <<setup, published, store, dist, processed, pc, snap, todo, failed>>

(* Every attempt failed, or the file has other bytes and their digest will *)
(* not be the listed one.                                                  *)
FileFails(m, i) ==
    LET v == Current(m)
    IN /\ pc[m] = "files" /\ i \in need[m] /\ (Up(v) # None => setup.unreliable)
       /\ \/ UNCHANGED disk
          \/ Up(v) # None /\ disk' = [disk EXCEPT ![m][v].files = @ \ {i}]
       /\ need' = [need EXCEPT ![m] = @ \ {i}]
       /\ failed' = [failed EXCEPT ![m] = TRUE]
       /\ UNCHANGED <<setup, published, store, dist, processed, pc, snap, todo>>

(* Mutant: the directory of an incomplete download stays. *)
FilesEndKeepsDir(m) ==
    /\ pc[m] = "files" /\ need[m] = {}
    /\ IF failed[m]
       THEN failed' = [failed EXCEPT ![m] = FALSE] /\ UNCHANGED processed
       ELSE Ready(m, Current(m)) /\ UNCHANGED failed
    /\ Skip(m)
    /\ UNCHANGED <<setup, published, store, disk, dist, snap, need>>

(* If the files are not all there and right, the directory is removed. *)
FilesEnd(m) ==
    LET v == Current(m)
    IN /\ pc[m] = "files" /\ need[m] = {}
       /\ IF failed[m]
          THEN /\ disk' = [disk EXCEPT ![m][v] = NoDir]
               /\ failed' = [failed EXCEPT ![m] = FALSE]
               /\ UNCHANGED processed
          ELSE Ready(m, v) /\ UNCHANGED <<disk, failed>>
       /\ Skip(m)
       /\ UNCHANGED <<setup, published, store, dist, snap, need>>

(* The directory cannot be made, or a file of it cannot be read back. *)
FilesRaise(m) ==
    /\ setup.errors /\ setup.mirror
    /\ Undelivered(m) \/ (pc[m] = "files" /\ need[m] = {})
    /\ Abort(m)
    /\ UNCHANGED <<setup, published, store, disk, dist, processed>>

(* The directory of an incomplete download cannot be removed entirely: the *)
(* error is ignored.                                                       *)
FilesRemain(m) ==
    LET v == Current(m)
    IN /\ setup.errors /\ pc[m] = "files" /\ need[m] = {} /\ failed[m]
       /\ \E rest \in SUBSET disk[m][v].files :
             disk' = [disk EXCEPT ![m][v].files = rest]
       /\ failed' = [failed EXCEPT ![m] = FALSE]
       /\ Skip(m)
       /\ UNCHANGED <<setup, published, store, dist, processed, snap, need>>

-----------------------------------------------------------------------------
(* A streamed version *)

(* The origin has a valid manifest of the version. *)
Streamable(m) ==
    Unknown(m) /\ setup.streaming /\ Up(Current(m)) = snap[m][Current(m)]

Begin(m) ==
    LET v == Current(m)
        c == snap[m][v]
    IN BeginVersion(store[m], v, Manifest(c), SumsOf(Manifest(c), c))

BeginError(m) ==
    LET v == Current(m)
        c == snap[m][v]
    IN BeginVersionError(store[m], v, Manifest(c), SumsOf(Manifest(c), c))

(* The version is entered in the store, and its manifest is written in its *)
(* directory.  begin_version raises if the store has it with another cut.  *)
StreamBegin(m) ==
    /\ Streamable(m)
    /\ IF BeginError(m) # "ok"
       THEN Abort(m) /\ UNCHANGED <<store, disk>>
       ELSE /\ store' = [store EXCEPT ![m] = Begin(m)]
            /\ disk' = [disk EXCEPT ![m][Current(m)].made = TRUE]
            /\ pc' = [pc EXCEPT ![m] = "list"]
            /\ UNCHANGED <<snap, todo, need, failed>>
    /\ UNCHANGED <<setup, published, dist, processed>>

(* It is in the relay's list before any of its shards is there. *)
StreamList(m) ==
    LET v == Current(m)
        c == snap[m][v]
    IN /\ pc[m] = "list"
       /\ dist' = [dist EXCEPT ![m][v] = c]
       /\ need' = [need EXCEPT ![m] = Assigned(m, v, c)]
       /\ pc' = [pc EXCEPT ![m] = "stream"]
       /\ UNCHANGED <<setup, published, store, disk, processed, snap, todo, failed>>

(* update_distribution_file truncates the list before it writes it. *)
ListTorn(m) == dist' \in {dist, [dist EXCEPT ![m] = Unlisted]}

(* The directory or the manifest cannot be written, or the list. *)
StreamRaises(m) ==
    /\ setup.errors
    /\ \/ /\ Streamable(m) /\ BeginError(m) = "ok"
          /\ store' = [store EXCEPT ![m] = Begin(m)]
          /\ disk' \in {disk, [disk EXCEPT ![m][Current(m)].made = TRUE]}
          /\ UNCHANGED dist
       \/ pc[m] = "list" /\ ListTorn(m) /\ UNCHANGED <<store, disk>>
    /\ Abort(m)
    /\ UNCHANGED <<setup, published, processed>>

(* What LitecastRequestHandler serves: the store's shard, or the file of a *)
(* version the store does not know.                                        *)
Serves(m, v, i) ==
    \/ HasShard(store[m], v, i)
    \/ store[m].ver[v] = None /\ i \in disk[m][v].files

SourceHas(m, v, i) ==
    LET primary == Owners[v][i][1]
    IN IF primary = m THEN Up(v) # None ELSE Serves(primary, v, i)

(* The source has shard i of the current version and the store has room. *)
Deliverable(m, i) ==
    LET v == Current(m)
    IN /\ pc[m] = "stream" /\ i \in need[m] /\ SourceHas(m, v, i)
       /\ PutShardError(store[m], v, i, snap[m][v]) = "ok"

(* Mutant: the shard file is forgotten. *)
FetchShardNoFile(m, i) ==
    LET v == Current(m)
    IN /\ Deliverable(m, i)
       /\ store' = [store EXCEPT ![m] = PutShard(@, v, i, snap[m][v])]
       /\ need' = [need EXCEPT ![m] = @ \ {i}]
       /\ UNCHANGED <<setup, published, disk, dist, processed, pc, snap, todo, failed>>

(* One attempt of _fetch_owned_shard that delivers: the shard goes into    *)
(* the store, and into a file.                                             *)
FetchShard(m, i) ==
    LET v == Current(m)
    IN /\ Deliverable(m, i)
       /\ store' = [store EXCEPT ![m] = PutShard(@, v, i, snap[m][v])]
       /\ disk' = IF setup.mirror THEN [disk EXCEPT ![m][v].files = @ \cup {i}]
                                ELSE disk
       /\ need' = [need EXCEPT ![m] = @ \ {i}]
       /\ UNCHANGED <<setup, published, dist, processed, pc, snap, todo, failed>>

(* An attempt whose shard the store refuses, wrong bytes or no room: the   *)
(* worker tries again, but versions that were evicted for it are gone.     *)
FetchRefused(m, i, bytes) ==
    LET v == Current(m)
    IN /\ pc[m] = "stream" /\ i \in need[m] /\ SourceHas(m, v, i)
       /\ bytes # snap[m][v] => setup.unreliable
       /\ PutShardError(store[m], v, i, bytes) # "ok"
       /\ store' = [store EXCEPT ![m] = PutShard(@, v, i, bytes)]
       /\ UNCHANGED <<setup, published, disk, dist, processed, pc, snap, todo, need,
                      failed>>

(* The deadline passes, minutes after the first attempt: not for a worker  *)
(* that is served, unless transfers fail.                                  *)
GiveUp(m, i) ==
    /\ pc[m] = "stream" /\ i \in need[m]
    /\ Deliverable(m, i) => setup.unreliable
    /\ need' = [need EXCEPT ![m] = @ \ {i}]
    /\ failed' = [failed EXCEPT ![m] = TRUE]
    /\ UNCHANGED <<setup, published, store, disk, dist, processed, pc, snap, todo>>

(* The shard is in the store, but its file cannot be written: not opened,  *)
(* or truncated by then.                                                   *)
FetchRaises(m, i) ==
    LET v == Current(m)
    IN /\ setup.errors /\ setup.mirror /\ Deliverable(m, i)
       /\ store' = [store EXCEPT ![m] = PutShard(@, v, i, snap[m][v])]
       /\ \/ UNCHANGED disk
          \/ disk' = [disk EXCEPT ![m][v].files = @ \ {i}]
       /\ need' = [need EXCEPT ![m] = @ \ {i}]
       /\ failed' = [failed EXCEPT ![m] = TRUE]
       /\ UNCHANGED <<setup, published, dist, processed, pc, snap, todo>>

(* Mutant: the workers' exceptions are not looked at. *)
StreamEndIgnoring(m) ==
    /\ pc[m] = "stream" /\ need[m] = {}
    /\ Skip(m) /\ Ready(m, Current(m))
    /\ failed' = [failed EXCEPT ![m] = FALSE]
    /\ UNCHANGED <<setup, published, store, disk, dist, snap, need>>

(* All workers have ended; an exception of one of them ends the cycle. *)
StreamEnd(m) ==
    /\ pc[m] = "stream" /\ need[m] = {}
    /\ IF failed[m]
       THEN Abort(m) /\ UNCHANGED processed
       ELSE Skip(m) /\ Ready(m, Current(m)) /\ UNCHANGED <<snap, need, failed>>
    /\ UNCHANGED <<setup, published, store, disk, dist>>

-----------------------------------------------------------------------------
(* The end of a cycle *)

(* Mutant: the whole list is taken over. *)
RewriteAll(m) ==
    /\ pc[m] = "process" /\ todo[m] = {}
    /\ dist' = [dist EXCEPT ![m] = snap[m]]
    /\ pc' = [pc EXCEPT ![m] = "cleanup"]
    /\ UNCHANGED <<setup, published, store, disk, processed, snap, todo, need, failed>>

(* The relay lists the versions it has in the store or a directory for. *)
Rewrite(m) ==
    /\ pc[m] = "process" /\ todo[m] = {}
    /\ dist' = [dist EXCEPT ![m] = [v \in Names |->
                  IF v \in Held(store[m]) \/ disk[m][v].made
                  THEN snap[m][v] ELSE None]]
    /\ pc' = [pc EXCEPT ![m] = "cleanup"]
    /\ UNCHANGED <<setup, published, store, disk, processed, snap, todo, need, failed>>

(* The directories of what the origin no longer lists. *)
RemoveDirs(m) ==
    /\ pc[m] = "cleanup"
    /\ disk' = [disk EXCEPT ![m] = [v \in Names |->
                  IF snap[m][v] = None THEN NoDir ELSE @[v]]]
    /\ pc' = [pc EXCEPT ![m] = "forget"]
    /\ UNCHANGED <<setup, published, store, dist, processed, snap, todo, need, failed>>

(* Mutant: the store is not looked at. *)
SurplusNothing(m) == {}

(* Versions in the store that the origin no longer lists. *)
Surplus(m) == Held(store[m]) \ Listed(snap[m])

(* They are removed one by one. *)
RemoveVersion(m, v) ==
    /\ pc[m] = "forget" /\ v \in Surplus(m)
    /\ store' = [store EXCEPT ![m] = Drop(@, v)]
    /\ UNCHANGED <<setup, published, disk, dist, processed, pc, snap, todo, need,
                   failed>>

(* They leave processed_versions, and the cycle is over. *)
Cleanup(m) ==
    /\ pc[m] = "forget" /\ Surplus(m) = {}
    /\ processed' = [processed EXCEPT ![m] = @ \cap Listed(snap[m])]
    /\ Abort(m)
    /\ UNCHANGED <<setup, published, store, disk, dist>>

(* The list cannot be written, or a directory cannot be removed. *)
EndRaises(m) ==
    /\ setup.errors /\ pc[m] \in {"process", "cleanup"} /\ todo[m] = {}
    /\ \E gone \in SUBSET (IF pc[m] = "cleanup" THEN Names \ Listed(snap[m])
                                                 ELSE {}) :
          disk' = [disk EXCEPT ![m] = [v \in Names |->
                     IF v \in gone THEN NoDir ELSE @[v]]]
    /\ Abort(m)
    /\ UNCHANGED <<setup, published, store, dist, processed>>

(* What a crash leaves of the directory being written: in the streaming    *)
(* step, the files the workers were at are truncated.                      *)
Interrupted(m) ==
    IF pc[m] = "mirror" THEN Torn(m)
    ELSE {[disk[m][Current(m)] EXCEPT !.files = @ \ cut] : cut \in SUBSET need[m]}

(* The process dies and is started on the same directory. *)
Restart(m) ==
    /\ setup.crashes
    /\ store' = [store EXCEPT ![m] = EmptyStore]
    /\ processed' = [processed EXCEPT ![m] = {}]
    /\ IF pc[m] \in {"mirror", "stream"}
       THEN \E left \in Interrupted(m) : disk' = [disk EXCEPT ![m][Current(m)] = left]
       ELSE UNCHANGED disk
    /\ IF pc[m] = "list" THEN ListTorn(m) ELSE UNCHANGED dist
    /\ Abort(m)
    /\ UNCHANGED <<setup, published>>

(* What can go wrong in a relay itself. *)
Fault(m) ==
    \/ MirrorRaises(m) \/ FilesRaise(m) \/ FilesRemain(m)
    \/ StreamRaises(m) \/ EndRaises(m) \/ Restart(m)
    \/ \E i \in need[m] : FetchRaises(m, i)

Worker(m, i) ==
    \/ FileArrives(m, i) \/ FileFails(m, i)
    \/ FetchShard(m, i) \/ GiveUp(m, i)
    \/ \E c \in Contents : FetchRefused(m, i, c)

Monitor(m) ==
    \/ FetchList(m) \/ Known(m) \/ Downloaded(m) \/ Mirror(m)
    \/ NotDownloaded(m) \/ FilesEnd(m)
    \/ StreamBegin(m) \/ StreamList(m) \/ StreamEnd(m)
    \/ Rewrite(m) \/ RemoveDirs(m) \/ (\E v \in Names : RemoveVersion(m, v))
    \/ Cleanup(m)

Regular ==
    \/ \E c \in Contents : Publish(c)
    \/ \E m \in Middles : Monitor(m) \/ \E i \in need[m] : Worker(m, i)

Next == Regular \/ \E m \in Middles : Fault(m)

Spec == Init /\ [][Next]_vars

Indexes == UNION {AllShards(c) : c \in Contents}

(* The threads of a running relay go on, and crashes and file errors, if   *)
(* there are any, end; nothing is assumed of transfers.                    *)
Fairness ==
    /\ <>[][setup.errors \/ setup.crashes => Regular]_vars
    /\ \A m \in Middles :
          WF_vars(Monitor(m)) /\ WF_vars(\E i \in need[m] : Worker(m, i))

FairSpec == Spec /\ Fairness

-----------------------------------------------------------------------------
(* Properties *)

Places == {"idle", "process", "mirror", "files", "list", "stream", "cleanup", "forget"}

RelayStores == [order : Seq(Names), ver : [Names -> StoredVersion \cup {None}],
                used : Nat]
Dirs == [made : BOOLEAN, files : SUBSET Indexes]

(* The state has its type; the workers only run while a version's shards   *)
(* are fetched one by one.                                                 *)
TypeOK ==
    /\ setup \in Setups
    /\ published \in [Names -> Contents \cup {None}]
    /\ store \in [Middles -> RelayStores]
    /\ disk \in [Middles -> [Names -> Dirs]]
    /\ dist \in [Middles -> [Names -> Contents \cup {None}]]
    /\ processed \in [Middles -> SUBSET Names]
    /\ pc \in [Middles -> Places]
    /\ snap \in [Middles -> [Names -> Contents \cup {None}]]
    /\ todo \in [Middles -> SUBSET Names]
    /\ need \in [Middles -> SUBSET Indexes]
    /\ failed \in [Middles -> BOOLEAN]
    /\ \A m \in Middles : need[m] # {} \/ failed[m] => pc[m] \in {"files", "stream"}

(* Every shard of version v can be downloaded from relay m. *)
ServesAll(m, v) ==
    published[v] # None /\ \A i \in AllShards(published[v]) : Serves(m, v, i)

(* Between two cycles a relay that keeps whole versions in memory lists    *)
(* nothing it cannot serve, although its store may have evicted what an    *)
(* earlier cycle listed and although an evicted version counts as          *)
(* processed.  A crash, or a list that cannot be written, leaves an older  *)
(* list until the next cycle: see RelayRepairs.                            *)
RelayListsWhatItServes ==
    ~setup.streaming /\ ~setup.mirror /\ ~setup.errors /\ ~setup.crashes =>
        \A m \in Middles, v \in Names :
            pc[m] = "idle" /\ dist[m][v] # None => ServesAll(m, v)

(* With a mirror, a version the relay has marked as processed, which it    *)
(* will not fetch again, is served as long as the origin has it: from the  *)
(* files once its shards are evicted.  A streaming relay needs transfers   *)
(* that do not fail: after a failed one it may hold a version in part,     *)
(* which hides the files.                                                  *)
ProcessedIsServed ==
    setup.mirror /\ (setup.streaming => ~setup.unreliable) =>
        \A m \in Middles : \A v \in processed[m] :
            Up(v) # None =>
                \A i \in Assigned(m, v, published[v]) : Serves(m, v, i)

(* used_bytes of a relay's store is what the store keeps alive. *)
RelayAccounting ==
    \A m \in Middles :
        store[m].used = Cardinality(Retained(store[m], Held(store[m])))

(* Again and again a relay of whole versions serves everything it lists: a *)
(* version that a crash, a torn file or an eviction took away is served    *)
(* again or leaves the list.                                               *)
RelayRepairs ==
    []<>(setup.streaming \/
            \A m \in Middles, v \in Names : dist[m][v] # None => ServesAll(m, v))

(* What the origin no longer has leaves the lists, stores and disks of     *)
(* relays of whole versions.                                               *)
RetiredLeaves ==
    []<>(setup.streaming \/
            \A m \in Middles, v \in Names :
                published[v] # None /\ Up(v) = None =>
                    /\ dist[m][v] = None
                    /\ store[m].ver[v] = None
                    /\ ~disk[m][v].made)

(* Every relay gets its shards of every version the origin keeps, although *)
(* relays wait for one another's primary shards and go through the list in *)
(* order, and whichever failure domain is lost, a relay of another one     *)
(* serves each shard.  It needs room for the listed versions in each       *)
(* store, and two owners and two domains to choose from.                   *)
OwnersAreServed ==
    []<>(\A v \in Names : Up(v) # None =>
            /\ \A m \in Middles : \A i \in Assigned(m, v, published[v]) :
                    Serves(m, v, i)
            /\ \A i \in AllShards(published[v]), lost \in Middles :
                    \E m \in Middles : Domain[m] # Domain[lost] /\ Serves(m, v, i))
=============================================================================
