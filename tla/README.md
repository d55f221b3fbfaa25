# LiteCast in TLA+

LiteCast distributes large byte buffers (checkpoints, LoRA adapters) from one
*origin* through a layer of *relays* (middle nodes) to many *clients*, over HTTP
or UCXX, with a registry (Redis) through which publishers, relays and clients
find one another. This directory models its core: the in-memory store every
server is built on, the origin, the relays and the placement of shards among
them, the publisher with its lease, the relay session and its supervisor, the
client's download and choice of servers, and the persistent UCXX endpoint. TLC
checks the models on small instances; TLAPS proves every safety property, and
the refinement, for every instance.

All paths below are relative to `src/litecast/`.

## The system

| Part | State | Operations | Modelled in |
|---|---|---|---|
| checkpoint store (`store.py`) | an ordered dictionary of versions, complete or sharded, and `_size` | `put`, `put_verified`, `begin_version`, `put_shard`, `remove`, `clear`, readers; FIFO eviction | `StoreOps`, `CheckpointStore` |
| origin (`origin_server.py`, `utils.py`) | a store, version directories, `distribution.txt` | `broadcast_buffer`, `broadcast`; retention, delisting | `OriginServer` |
| HTTP server (`server.py`) | none of its own | answers from the store, or from files for versions the store does not know | `OriginServer!Served*`, `MiddleNode!Serves`, `ClientFetch!Served` |
| relay (`middle_node.py`) | a store, mirror files, its own list, `processed_versions` | the monitor cycle, whole downloads, streamed shards with workers, cleanup | `MiddleNode` |
| publisher (`registry/distribution.py`) | publications, sources, `fenced`, `refresh_lock`; in Redis the lease record and registrations | `start`, `publish`, `refresh`, `heartbeat`, `close` | `Publisher`, and what it promises in `RunRegistry` |
| relay session (`registry/middle.py`) | owner, MiddleNode, registrations | the loop of `serve_publisher`, retried by `supervise_publisher` | `RelaySession` |
| relay supervisor (`registry/middle.py`) | subscribed runs, a task and a stop event per run | `serve`: reload the file, detach, attach, stop on a signal | `Subscriptions` |
| client (`client_node.py`, `client.py`, `registry/transfer.py`, `fetch_publication`) | buffer, digest, source groups | list, manifest, streaming, whole UCXX, sizes and parts by HTTP, next group | `ClientFetch` |
| server statistics (`client.py`) | bandwidth and success rate per server | draw a server, update after each attempt | `ServerChoice` |
| UCXX transport (`transport/ucxx.py`, `protocol.py`) | a persistent endpoint per lane and its lock | `GET_SHARD(S)` and `WAIT_VERSION` exchanges, timeouts, cancellation; the server's handler | `UcxxLane`; `GET_VERSION` in `ClientFetch` |
| placement (`streaming.py`) | none | `shard_owners`, manifests | `Placement`, used by `MiddleNode`; lengths in `StoreOps` |
| endpoint metadata, bootstrap, events, configuration | files, environment | parsing and I/O | not modelled |

How they interact. An origin's publication goes into its store and then into
`distribution.txt`; relays poll that file, fetch what it lists, and list it in
turn. In a streaming cluster relays fetch replica shards from one another. A
publisher owns an origin, keeps the descriptor of its run alive in Redis and
registers each publication; a relay session follows the descriptor, feeds a
MiddleNode from the registered origins and advertises what it has verified; a
client takes the registered sources in groups and tries them one by one.

What is hard in this code: eviction inside one component invalidates what
another has promised (a list, `processed_versions`, a registration); steps of a
publication or of a cycle fail or crash half-way; asyncio tasks interleave at
every await around a lease that may lapse; version numbers are local to an
origin and are reused by its successor; a persistent endpoint has no message
identities, and cancelled requests are answered late; several threads receive
into one buffer. `PROJECT.json` lists these hazards line by line with the
properties that cover them, or a note on what no property covers.

## Modules

`StoreOps` is the store as pure operators on a store value (`order`, `ver`,
`used`): what each method of `CheckpointStore` returns, raises and leaves
behind. Bytes are *cells* (tagged positions), so that "used_bytes" (what the
code counts) and "what the buffers really retain" are two different
cardinalities. A digest is the content it is the digest of. The eviction loops
are written as the number of oldest versions to drop (`EvictCount`), which keeps
the module free of recursion and open to proof.

`CheckpointStore` is the state machine over it: every method with every
argument in any order, each atomic because each holds the lock. `last` records
the last call and its outcome; the history variable `clean` says whether a
shard has been put into a version held complete.

`OriginServer` and `MiddleNode` extend `StoreOps`, so the composition of the
servers with their store is the real one and not an abstraction. An origin's
publication is a sequence of steps between file operations, each of which may
raise and between any of which the process may die (`setup` says which faults
and which publication modes exist). A relay's monitor thread has one step per
decision of `_monitor_upstream`; the workers of a version taken shard by shard
take steps of their own. When streaming, a version goes through its entry in the
store, directory and manifest, the list (`list`) and its shards (`stream`) one
after another; a whole download that fails is followed by one of the files of
its shards (`files`): the directory is made, each file arrives whole or not at
all, and after a failure the directory is removed, as far as that works. An I/O
error or a crash may come between these and in the middle of a write: `Torn` and
`Interrupted` say what it leaves of the directory, `ListTorn` what of the list,
which a streaming relay truncates in place. At the end of a cycle it replaces
its list, removes the directories of what the origin no longer lists, and then
the versions in its store one by one. `MiddleNode` treats the origin abstractly,
as a list of the newest versions whose numbers are never reused: what
`OriginServer!NumbersAreFresh` shows. The size of the worker pools is left out,
as it only limits parallelism. `Placement` has `shard_owners` as two passes over
a ranking of the members, one that spreads over failure domains and one that
fills up, both by one recursive function; the ranking itself, a hash, is a
constant of the instance.

`Publisher` has one step per stretch of code between awaits, for the caller of
`start`/`publish`/`close` and for the heartbeat, of every publisher of a run,
with the Lua script on the lease as one atomic step, registry errors before or
after the effect, and expiry of leases and registrations. `setup` chooses the
publishers, their callers and what they publish.

`RunRegistry` is the abstract specification of the same: no tasks, locks or
retries, only what followers of the run see. A descriptor is held by one owner
at a time and is, when written, that owner's list of publications; the list only
grows at its end; a registration names the bundle its owner broadcast under that
version. `Publisher!ImplementsRunRegistry` says that `Publisher` implements it
with the identity as the refinement mapping for the four variables: errors,
cancellation and refused claims are stutters or steps of another kind (a renewal
that raised is a `Renew`), a round of the source loop is an `Announce` or a
`Withdraw`. The publishers that `RelaySession` has in its environment take
coarser steps of the same kinds.

`RelaySession` is one session with the publishers of its run. Publishers are
reduced to what the session sees (lease, registrations, origin contents), and
the MiddleNode to what it holds. `world` gives the circumstances: whether a
replacement runs at the same address and which bundles it publishes.

`Subscriptions` is the supervisor around such sessions, of which it keeps where
their task is: in a cycle, in the `finally` block (after a stop or after an
exception), pausing, or ended. `tasks[r]` is a sequence, so that two tasks of one
run could exist if the supervisor did not wait.

`ClientFetch` is one call of `fetch_publication`, servers changing under it. All
servers' answers are read at the moment of the request; for the whole version in
one UCXX transfer the server reads metadata, data and metadata again in three
steps.

`ServerChoice` is the statistics of `ShardDownloader`, by which `ClientFetch`
and `MiddleNode` may draw any server. Rates are integers in the smallest unit a
floating-point number has near zero, with its rounding.

`UcxxLane` is one `UCXXTransport` with a persistent endpoint shared by two
threads, the handler at the other end, and the HTTP fallback of `receive`, which
may run while the cancelled coroutine still exists. The threads are workers of a
download, or one of them waits for announcements of versions, which keeps the
lock and the handler for as long as it waits.

The `MC*` modules give the constants of the instances. The theorems about a
module `M` are in `MProofs`, which extends it; `RelayProofs` has those of
`RelaySession` and of `Subscriptions` and extends both, which is why the names in
the latter differ (`ServeInit`, `ServeTypeOK`, `loop`, ...).

## Runs

| Run | Question | Instance |
|---|---|---|
| `store_core` | Is memory bounded, accounting right, eviction FIFO and minimal, failure contained, for any sequence of calls? | 3 names (symmetric), sizes 2 and 5, shard size 2, capacity 4: exactly full, one over, uneven last shard, and a version larger than the store |
| `origin` | Does the list tell the truth through errors, crashes, eviction and retirement? | 4 numbers, 2 folders, contents of 0, 1, 2 and 4 bytes, capacity 3; one setup with files and every fault, one memory-only |
| `origin_mixed` | violation: memory-only and mirrored publications on one origin | as above, both modes, no faults |
| `middle` | Does one relay list what it serves, keep serving what it will not refetch, repair what faults took and drop what was dropped? | 3 versions, the origin keeps 2, store of 3 bytes, contents of 3 (fits) and 4 (does not), of two shards each; in memory over failing transfers, mirrored with crashes and failing files, mirrored with crashes and failing transfers, streamed with crashes and failing files |
| `middle_cluster` | Do relays that own one another's shards ever starve, and does each shard survive the loss of a failure domain? | 3 relays in 2 failure domains, 2 replicas, 3 versions of one shard of which the origin keeps 2, room for all |
| `middle_leak` | violation: can a relay reach the store's accounting drift by itself? | one streaming relay with a mirror |
| `publisher` | Do publishers implement `RunRegistry`, one owner at a time; does an appended publication become known, and does a dropped one disappear? | three setups: one publisher with 2 bundles of which 1 is retained, two publishers, one publisher with two concurrent callers; 2 steps, 2 broadcasts |
| `subscriptions` | One session per run, none stopped without cause, and the right ones in the end? | 3 runs, at most 2 at a time, a file with 3 successive contents among valid, empty, too long, repeated, malformed and missing ones |
| `session` | Does a relay end up with the publisher that stays, or with nothing, and never advertise other bytes? | 2 publishers, 2 bundles, 2 versions; three worlds |
| `ucxx_lane` | Can a late answer corrupt a shard or announce a version, and does the lane recover? | 2 threads (batches of two shards and of one; or one shard and a wait for two versions), 2 timeouts, 1 change of the server |
| `client` | Is a download sound on every path, does it end, is one good group enough? | 3 servers in 2 groups, 3 contents (one shares a shard and the sizes, one is larger), 6 holdings, 2 changes, enough to replace a version and put it back |
| `server_choice` | violation: is a server that comes back used again? | 1 server, a bandwidth of 1.0 as 64 units: the decay takes a handful of failures instead of 2080 |

The bounds are the smallest at which the interesting cases meet: two versions
plus one that pushes the first out; one fault more than a retry absorbs; two
actors for every lock; and a content that differs from the wanted one in a
single shard of the same length. Counters (`MaxBroadcasts`, `MaxTimeouts`,
`MaxChanges`, `MaxVersion`, `Names`) are bounds on the environment and not on
the code. Symmetry is used only in runs without liveness.
`middle` has no setup in which both files and transfers fail; the theorems about
`MiddleNode` hold for that one too. `middle` and `middle_cluster` take the longest,
one and a half and two and a half minutes with two workers.

`CHECK_DEADLOCK FALSE` is set where the system may stop: an origin that has used
up its numbers, publishers that are closed, a download that has ended.

Each property has a mutant: a changed definition, like a dropped guard or a
missing reset, under which TLC finds the property violated.

### What the violations show

* `origin_mixed`. `_broadcast_buffer_unlocked` delists the versions it evicts
  only if the new publication is itself memory-only (`origin_server.py:196`). A
  mirrored publication that evicts a memory-only one leaves it in
  `distribution.txt` for good. `tests/test_integration_memory.py:206` tests the
  opposite for memory-only publications.
* `middle_leak`. `put_shard` adds a shard to `_size` even if the version is held
  complete, while `stored_bytes` of such a version does not count shards: the
  bytes are never given back (`store.py:283`). A relay gets there: a whole
  download is stored, its mirror write raises, the next cycle obtains the
  manifest and streams the same version; its eviction leaves the drift.
* `server_choice`. A failure multiplies a server's bandwidth by 0.7 and nothing
  but a successful request raises it; "Revive others slowly in case they come
  back online" (`client.py:119`) heals the success rate only. Once the product
  of both has rounded to zero the server has no weight and is not drawn again,
  and if no server has weight, `random.choices` raises on every call
  (`client.py:96`). With doubles that takes 2080 consecutive failures with one
  server: a relay, which polls its origin every second, gets there in a little
  over half an hour and then never notices that the origin is back.

### Fairness

* `MiddleNode`: the monitor thread and the workers go on (daemon threads in a
  loop); crashes and file errors end. Nothing is assumed of transfers: a
  download may fail each time it is tried.
* `Publisher`: tasks go on, and one of those that wait for `refresh_lock` gets it
  when it stays free; the registry recovers, in that refreshes raise only
  finitely often (`<>[][Regular]_vars`); registrations nobody renews expire.
* `Subscriptions`: the event loop runs every task that can go on, and the awaits
  of a session end (downloads, registry calls and shutdown have timeouts). A
  session may fail again and again.
* `RelaySession`: the session loop, the MiddleNode and the heartbeat of a live
  publisher go on; unrenewed records expire; registry errors end.
* `UcxxLane`: threads, event loop and handler go on; the handler gives up a wait
  for a version after `operation_timeout`; the lock is fair (`asyncio.Lock` is
  FIFO). That other timeouts are finitely many is the bound `MaxTimeouts`.
* `ClientFetch`: the main thread goes on, and each worker comes to an end of its
  shard: `receive` retries until its deadline. The deadline only passes when no
  server of the group has the shard or, with transport `ucxx`, may not have been
  reached as a verified endpoint: that a server which holds everything answers
  HTTP requests at all within minutes is a premise of `OneGroupIsEnough`.
* `ServerChoice`: requests are made again and again, as a relay polls.

"Faults end" is written `<>[][Regular]_vars`, with `Regular` the steps that are
not faults, rather than as the absence of fault steps: a fault and a regular
step may have the same effect, and excluding the former would exclude the
latter.

## Proofs

Each theorem holds for every value of the constants that satisfies the named
assumptions of the modules (sets of any size, any sizes and capacities, any
number of relays, publishers, callers, edits, servers). The assumptions only say
what kind of value a constant is: sizes and limits are natural numbers, shard
sizes are positive, `None` is no content. Three say a little more.
`RankingAssumption` of `MiddleNode` makes a ranking a permutation of the relays,
which sorting gives, and `RankedAssumption` has one for every shard there is;
`InferredAssumption` closes the set of shard sizes under the size that a relay
infers from a shard count.

The theorems about a specification suppose nothing else, except
`ShardsOutliveADomain`: two replicas and two failure domains, without which there is
nothing to choose from.

Every proof of an invariant has the same outline: an inductive invariant, one
lemma per action that says the action preserves it, one lemma that puts them
together, and the properties as consequences. The inductive invariants were
model-checked on the instances above before they were proved.

| Module | Theorems (property) |
|---|---|
| `StoreOpsProofs` | lemmas about the operators of the store, used by the next three modules |
| `CheckpointStoreProofs` | `StoreInvariant`, `TypeCorrect` (`TypeOK`), `RetainedIsCounted` (`NeverUndercounts`), `MemoryIsBounded` (`MemoryBounded`), `AccountingIsExact` (`Accounting`), `CompleteVersionsAreServable` (`CompleteIsServable`), `EvictionIsFifo` (`FifoEviction`), `EvictionIsMinimal` (`EvictionIsNeeded`), `FailuresAreContained` (`FailureIsContained`) |
| `OriginServerProofs` | `OriginInvariant`, `OriginTypeCorrect` (`TypeOK`), `ListedVersionsAreServable` (`ListedIsServable`), `ListsAreCurrent` (`NewestIsListed`), `NothingStaysBehind` (`NothingIsLeftOver`), `NumbersAreNeverReused` (`NumbersAreFresh`) |
| `MiddleNodeProofs` | `RelayInvariant`, `RelayTypeCorrect` (`TypeOK`), `RelayListsAreServed` (`RelayListsWhatItServes`), `ProcessedVersionsAreServed` (`ProcessedIsServed`); `OwnersAreSpread`, `ADomainMayBeLost`, `ShardsOutliveADomain` |
| `PublisherProofs` | `PublisherInvariant`, `PublisherTypeCorrect` (`TypeOK`), `LeaseIsExclusive` (`LeaseExclusive`), `PublishersImplementRunRegistry` (`ImplementsRunRegistry`); `TheRegistryTellsTheTruth` |
| `RelayProofs` | `SessionInvariant`, `SessionTypeCorrect` (`TypeOK`), `AdvertisementsAreRight` (`AdvertisedIsRight`); `SubscriptionsInvariant`, `SubscriptionsTypeCorrect` (`ServeTypeOK`), `SessionsAreSeparate` (`OneSessionPerRun`), `SessionsAreDetachedOnPurpose` (`DetachedOnPurpose`) |
| `ClientFetchProofs` | `FetchInvariant`, `FetchTypeCorrect` (`TypeOK`), `DownloadsAreSound` (`DownloadIsSound`), `DigestCoversTheBuffer` (`HashedIsKept`) |
| `UcxxLaneProofs` | `LaneInvariant`, `LaneTypeCorrect` (`TypeOK`), `ShardsStayIntact` (`Intact`) |

**The store.** `MemoryBounded` is not inductive. `_store_complete` gives back
what it *counted* for the versions it drops, and stops evicting when the
dictionary is empty, without looking at `_size` again. So the argument needs, of
every reachable store (`Consistent`): the order lists exactly the held versions,
each once; shard indexes and sizes agree with the metadata; and the retained
cells number at most `used` and at most the capacity. `used` itself has no upper
bound in the invariant, because of the drift shown by `middle_leak`. The lemmas
follow the operators: `GiveBack` (dropping a set of versions keeps the account),
`EvictOldestOK`, `DropOK`, `StoreCompleteOK`, `BeginVersionOK`, `PutShardOK`;
each shows that the operation preserves `Consistent` and, under its condition,
`Exact` (no version has both a buffer and shards, and `used` is the number of
retained cells). The action properties rest on what the operations leave of the
order (`StoreCompleteShape`, `PutShardShape`) and on `EvictCount` being the least
number of victims that makes room.

**The origin.** What makes `NumbersAreFresh` true after a crash that has lost the
store and the list is a directory: the invariant says that for every number ever
listed there is a directory with a number at least as high. `ListedIsServable`
needs the files, or the store entry, of what the list *will* be once a write in
progress ends (`Shown`), and which versions are pending in between; the two
halves, on disk and in memory, are separate parts of the invariant.

**The relays.** `RelayInv` says of each relay that its store is consistent and
every held version is cut into as many shards as at the origin; that its cycle
works on a part of what was published, with whatever is processed and still
offered in it; and, with a mirror, that every shard of a processed version is in
its file and, if the store knows the version, in the store too, which is what the
server asks first. `ProcessedIsServed` alone says only "file or store" and is
not inductive: an eviction or a new entry in the store would break it. That the
cut is the same is arithmetic (`EvenCut`, `InferredCount`): a relay infers the
shard size from the shard count, and cutting evenly gives the same count again,
so the branch for another count (`middle_node.py:387`) is never taken.

**The placement.** What `Pass` has selected after a number of members is proved
by induction over that number: the set of numbers for which it holds has 0 and
with each number the next, and if it lacked one it would lack a least one
(`EveryNumber`, from the well-foundedness of the natural numbers). `Selection` says
of a pass that it keeps what it began with, adds only members whose label is
new, and ends full or with every label. In the first pass the label is the
failure domain, in the second the member itself, which by counting
(`OneIsLeftOut`) gives the number of owners. `ShardsOutliveADomain` then joins the
placement to the relays: an owner outside the lost domain (`ADomainMayBeLost`) that
has processed the version serves the shard (`ProcessedIsServed`). No run states
it: it has no step of its own beyond the two facts it follows from.

**The publishers.** `PublisherInv` says where a task can be in each phase of its
publisher and what it still knows after an await: inside the lock a task is
alone, so between building and writing the descriptor `snap` is `pubs`; a call
past its broadcast, a source and a registration name a version with the digest
the origin has for it. The refinement proof takes the steps one by one: each
action of `Publisher` is a step of `RunRegistry` (`Broadcast`, `Renew`, `Announce`,
`Withdraw`, ...) or leaves its four variables alone. `TheRegistryTellsTheTruth` uses
it: that a descriptor names only what its owner has broadcast is shown for the
few abstract steps (`DescriptorsStep`) and so holds of the many concrete ones.

**The supervisor.** A run has a task exactly while it is in the dictionary or is
waited for; the accepted snapshot is one the file has contained; the runs still
to detach are those the snapshot lacks.

**The session.** The invariant behind `AdvertisedIsRight` is that a MiddleNode has
one publisher upstream and holds only that publisher's bytes under its numbers,
and that a verified number means the advertised bundle at that publisher, whose
numbers are never taken back. It holds for publishers that are `Apart`.

**The download.** `FetchInv` says for each place of the download what it relies
on: which content was promised, that the shards whose workers have ended are in
the buffer as promised unless one failed, and that the hashed prefix belongs to
workers that have ended and so will not write again.

**The lane.** Answers carry no identity, and a cancelled exchange leaves requests
and answers behind in the endpoint. `Intact` rests on the stream itself: every
control frame that announces shards is followed by exactly their bytes, whichever
request it was for, and a frame that announces a version names one that is
announced (`Streams`); a coroutine that has accepted a control frame finds the
bytes it expects at the head of the stream (`InStep`), and what it has got so far
is in its buffers (`Calls`). The order of the shards in a batch, for which the model
takes any fixed one (`SetToSeq`), does not matter to the argument.

Only model-checked:

* all liveness, which is out of the prover's reach, as is `ENABLED`: `RelayRepairs`,
  `RetiredLeaves`, `OwnersAreServed`, `CaughtUp`, `RetiredWithdrawn`, `Follows`,
  `Converges`, `Withdrawn`, `LaneRecovers`, `Ends`, `OneGroupIsEnough`;
* the violations, which are about instances.

## What the models leave out

* Wall-clock time: deadlines and leases expire nondeterministically, with the
  guards stated at the actions. Bandwidth, logging and measurements.
* JSON, frame and manifest encodings, and the score behind the ranking that
  `shard_owners` starts from.
* The order in which a client asks the owners of a shard
  (`order_owners_for_client`): `ClientFetch` has any order.
* Downloads into files (`download_version`) and into views of the caller
  (`download_shards_into`).
* Starting and stopping the UCXX event loops and servers.
* `FrameDecoder` (`protocol.py`), which nothing uses.
* Endpoint discovery, Redis bootstrap, events, command lines: single documents
  read or written once, without state that another step depends on.

## Observations made while modelling

Beyond the findings, and worth the attention of whoever changes this code:

* A streaming relay whose store is too small for the listed versions keeps
  evicted ones in its list and in `processed_versions`, without a mirror never
  to fetch them again (`OwnersAreServed` needs room). With a mirror and failing
  transfers, a version held in part hides its complete files
  (`ProcessedIsServed` excludes that case). A version larger than the store
  aborts every cycle of a streaming relay, so the cleanup after it never happens
  (`RetiredLeaves` excludes streaming).
* A memory-only publication that raises after `put_verified` forgets what it
  evicted (`origin_server.py:184`); those versions stay listed. Also while it is
  in progress they are listed, for a moment: `ListedIsServable` excepts them.
* Two concurrent `publish` calls of one publisher pass the step check together
  and may append in descending order, so that the newest publication has the
  lower step: the check comes before two awaits and is not repeated
  (`registry/distribution.py:134`). `RunRegistry!Publish` accepts steps in any
  order, so no property catches this.
* `fenced` stops the heartbeat and new calls of `publish`, but a refresh that
  already waits for `refresh_lock` does not look at it: once the replacement's
  lease lapses it claims the lease again (`registry/distribution.py:117`).
* `close` cancels a heartbeat that may be in the middle of a renewal; a lease it
  renewed in that moment outlives the publisher by a full period.
* The supervisor of a relay waits for a detached session before it looks at its
  file or at a signal again: one session in a long download delays all others,
  though not for ever.
* A thread that waits for the announcement of a version keeps lane 0 of its peer
  for up to 30 seconds at a time; fetches that share the lane queue behind it.
* If a replaced publisher is still alive at another address and both published
  the same bundle, one MiddleNode is fed from two numberings
  (`registry/middle.py:64`; the comment at :191 wants the opposite).
  `AdvertisedIsRight` is stated for publishers that are apart.
* With transport `ucxx`, `UCXXUnavailableError` and `VersionUnavailableError`
  are not among what `fetch_publication` catches and end the fetch with sources
  untried; `OneGroupIsEnough` excludes that transport.
* A cancelled UCXX coroutine keeps the endpoint. What protects the next request
  is that answers repeat the index, and the digest. A stale error frame,
  which repeats nothing, is taken for an answer: the shard then seems
  unavailable.

## Plan

Done: all the components the table lists as modelled, and proofs of every
invariant and action property of the runs, of the refinement and of the placement.
What is left:

1. What the registry bootstrap and the metadata files add around the publisher and
   the session, if they come to keep more state than they do now.
2. Liveness has no proof; larger instances of `publisher` and `session` with
   fewer kinds of fault would add to what the runs show.
