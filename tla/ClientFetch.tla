----------------------------- MODULE ClientFetch -----------------------------
(***************************************************************************)
(* The download of one publication: fetch_publication of                   *)
(* litecast/registry/distribution.py, which tries one group of sources     *)
(* after another, and inside it the download of a version by ClientNode    *)
(* (litecast/client_node.py) or MeasuredClient                             *)
(* (litecast/registry/transfer.py), through ShardDownloader                *)
(* (litecast/client.py).                                                   *)
(*                                                                         *)
(* Every request goes to a server that may have changed since the last     *)
(* one: lost shards, or another content under the same version name.       *)
(* Worker threads receive shards in any order into one buffer.  Manifests  *)
(* have no members, as in the registry: any server of the group may own    *)
(* any shard.  A batch is one shard.                                       *)
(***************************************************************************)
EXTENDS Integers, Sequences, FiniteSets, SequencesExt

CONSTANTS
    Servers,
    Groups,         \* the source groups, in the order they are tried
    Contents,
    Payload,        \* Payload[c]: the bytes of each shard of content c
    Length,         \* Length[p]: the number of bytes in p
    Wanted,         \* the content of the publication
    Holdings,       \* what a server may hold: content, manifest and shards
    Starts,         \* what the servers may hold to begin with
    MaxChanges,     \* bound on the changes of the servers
    None

ASSUME GroupsAssumption ==
    Groups \in Seq(SUBSET Servers) /\ \A g \in 1 .. Len(Groups) : Groups[g] # {}
ASSUME WantedAssumption == Wanted \in Contents
ASSUME MaxChangesAssumption == MaxChanges \in Nat
ASSUME HoldingsAssumption ==
    \A h \in Holdings :
        /\ h.content \in Contents \cup {None}
        /\ h.manifest \in {"none", "legacy", "merkle"}
        /\ h.content = None => h.have = {} /\ h.manifest = "none"
        /\ h.content # None => h.have \subseteq DOMAIN Payload[h.content]
ASSUME StartsAssumption == Starts \subseteq [Servers -> Holdings]
ASSUME PayloadAssumption ==
    /\ Payload \in [Contents -> Seq(DOMAIN Length)]
    /\ \A p \in DOMAIN Length : Length[p] \in Nat
ASSUME NoneAssumption == None \notin Contents /\ None \notin DOMAIN Length

VARIABLES
    transport,  \* "http", "auto" or "ucxx"; never changes
    srv,        \* what each server holds under the version's name
    changes,
    group,      \* the group being tried
    pc,         \* where the download is
    claim,      \* the content that the list, or the manifest, promises
    hashing,    \* the digest of the whole is computed on the way
    pending,    \* shards the workers of this phase still have to do
    failed,     \* a worker of this phase has failed
    buf,        \* the buffer
    hashed,     \* what the digest was computed over so far
    sizes,      \* the sizes announced for the shards
    whole,      \* the transfer of the whole version in progress
    result      \* of fetch_publication: None, "raised" or "payload"

servers == <<srv, changes>>
around == <<transport, servers, whole>>
vars == <<transport, servers, group, pc, claim, hashing, pending, failed, buf,
          hashed, sizes, whole, result>>

Count(c) == Len(Payload[c])
Indexes(c) == 1 .. Count(c)
AllIndexes == UNION {Indexes(c) : c \in Contents}

Total(bytes) == FoldSeq(LAMBDA p, sum : Length[p] + sum, 0, bytes)

(* max_version_bytes is the size of the publication. *)
MaxBytes == Total(Payload[Wanted])

Bytes == UNION {ToSet(Payload[c]) : c \in Contents}

(* MeasuredClient downloads by HTTP, otherwise it is a ClientNode. *)
Measured == transport = "http"

Sources == Groups[group]

NoWhole == [server |-> None, metadata |-> None, data |-> << >>]

Empty == [i \in AllIndexes |-> None]

Init ==
    /\ transport \in {"http", "auto", "ucxx"}
    /\ srv \in Starts
    /\ changes = 0
    /\ group = 0
    /\ pc = "group"
    /\ claim = None
    /\ hashing = FALSE
    /\ pending = {}
    /\ failed = FALSE
    /\ buf = Empty
    /\ hashed = << >>
    /\ sizes = Empty
    /\ whole = NoWhole
    /\ result = None

-----------------------------------------------------------------------------
(* The servers *)

Change(s, h) ==
    /\ changes < MaxChanges /\ pc # "end"
    /\ srv' = [srv EXCEPT ![s] = h]
    /\ changes' = changes + 1
    /\ UNCHANGED <<transport, whole, group, pc, claim, hashing, pending, failed,
                   buf, hashed, sizes, result>>

(* What server s answers to a request for shard i. *)
Served(s, i) == IF i \in srv[s].have THEN Payload[srv[s].content][i] ELSE None

-----------------------------------------------------------------------------
(* fetch_publication *)

(* Mutant: one group more than there are. *)
NextGroupOneMore ==
    /\ pc = "group"
    /\ group' = group + 1
    /\ pc' = IF Measured THEN "manifest" ELSE "list"
    /\ UNCHANGED <<around, claim, hashing, pending, failed, buf,
                   hashed, sizes, result>>

(* Mutant: the same group is tried again. *)
GroupAgain ==
    /\ pc = "group"
    /\ group' = IF group = 0 THEN 1 ELSE group
    /\ pc' = IF Measured THEN "manifest" ELSE "list"
    /\ UNCHANGED <<around, claim, hashing, pending, failed, buf,
                   hashed, sizes, result>>

NextGroup ==
    /\ pc = "group"
    /\ IF group < Len(Groups)
       THEN /\ group' = group + 1
            /\ pc' = IF Measured THEN "manifest" ELSE "list"
            /\ UNCHANGED result
       ELSE pc' = "end" /\ result' = "raised" /\ UNCHANGED group
    /\ UNCHANGED <<around, claim, hashing, pending, failed, buf,
                   hashed, sizes>>

(* Mutant: an exception of one group ends the fetch. *)
FetchFails ==
    /\ pc' = "end" /\ result' = "raised"
    /\ UNCHANGED <<group, claim, hashing, pending, failed, buf, hashed, sizes>>

(* The download of this group returned None or raised what the loop        *)
(* catches: OSError, ValueError or RuntimeError.                           *)
GroupFails ==
    /\ pc' = "group" /\ claim' = None /\ hashing' = FALSE
    /\ pending' = {} /\ failed' = FALSE
    /\ buf' = Empty /\ hashed' = << >> /\ sizes' = Empty
    /\ UNCHANGED <<group, result>>

(* The bytes the download has put together. *)
Data == [i \in Indexes(claim) |-> buf[i]]

(* publication.verify: size and SHA-256. *)
Verify ==
    /\ pc = "verify"
    /\ IF Data = Payload[Wanted]
       THEN /\ result' = "payload" /\ pc' = "end"
            /\ UNCHANGED <<group, claim, hashing, pending, failed, buf, hashed,
                           sizes>>
       ELSE GroupFails
    /\ UNCHANGED <<around>>

-----------------------------------------------------------------------------
(* The list and the manifest *)

(* Enter a phase in which workers do every shard of content c. *)
Phase(where, c) ==
    pc' = where /\ claim' = c /\ pending' = Indexes(c) /\ failed' = FALSE

Quiet == UNCHANGED <<buf, hashed, sizes, group, result>>

(* _sample_best_server weighs servers by their success: any may be chosen. *)
Sampled == Sources

(* The server has a manifest that ShardManifest.from_bytes accepts for the *)
(* version.                                                                *)
HasManifest(s) == srv[s].manifest # "none"

(* list_available_versions: any server may be sampled.  MeasuredClient     *)
(* asks for the list only if there is no manifest (_download_cached), a    *)
(* ClientNode looks for a manifest only if it has several servers.         *)
ListVersions ==
    /\ pc = "list"
    /\ \E s \in Sampled :
          LET c == srv[s].content
          IN IF c = None
             THEN GroupFails
             ELSE /\ IF Measured
                     THEN Phase("sizes", c)
                     ELSE /\ pc' = IF Cardinality(Sources) >= 2
                                   THEN "manifest" ELSE "whole"
                          /\ claim' = c
                          /\ UNCHANGED <<pending, failed>>
                  /\ UNCHANGED hashing
                  /\ Quiet
    /\ UNCHANGED <<around>>

(* The manifest must agree with the list, if a list was read. *)
ManifestAgrees(c) == claim = None \/ c = claim

(* _load_shard_manifest finds one, and _download_streaming begins.         *)
ManifestLoaded(s) ==
    LET c == srv[s].content
    IN /\ pc = "manifest" /\ s \in Sources /\ HasManifest(s)
       /\ IF \/ ~ManifestAgrees(c)
             \/ Total(Payload[c]) > MaxBytes /\ transport # "auto"
          THEN GroupFails
          ELSE /\ IF Total(Payload[c]) > MaxBytes
                  THEN pc' = "whole" /\ UNCHANGED <<claim, pending, failed>>
                  ELSE Phase("stream", c)
               /\ hashing' = (srv[s].manifest = "legacy")
               /\ Quiet
       /\ UNCHANGED <<around>>

(* No server has one, or none is obtained from those that have. *)
NoManifest ==
    /\ pc = "manifest"
    /\ pc' = IF Measured THEN "list" ELSE "whole"
    /\ UNCHANGED <<claim, hashing, pending, failed>>
    /\ Quiet
    /\ UNCHANGED <<around>>

-----------------------------------------------------------------------------
(* _download_streaming *)

(* Mutant: the digest of the shard is not compared. *)
GoodAnyway(i, p) == TRUE

(* The shard has the digest that the manifest has for it. *)
Good(i, p) == p = Payload[claim][i]

Fits(i, p) == p # None /\ Length[p] = Length[Payload[claim][i]]

(* One attempt of receive that delivers bytes of the right length: they    *)
(* are in the buffer, good or not.                                         *)
Receive(i, s) ==
    LET p == Served(s, i)
    IN /\ pc = "stream" /\ i \in pending /\ s \in Sources /\ Fits(i, p)
       /\ buf' = [buf EXCEPT ![i] = p]
       /\ pending' = IF Good(i, p) THEN pending \ {i} ELSE pending
       /\ UNCHANGED <<around, group, pc, claim, hashing, failed,
                      hashed, sizes, result>>

(* The deadline: only after minutes in which no owner had the shard, or,   *)
(* with transport "ucxx", none that had it was a verified endpoint.  That  *)
(* an owner which answers by HTTP is reached within minutes is a premise.  *)
GiveUp(i) ==
    /\ pc = "stream" /\ i \in pending
    /\ \/ transport = "ucxx"
       \/ \A s \in Sources : Served(s, i) # Payload[claim][i]
    /\ pending' = pending \ {i}
    /\ failed' = TRUE
    /\ UNCHANGED <<around, group, pc, claim, hashing, buf, hashed,
                   sizes, result>>

(* Mutant: a shard is hashed while its worker still receives it. *)
HashEarly ==
    LET frontier == Len(hashed) + 1
    IN /\ pc = "stream" /\ hashing
       /\ frontier \in Indexes(claim) /\ buf[frontier] # None
       /\ hashed' = Append(hashed, buf[frontier])
       /\ UNCHANGED <<around, group, pc, claim, hashing, pending,
                      failed, buf, sizes, result>>

(* The main thread hashes shards in order as far as they have come in.     *)
(* Once a worker's exception has reached it, it hashes no more.            *)
Hash ==
    LET frontier == Len(hashed) + 1
    IN /\ pc = "stream" /\ hashing
       /\ frontier \in Indexes(claim) \ pending /\ ~failed
       /\ hashed' = Append(hashed, buf[frontier])
       /\ UNCHANGED <<around, group, pc, claim, hashing, pending,
                      failed, buf, sizes, result>>

(* All workers have ended.  A ClientNode goes on with whole transfers.     *)
StreamEnd ==
    /\ pc = "stream" /\ pending = {}
    /\ failed \/ ~hashing \/ Len(hashed) = Count(claim)
    /\ IF failed \/ (hashing /\ hashed # Payload[claim])
       THEN IF transport = "auto"
            THEN /\ pc' = "whole" /\ failed' = FALSE
                 /\ buf' = Empty /\ hashed' = << >>
                 /\ UNCHANGED <<group, claim, hashing, pending, sizes, result>>
            ELSE GroupFails
       ELSE /\ pc' = "verify"
            /\ UNCHANGED <<claim, hashing, pending, failed>>
            /\ Quiet
    /\ UNCHANGED <<around>>

-----------------------------------------------------------------------------
(* The whole version in one UCXX transfer: GET_VERSION.  The server reads  *)
(* the metadata, the data and the metadata again, each under the lock of   *)
(* its store, which another thread may take in between.                    *)

At(where) ==
    /\ pc = where
    /\ UNCHANGED <<transport, servers, group, claim, hashing, pending, failed,
                   hashed, sizes, result>>

GetMetadata(s) ==
    /\ At("whole") /\ s \in Sources /\ srv[s].content # None
    /\ whole' = [server |-> s, metadata |-> srv[s].content, data |-> << >>]
    /\ pc' = "data"
    /\ UNCHANGED buf

(* get: only a complete version has data. *)
GetData ==
    LET held == srv[whole.server]
    IN /\ At("data") /\ held.content # None /\ held.have = Indexes(held.content)
       /\ whole' = [whole EXCEPT !.data = Payload[held.content]]
       /\ pc' = "again"
       /\ UNCHANGED buf

(* The metadata is the same as before and within the limit of the client;  *)
(* the data is sent as the metadata divides it.                            *)
SameMetadata ==
    /\ At("again") /\ srv[whole.server].content = whole.metadata
    /\ Total(Payload[whole.metadata]) <= MaxBytes
    /\ pc' = "received"
    /\ UNCHANGED <<buf, whole>>

(* Mutant: the digest of the data is not compared with the metadata's. *)
DigestOfAnything == TRUE

(* _fetch: the digest of what was received is that of the metadata. *)
DigestMatches == whole.data = Payload[whole.metadata]

(* fetch_version returns, and its metadata agrees with the list. *)
WholeFetched ==
    /\ At("received") /\ DigestMatches /\ whole.metadata = claim
    /\ buf' = [i \in AllIndexes |->
                 IF i \in DOMAIN whole.data THEN whole.data[i] ELSE None]
    /\ whole' = NoWhole
    /\ pc' = "verify"

(* There is no verified endpoint, or the transfer raises at any point.     *)
(* With transport "ucxx" that ends the group, or, as UCXXUnavailableError  *)
(* and VersionUnavailableError are none of those the loop catches, the     *)
(* fetch.                                                                  *)
WholeFails ==
    /\ pc \in {"whole", "data", "again", "received"}
    /\ whole' = NoWhole
    /\ IF transport = "auto"
       THEN Phase("sizes", claim) /\ UNCHANGED hashing /\ Quiet
       ELSE \/ GroupFails
            \/ /\ pc' = "end" /\ result' = "raised"
               /\ UNCHANGED <<group, claim, hashing, pending, failed, buf,
                              hashed, sizes>>
    /\ UNCHANGED <<transport, servers>>

-----------------------------------------------------------------------------
(* HTTP without a manifest: the sizes first, then the shards *)

(* get_size: HEAD at servers sampled at random. *)
SizeOf(i, s) ==
    /\ pc = "sizes" /\ i \in pending /\ s \in Sampled /\ Served(s, i) # None
    /\ sizes' = [sizes EXCEPT ![i] = Length[Served(s, i)]]
    /\ pending' = pending \ {i}
    /\ UNCHANGED <<around, group, pc, claim, hashing, failed, buf,
                   hashed, result>>

HasSize(i, p) == p # None /\ Length[p] = sizes[i]

(* download_into, and download_into_from in MeasuredClient. *)
Part(i, s) ==
    /\ pc = "parts" /\ i \in pending /\ s \in Sampled
    /\ HasSize(i, Served(s, i))
    /\ buf' = [buf EXCEPT ![i] = Served(s, i)]
    /\ pending' = pending \ {i}
    /\ UNCHANGED <<around, group, pc, claim, hashing, failed,
                   hashed, sizes, result>>

(* Sampling may meet a server without the resource each time it tries; the *)
(* rotation of MeasuredClient asks every server for the bytes, one after   *)
(* another: if servers have changed, only the one it asks last need still  *)
(* be without them.                                                        *)
Unavailable(i) ==
    LET bad == {s \in Sources : IF pc = "sizes" THEN Served(s, i) = None
                                ELSE ~HasSize(i, Served(s, i))}
    IN /\ pc \in {"sizes", "parts"} /\ i \in pending
       /\ bad # {}
       /\ Measured /\ pc = "parts" => changes > 0 \/ bad = Sources
       /\ pending' = pending \ {i}
       /\ failed' = TRUE
       /\ UNCHANGED <<around, group, pc, claim, hashing, buf,
                      hashed, sizes, result>>

(* The size of the whole, as the servers announced that of its shards. *)
Announced == FoldSeq(LAMBDA n, sum : n + sum, 0, [i \in Indexes(claim) |-> sizes[i]])

SizesEnd ==
    /\ pc = "sizes" /\ pending = {}
    /\ IF failed \/ Announced > MaxBytes
       THEN GroupFails
       ELSE Phase("parts", claim) /\ UNCHANGED hashing /\ Quiet
    /\ UNCHANGED <<around>>

(* The digest of the whole is compared with the list's. *)
PartsEnd ==
    /\ pc = "parts" /\ pending = {}
    /\ IF failed \/ Data # Payload[claim]
       THEN GroupFails
       ELSE /\ pc' = "verify"
            /\ UNCHANGED <<claim, hashing, pending, failed>>
            /\ Quiet
    /\ UNCHANGED <<around>>

-----------------------------------------------------------------------------
Worker(i) ==
    \/ GiveUp(i) \/ Unavailable(i)
    \/ \E s \in Servers : Receive(i, s) \/ SizeOf(i, s) \/ Part(i, s)

Main ==
    \/ NextGroup \/ Verify \/ ListVersions \/ NoManifest \/ Hash \/ StreamEnd
    \/ GetData \/ SameMetadata \/ WholeFetched \/ WholeFails
    \/ SizesEnd \/ PartsEnd
    \/ \E s \in Servers : ManifestLoaded(s) \/ GetMetadata(s)

Next ==
    \/ Main
    \/ \E i \in AllIndexes : Worker(i)
    \/ \E s \in Servers, h \in Holdings : Change(s, h)

Spec == Init /\ [][Next]_vars

(* The thread of the download goes on, and so do its workers: they come to *)
(* an end of their shard, as an owner that has it is asked until it        *)
(* delivers and one that has it not until the deadline.                    *)
Fairness ==
    /\ WF_vars(Main)
    /\ \A i \in AllIndexes :
          WF_vars(Worker(i) /\ i \notin pending')

FairSpec == Spec /\ Fairness

-----------------------------------------------------------------------------
(* Properties *)

(* The state has its type; workers only run in the phases that have them. *)
TypeOK ==
    /\ srv \in [Servers -> Holdings]
    /\ group \in 0 .. Len(Groups)
    /\ pc \in {"group", "list", "manifest", "stream", "whole", "data",
               "again", "received", "sizes", "parts",
               "verify", "end"}
    /\ claim \in Contents \cup {None}
    /\ pending \subseteq AllIndexes
    /\ buf \in [AllIndexes -> Bytes \cup {None}]
    /\ \A k \in 1 .. Len(hashed) : hashed[k] \in Bytes
    /\ result \in {None, "raised", "payload"}
    /\ pending # {} => pc \in {"stream", "sizes", "parts"}

(* A download hands over exactly the content that the list, or for         *)
(* MeasuredClient the manifest, promised: not a mixture of what different  *)
(* servers held at different times, on whichever path it was made.         *)
DownloadIsSound == pc = "verify" => Data = Payload[claim]

(* The digest on the way is over what is in the buffer: nothing that was   *)
(* hashed is written again.                                                *)
HashedIsKept == \A k \in 1 .. Len(hashed) : hashed[k] = buf[k]

(* Every fetch ends, with the publication or with an exception. *)
Ends == <>(pc = "end")

Steady(g) ==
    \A s \in Groups[g] :
        srv[s].content = Wanted /\ srv[s].have = Indexes(Wanted)

(* One group that holds the publication is enough, whatever the groups     *)
(* before it do; with transport "ucxx" an exception may end the fetch.     *)
OneGroupIsEnough ==
    \A g \in 1 .. Len(Groups) :
        transport # "ucxx" /\ [](Steady(g)) => <>(result = "payload")
=============================================================================
