------------------------------ MODULE StoreOps ------------------------------
(***************************************************************************)
(* CheckpointStore of litecast/store.py as operators on a store value.     *)
(*                                                                         *)
(* Every public method of the class holds the store's lock from its first  *)
(* look at the state to its return, so a method is one function from a     *)
(* store value to the next one plus what the caller sees.  The modules     *)
(* that own a store (CheckpointStore, OriginServer, MiddleNode) EXTEND     *)
(* this one and apply the operators to their own variable.                 *)
(*                                                                         *)
(* A checkpoint's bytes are a model value of Contents with a length Size.  *)
(* A BLAKE3 digest is the content it is the digest of: hashing is assumed  *)
(* to be injective.  A retained byte is a cell <<name, chunk, offset>>, so *)
(* that a sum of buffer lengths is the cardinality of a set of cells.      *)
(***************************************************************************)
EXTENDS Integers, Sequences, FiniteSets

CONSTANTS
    Names,          \* version names
    Contents,       \* checkpoint byte strings, identified with their digests
    Size,           \* Size[c] is the length in bytes of content c
    ShardSizes,     \* shard sizes a caller may ask for
    Capacity,       \* capacity_bytes
    None            \* Python's None, () for an absent tuple

ASSUME SizeAssumption == Size \in [Contents -> Nat]
ASSUME ShardSizesAssumption == ShardSizes \subseteq (Nat \ {0})
ASSUME CapacityAssumption == Capacity \in Nat
-----------------------------------------------------------------------------
(* VersionMetadata and _StoredVersion *)

Metadata == [sum : Contents, total : Nat, shard : ShardSizes]

(* shard_count of a metadata record: the ceiling of total / shard. *)
ShardCount(m) == (m.total + m.shard - 1) \div m.shard

(* The length of shard i: every shard is full but, perhaps, the last. *)
ShardLength(m, i) ==
    IF m.shard <= m.total - i * m.shard THEN m.shard
                                        ELSE m.total - i * m.shard

(* data is the complete buffer or None, shards the set of indexes held     *)
(* one by one, sums the content whose shard digests were registered.       *)
StoredVersion == [meta : Metadata, data : Contents \cup {None},
                  shards : SUBSET Nat, sums : Contents \cup {None}]

ASSUME NoneAssumption == None \notin Contents /\ None \notin StoredVersion

(* order is the OrderedDict's order, oldest first; used is _size. *)
Stores == [order : Seq(Names), ver : [Names -> StoredVersion \cup {None}],
           used : Int]

EmptyStore == [order |-> << >>, ver |-> [n \in Names |-> None], used |-> 0]

-----------------------------------------------------------------------------
(* Bytes *)

DataCells(v) == IF v.data = None THEN {} ELSE {-1} \X (0 .. (Size[v.data] - 1))

ShardCells(m, i) == {i} \X (0 .. (ShardLength(m, i) - 1))

ShardsCells(v) == UNION {ShardCells(v.meta, i) : i \in v.shards}

(* stored_bytes: with a complete buffer the shards are not looked at. *)
CountedCells(v) == IF v.data # None THEN DataCells(v) ELSE ShardsCells(v)

StoredBytes(v) == IF v = None THEN 0 ELSE Cardinality(CountedCells(v))

(* The memory the process really retains for a version. *)
RetainedCells(v) == DataCells(v) \cup ShardsCells(v)

Held(s) == {n \in Names : s.ver[n] # None}

Retained(s, S) == UNION {{n} \X RetainedCells(s.ver[n]) : n \in S}

-----------------------------------------------------------------------------
(* Eviction and removal *)

(* The k oldest versions, and the bytes their popping gives back. *)
Oldest(s, k) == {s.order[j] : j \in 1 .. k}

Counted(s, S) == UNION {{n} \X CountedCells(s.ver[n]) : n \in S}

(* Mutant: one byte more than the capacity is let in. *)
FitsOneMore(s, k, extra) ==
    s.used - Cardinality(Counted(s, Oldest(s, k))) + extra <= Capacity + 1

(* Mutant: an exactly full store is taken for an overfull one. *)
FitsStrictly(s, k, extra) ==
    s.used - Cardinality(Counted(s, Oldest(s, k))) + extra < Capacity

Fits(s, k, extra) == s.used - Cardinality(Counted(s, Oldest(s, k))) + extra <= Capacity

(* The loops pop the oldest version until the new bytes fit or no version  *)
(* may be popped any more.                                                 *)
EvictCount(s, limit, extra) ==
    CHOOSE k \in 0 .. limit :
        /\ k = limit \/ Fits(s, k, extra)
        /\ \A j \in 0 .. (k - 1) : ~Fits(s, j, extra)

EvictOldest(s, k) ==
    [order |-> SubSeq(s.order, k + 1, Len(s.order)),
     ver |-> [n \in Names |-> IF n \in Oldest(s, k)
                              THEN None ELSE s.ver[n]],
     used |-> s.used - Cardinality(Counted(s, Oldest(s, k)))]

Position(s, name) == CHOOSE j \in 1 .. Len(s.order) : s.order[j] = name

(* The sequence q without its element at p. *)
Without(q, p) == [i \in 1 .. (Len(q) - 1) |-> q[IF i < p THEN i ELSE i + 1]]

(* Mutant: the popped version's bytes are not given back. *)
DropKeepsSize(s, name) ==
    IF s.ver[name] = None THEN s
    ELSE LET p == Position(s, name)
         IN [order |-> Without(s.order, p),
             ver |-> [s.ver EXCEPT ![name] = None],
             used |-> s.used]

(* pop(name, None) and the size adjustment that follows it *)
Drop(s, name) ==
    IF s.ver[name] = None THEN s
    ELSE LET p == Position(s, name)
         IN [order |-> Without(s.order, p),
             ver |-> [s.ver EXCEPT ![name] = None],
             used |-> s.used - StoredBytes(s.ver[name])]

(* A store with version v entered last, or changed in place. *)
Insert(s, name, v, used) ==
    [order |-> Append(s.order, name),
     ver |-> [s.ver EXCEPT ![name] = v], used |-> used]

Update(s, name, v, used) ==
    [order |-> s.order, ver |-> [s.ver EXCEPT ![name] = v], used |-> used]

-----------------------------------------------------------------------------
(* Writers.  An operator XxxError is the exception a method raises, or     *)
(* "ok"; the operator Xxx is the store it leaves.                          *)

(* A tuple of shard digests must have one digest per shard, or be empty. *)
SumsFit(data, shard, sums) ==
    \/ sums = None
    \/ ShardCount([total |-> Size[sums], shard |-> shard])
          = ShardCount([total |-> Size[data], shard |-> shard])

(* claimed is the caller's digest of the whole, checked against the data. *)
PutError(data, claimed, shard, sums) ==
    IF Size[data] > Capacity THEN "VersionTooLarge"
    ELSE IF claimed \notin {None, data} THEN "ValueError"
    ELSE IF ~SumsFit(data, shard, sums) THEN "ValueError"
    ELSE "ok"

(* Mutant: the oversize check is left to the eviction loop. *)
PutVerifiedNoSizeCheck(data, shard, sums) ==
    IF ~SumsFit(data, shard, sums) THEN "ValueError" ELSE "ok"

(* put_verified takes the caller's word for the digest. *)
PutVerifiedError(data, shard, sums) ==
    IF Size[data] > Capacity THEN "VersionTooLarge"
    ELSE IF ~SumsFit(data, shard, sums) THEN "ValueError"
    ELSE "ok"

(* _store_complete: pop the previous entry, evict, insert as the newest. *)
StoreComplete(s, name, sum, data, shard, sums) ==
    LET t == Drop(s, name)
        k == EvictCount(t, Len(t.order), Size[data])
        e == EvictOldest(t, k)
        m == [sum |-> sum, total |-> Size[data], shard |-> shard]
        new == [meta |-> m, data |-> data, shards |-> {}, sums |-> sums]
    IN Insert(e, name, new, e.used + Size[data])

(* An empty version has no shard, hence no shard digests either. *)
SumsOf(m, c) == IF m.total = 0 THEN None ELSE c

BeginVersionError(s, name, m, sums) ==
    IF s.ver[name] = None THEN "ok"
    ELSE IF s.ver[name].meta # m \/ s.ver[name].sums \notin {None, sums}
         THEN "ValueError"
    ELSE "ok"

(* Mutant: a known version is entered a second time. *)
BeginVersionTwice(s, name, m, sums) ==
    Insert(s, name, [meta |-> m, data |-> None, shards |-> {}, sums |-> sums],
           s.used)

(* A known version only gains the shard digests it did not have. *)
BeginVersion(s, name, m, sums) ==
    LET w == s.ver[name]
    IN IF w # None
       THEN Update(s, name, [meta |-> w.meta, data |-> w.data,
                             shards |-> w.shards, sums |-> sums], s.used)
       ELSE Insert(s, name, [meta |-> m, data |-> None,
                             shards |-> {}, sums |-> sums], s.used)

(* What precedes the eviction loop of _put_shard.  bytes is the content    *)
(* the shard was cut from, which gives both its length and its digest.     *)
PutShardCheck(s, name, i, bytes) ==
    IF s.ver[name] = None THEN "VersionNotFound"
    ELSE LET v == s.ver[name]
         IN IF i \notin 0 .. (ShardCount(v.meta) - 1) THEN "InvalidShardIndex"
            ELSE IF ShardLength([total |-> Size[bytes], shard |-> v.meta.shard], i)
                      # ShardLength(v.meta, i) THEN "ValueError"
            ELSE IF v.sums \notin {None, bytes} THEN "ValueError"
            ELSE "ok"

(* Mutant: only a version's first shard is counted. *)
AdditionalFirstOnly(s, name, i) ==
    IF s.ver[name].shards # {} THEN 0 ELSE ShardLength(s.ver[name].meta, i)

Additional(s, name, i) ==
    IF i \in s.ver[name].shards THEN 0 ELSE ShardLength(s.ver[name].meta, i)

(* Mutant: the loop skips the version being written and goes on. *)
PutShardEvictsYounger(s, name, i) ==
    LET p == Position(s, name)
        t == [s EXCEPT !.order = Append(Without(s.order, p), name)]
    IN EvictOldest(t, EvictCount(t, Len(t.order) - 1, Additional(s, name, i)))

(* The loop stops at the version being written: it is never its victim. *)
PutShardEvicted(s, name, i) ==
    EvictOldest(s, EvictCount(s, Position(s, name) - 1, Additional(s, name, i)))

PutShardError(s, name, i, bytes) ==
    LET check == PutShardCheck(s, name, i, bytes)
    IN IF check # "ok" THEN check
       ELSE IF PutShardEvicted(s, name, i).used + Additional(s, name, i)
                  > Capacity
            THEN "VersionTooLarge"
       ELSE "ok"

(* The victims stay evicted even when the shard does not fit after all. *)
PutShard(s, name, i, bytes) ==
    IF PutShardCheck(s, name, i, bytes) # "ok" THEN s
    ELSE LET e == PutShardEvicted(s, name, i)
             w == s.ver[name]
         IN IF e.used + Additional(s, name, i) > Capacity THEN e
            ELSE Update(e, name, [meta |-> w.meta, data |-> w.data,
                                  shards |-> w.shards \cup {i},
                                  sums |-> w.sums],
                        e.used + Additional(s, name, i))

Clear(s) == EmptyStore

-----------------------------------------------------------------------------
(* Readers *)

AvailableShards(s, name) ==
    IF s.ver[name] = None THEN {}
    ELSE IF s.ver[name].data # None
         THEN 0 .. (ShardCount(s.ver[name].meta) - 1)
    ELSE s.ver[name].shards

HasShard(s, name, i) == i \in AvailableShards(s, name)

(* Mutant: off by one in the number of shards that make a version. *)
IsCompleteOneShort(s, name) ==
    /\ s.ver[name] # None
    /\ \/ s.ver[name].data # None
       \/ Cardinality(s.ver[name].shards) + 1 >= ShardCount(s.ver[name].meta)

IsComplete(s, name) ==
    /\ s.ver[name] # None
    /\ \/ s.ver[name].data # None
       \/ Cardinality(s.ver[name].shards) = ShardCount(s.ver[name].meta)

GetMetadata(s, name) ==
    IF s.ver[name] = None THEN None ELSE s.ver[name].meta

(* get returns the complete buffer only: shards are never assembled. *)
Get(s, name) == IF s.ver[name] = None THEN None ELSE s.ver[name].data

GetShardError(s, name, i) ==
    IF s.ver[name] = None THEN "VersionNotFound"
    ELSE IF i \notin 0 .. (ShardCount(s.ver[name].meta) - 1)
         THEN "InvalidShardIndex"
    ELSE IF s.ver[name].data = None /\ i \notin s.ver[name].shards
         THEN "VersionNotFound"
    ELSE "ok"

(* get_shard_with_checksum: the content the bytes are cut from and the     *)
(* content whose digest accompanies them.  A shard held by itself has      *)
(* passed the registered digests.                                          *)
GetShardWithChecksum(s, name, i) ==
    LET v == s.ver[name]
        bytes == IF v.data = None THEN v.sums ELSE v.data
    IN [bytes |-> bytes, sum |-> IF v.sums # None THEN v.sums ELSE bytes]
=============================================================================
