--------------------------- MODULE CheckpointStore ---------------------------
(***************************************************************************)
(* The checkpoint store as a state machine: any thread calls any method    *)
(* with any argument, one method at a time because each holds the lock.    *)
(***************************************************************************)
EXTENDS StoreOps

VARIABLES
    store,  \* the store's value
    last,   \* the last call: method, version name and outcome
    clean   \* history: no shard was put into a version held complete since
            \* the store was empty

vars == <<store, last, clean>>

Call(op, name, out) == [op |-> op, name |-> name, out |-> out]

Init ==
    /\ store = EmptyStore
    /\ last = Call("init", None, "ok")
    /\ clean = TRUE

(* Mutant: a put that fails has already popped the version it replaces. *)
PutPopsFirst(name, data, claimed, shard, sums) ==
    LET out == PutError(data, claimed, shard, sums)
    IN /\ last' = Call("put", name, out)
       /\ store' = IF out = "ok"
                   THEN StoreComplete(store, name, data, data, shard, sums)
                   ELSE Drop(store, name)
       /\ UNCHANGED clean

Put(name, data, claimed, shard, sums) ==
    LET out == PutError(data, claimed, shard, sums)
    IN /\ last' = Call("put", name, out)
       /\ store' = IF out = "ok"
                   THEN StoreComplete(store, name, data, data, shard, sums)
                   ELSE store
       /\ UNCHANGED clean

PutVerified(name, data, sum, shard, sums) ==
    LET out == PutVerifiedError(data, shard, sums)
    IN /\ last' = Call("put", name, out)
       /\ store' = IF out = "ok"
                   THEN StoreComplete(store, name, sum, data, shard, sums)
                   ELSE store
       /\ UNCHANGED clean

Begin(name, m) ==
    LET sums == SumsOf(m, m.sum)
        out == BeginVersionError(store, name, m, sums)
    IN /\ last' = Call("begin", name, out)
       /\ store' = IF out = "ok" THEN BeginVersion(store, name, m, sums)
                                 ELSE store
       /\ UNCHANGED clean

(* put_shard, and put_verified_shard with the digest the transport checked *)
PutOneShard(name, i, bytes) ==
    /\ last' = Call("put_shard", name, PutShardError(store, name, i, bytes))
    /\ store' = PutShard(store, name, i, bytes)
    /\ clean' = (clean /\ Get(store, name) = None)

Remove(name) ==
    /\ last' = Call("remove", name,
                    IF store.ver[name] = None THEN "absent" ELSE "ok")
    /\ store' = Drop(store, name)
    /\ UNCHANGED clean

ClearAll ==
    /\ last' = Call("clear", None, "ok")
    /\ store' = Clear(store)
    /\ clean' = TRUE

(* The digests a caller may hand over with a complete version. *)
SumsArgs == Contents \cup {None}

(* The metadata of a manifest: it describes a real content. *)
Manifests == {[sum |-> c, total |-> Size[c], shard |-> z] :
                 c \in Contents, z \in ShardSizes}

(* One index past the largest shard count, so that the bound is exercised. *)
Indexes == -1 .. Capacity

Next ==
    \/ \E name \in Names, data \in Contents, z \in ShardSizes, g \in SumsArgs :
          \/ \E claimed \in Contents \cup {None} : Put(name, data, claimed, z, g)
          \/ \E sum \in Contents : PutVerified(name, data, sum, z, g)
    \/ \E name \in Names, m \in Manifests : Begin(name, m)
    \/ \E name \in Names, i \in Indexes, c \in Contents : PutOneShard(name, i, c)
    \/ \E name \in Names : Remove(name)
    \/ ClearAll

Spec == Init /\ [][Next]_vars

-----------------------------------------------------------------------------
(* Properties *)

Outcomes == {"ok", "absent", "VersionTooLarge", "ValueError",
             "VersionNotFound", "InvalidShardIndex"}

(* The state has its type, the OrderedDict's keys are the held versions,   *)
(* each once, and a held version's shard indexes and size agree with its   *)
(* metadata (VersionMetadata, _StoredVersion).                             *)
TypeOK ==
    /\ store \in Stores
    /\ clean \in BOOLEAN
    /\ last \in [op : {"init", "put", "begin", "put_shard", "remove", "clear"},
                 name : Names \cup {None}, out : Outcomes]
    /\ Oldest(store, Len(store.order)) = Held(store)
    /\ \A j, k \in 1 .. Len(store.order) :
          store.order[j] = store.order[k] => j = k
    /\ \A n \in Held(store) :
          /\ store.ver[n].shards \subseteq 0 .. (ShardCount(store.ver[n].meta) - 1)
          /\ store.ver[n].data # None =>
                store.ver[n].meta.total = Size[store.ver[n].data]

(* used_bytes never counts less than the buffers the store keeps alive,    *)
(* whatever is replaced, evicted, removed or added in which order.         *)
NeverUndercounts == Cardinality(Retained(store, Held(store))) <= store.used

(* The buffers kept alive never exceed capacity_bytes, although the insert *)
(* of a complete version is not guarded once every version is evicted.     *)
MemoryBounded == Cardinality(Retained(store, Held(store))) <= Capacity

(* used_bytes is exactly what is kept alive (tests/test_store.py compares  *)
(* the two after concurrent updates) as long as no shard is put into a     *)
(* version held complete; a clear restores the agreement.                  *)
Accounting == clean => store.used = Cardinality(Retained(store, Held(store)))

(* A version reported complete serves every shard of its metadata, and the *)
(* shards reported available are exactly those get_shard returns.          *)
CompleteIsServable ==
    \A n \in Names :
        /\ IsComplete(store, n) =>
              \A i \in 0 .. (ShardCount(GetMetadata(store, n)) - 1) :
                  GetShardError(store, n, i) = "ok"
        /\ \A i \in AvailableShards(store, n) \cup Indexes :
              HasShard(store, n, i) <=> GetShardError(store, n, i) = "ok"

Victims == {n \in Held(store) : n \notin Held(store')}

(* What a step does to the order, to the room and to the failed call's     *)
(* surroundings: the action properties below say it of every step.         *)
EvictsOldestFirst ==
    /\ \A j, k \in 1 .. Len(store.order) :
          /\ j < k
          /\ store.order[k] \in Victims
          /\ store.order[k] # last'.name
          /\ last'.op = "put_shard" \/ store.order[j] # last'.name
          => store.order[j] \in Victims
    /\ \A j, k \in 1 .. Len(store'.order) :
          /\ j < k
          /\ store'.order[j] \in Held(store) \ {last'.name}
          /\ store'.order[k] \in Held(store) \ {last'.name}
          => Position(store, store'.order[j]) < Position(store, store'.order[k])

EvictsNoMore ==
    \A n \in Victims :
       /\ last'.op \in {"put", "put_shard"} /\ last'.out = "ok"
       /\ n # last'.name
       /\ \A m \in Victims \ {last'.name} :
             Position(store, m) <= Position(store, n)
       => store'.used + StoredBytes(store.ver[n]) > Capacity

ContainsFailure ==
    last'.out \notin {"ok", "absent"} =>
       \/ store' = store
       \/ /\ last'.op = "put_shard"
          /\ last'.out = "VersionTooLarge"
          /\ store'.ver[last'.name] = store.ver[last'.name]
          /\ Victims = {n \in Held(store) :
                Position(store, n) < Position(store, last'.name)}

(* Eviction is in insertion order: a version leaves only if every older    *)
(* one leaves too, the version a put replaces or a remove names apart, and *)
(* the survivors keep their order.  A shard thus never drives out a        *)
(* version younger than the one it belongs to.                             *)
FifoEviction == [][EvictsOldestFirst]_vars

(* No version is evicted that could have stayed: with the youngest victim  *)
(* kept, the new bytes would not have fitted.                              *)
EvictionIsNeeded == [][EvictsNoMore]_vars

(* A call that raises changes nothing, except that a shard which does not  *)
(* fit has driven out every version older than its own, and no other.      *)
FailureIsContained == [][ContainsFailure]_vars
=============================================================================
