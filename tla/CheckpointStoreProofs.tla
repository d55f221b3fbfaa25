------------------------ MODULE CheckpointStoreProofs ------------------------
(***************************************************************************)
(* Theorems about CheckpointStore for every set of names, every content    *)
(* and every capacity, whatever the sequence of calls.  The inductive      *)
(* invariant StoreInv says that the store is Consistent, and Exact while   *)
(* the history is clean; the lemmas of StoreOpsProofs carry each method.   *)
(***************************************************************************)
EXTENDS CheckpointStore, StoreOpsProofs

CallType == [op : {"init", "put", "begin", "put_shard", "remove", "clear"},
             name : Names \cup {None}, out : Outcomes]

(* The inductive invariant. *)
StoreInv ==
    /\ Consistent(store)
    /\ last \in CallType
    /\ clean \in BOOLEAN
    /\ clean => Exact(store)

LEMMA InitStoreInv == Init => StoreInv
BY EmptyStoreOK DEF Init, StoreInv, CallType, Call, Outcomes

LEMMA NextStoreInv == StoreInv /\ [Next]_vars => StoreInv'
<1> SUFFICES ASSUME StoreInv, [Next]_vars PROVE StoreInv'
  OBVIOUS
<1> USE DEF StoreInv
<1>1. ASSUME NEW name \in Names, NEW data \in Contents, NEW z \in ShardSizes,
             NEW g \in SumsArgs, NEW claimed \in Contents \cup {None},
             Put(name, data, claimed, z, g)
      PROVE  StoreInv'
  <2>1. last' \in CallType /\ clean' = clean
    BY <1>1 DEF Put, PutError, Call, CallType, Outcomes
  <2>2. \/ store' = store
        \/ /\ Size[data] <= Capacity
           /\ store' = StoreComplete(store, name, data, data, z, g)
    <3>1. Size[data] \in Nat /\ Capacity \in Nat
      BY SizeAssumption, CapacityAssumption
    <3> QED BY <1>1, <3>1 DEF Put, PutError
  <2> QED BY <2>1, <2>2, StoreCompleteOK DEF SumsArgs
<1>2. ASSUME NEW name \in Names, NEW data \in Contents, NEW z \in ShardSizes,
             NEW g \in SumsArgs, NEW sum \in Contents,
             PutVerified(name, data, sum, z, g)
      PROVE  StoreInv'
  <2>1. last' \in CallType /\ clean' = clean
    BY <1>2 DEF PutVerified, PutVerifiedError, Call, CallType, Outcomes
  <2>2. \/ store' = store
        \/ /\ Size[data] <= Capacity
           /\ store' = StoreComplete(store, name, sum, data, z, g)
    <3>1. Size[data] \in Nat /\ Capacity \in Nat
      BY SizeAssumption, CapacityAssumption
    <3> QED BY <1>2, <3>1 DEF PutVerified, PutVerifiedError
  <2> QED BY <2>1, <2>2, StoreCompleteOK DEF SumsArgs
<1>3. ASSUME NEW name \in Names, NEW m \in Manifests, Begin(name, m)
      PROVE  StoreInv'
  <2>1. m \in Metadata /\ SumsOf(m, m.sum) \in Contents \cup {None}
    BY SizeAssumption DEF Manifests, Metadata, SumsOf
  <2>2. last' \in CallType /\ clean' = clean
    BY <1>3 DEF Begin, BeginVersionError, Call, CallType, Outcomes
  <2>3. \/ store' = store
        \/ store' = BeginVersion(store, name, m, SumsOf(m, m.sum))
    BY <1>3 DEF Begin
  <2> QED BY <2>1, <2>2, <2>3, BeginVersionOK
<1>4. ASSUME NEW name \in Names, NEW i \in Indexes, NEW c \in Contents,
             PutOneShard(name, i, c)
      PROVE  StoreInv'
  <2>1. last' \in CallType
    BY <1>4 DEF PutOneShard, PutShardError, PutShardCheck, Call, CallType, Outcomes
  <2>2. i \in Int
    BY CapacityAssumption DEF Indexes
  <2>3. /\ store' = PutShard(store, name, i, c)
        /\ clean' \in BOOLEAN
        /\ clean' => clean /\ Get(store, name) = None
    BY <1>4 DEF PutOneShard
  <2> QED BY <2>1, <2>2, <2>3, PutShardOK
<1>5. ASSUME NEW name \in Names, Remove(name) PROVE StoreInv'
  <2>1. last' \in CallType /\ clean' = clean
    BY <1>5 DEF Remove, Call, CallType, Outcomes
  <2>2. store' = Drop(store, name)
    BY <1>5 DEF Remove
  <2> QED BY <2>1, <2>2, DropOK
<1>6. CASE ClearAll
  <2>1. last' \in CallType /\ clean' = TRUE /\ store' = EmptyStore
    BY <1>6 DEF ClearAll, Clear, Call, CallType, Outcomes
  <2> QED BY <2>1, EmptyStoreOK
<1>7. CASE UNCHANGED vars
  BY <1>7 DEF vars
<1> QED BY <1>1, <1>2, <1>3, <1>4, <1>5, <1>6, <1>7 DEF Next

(* Every reachable state satisfies the inductive invariant. *)
THEOREM StoreInvariant == Spec => []StoreInv
BY InitStoreInv, NextStoreInv, PTL DEF Spec

(* The state keeps its type, and the OrderedDict's keys are the held       *)
(* versions, whatever sequence of calls litecast/store.py serves.          *)
THEOREM TypeCorrect == Spec => []TypeOK
<1>1. StoreInv => TypeOK
  BY DEF StoreInv, Consistent, Keys, VersionOK, TypeOK, CallType
<1> QED BY <1>1, StoreInvariant, PTL

(* used_bytes never undercounts the retained buffers, for every caller,    *)
(* shards put into complete versions included.                             *)
THEOREM RetainedIsCounted == Spec => []NeverUndercounts
<1>1. StoreInv => NeverUndercounts
  BY DEF StoreInv, Consistent, AllCells, NeverUndercounts
<1> QED BY <1>1, StoreInvariant, PTL

(* The retained buffers never exceed capacity_bytes. *)
THEOREM MemoryIsBounded == Spec => []MemoryBounded
<1>1. StoreInv => MemoryBounded
  BY DEF StoreInv, Consistent, AllCells, MemoryBounded
<1> QED BY <1>1, StoreInvariant, PTL

(* As long as no shard is put into a version held complete, used_bytes is  *)
(* exactly the number of retained bytes.                                   *)
THEOREM AccountingIsExact == Spec => []Accounting
<1>1. StoreInv => Accounting
  BY DEF StoreInv, Exact, AllCells, Accounting
<1> QED BY <1>1, StoreInvariant, PTL

(* A subset of the shard indexes with as many elements is all of them. *)
LEMMA AllShards ==
    ASSUME NEW N \in Nat, NEW S \in SUBSET (0 .. (N - 1)), Cardinality(S) = N
    PROVE  S = 0 .. (N - 1)
<1> DEFINE I == 0 .. (N - 1)
<1>1. IsFiniteSet(I) /\ Cardinality(I) = N
  <2>1. 0 \in Int /\ N - 1 \in Int
    OBVIOUS
  <2>2. /\ IsFiniteSet(I)
        /\ Cardinality(I) = IF 0 > N - 1 THEN 0 ELSE (N - 1) - 0 + 1
    BY <2>1, FS_Interval
  <2> QED BY <2>2
<1> HIDE DEF I
<1>2. S \in SUBSET I
  BY DEF I
<1> QED BY <1>1, <1>2, FS_Subset DEF I

(* has_shard, is_complete and get_shard agree: what is reported available, *)
(* one shard or all of them, is what a reader is given.                    *)
THEOREM CompleteVersionsAreServable == Spec => []CompleteIsServable
<1>1. StoreInv => CompleteIsServable
  <2> SUFFICES ASSUME StoreInv, NEW n \in Names, store.ver[n] # None
               PROVE  /\ IsComplete(store, n) =>
                            \A i \in 0 .. (ShardCount(GetMetadata(store, n)) - 1) :
                               GetShardError(store, n, i) = "ok"
                      /\ \A i \in AvailableShards(store, n) \cup Indexes :
                            HasShard(store, n, i)
                               <=> GetShardError(store, n, i) = "ok"
    BY DEF CompleteIsServable, IsComplete, AvailableShards, HasShard, GetShardError
  <2> DEFINE w == store.ver[n]
             N == ShardCount(w.meta)
  <2>1. w \in StoredVersion /\ VersionOK(w)
    BY DEF StoreInv, Consistent, Keys, Stores, Held
  <2>2. N \in Nat
    <3>1. w.meta.total \in Nat /\ w.meta.shard \in Nat \ {0}
      BY <2>1, ShardSizesAssumption DEF StoredVersion, Metadata
    <3> DEFINE t == w.meta.total
               z == w.meta.shard
    <3>2. t \in Nat /\ z \in Nat \ {0}
      BY <3>1
    <3>3. N = (t + z - 1) \div z
      BY DEF ShardCount
    <3> HIDE DEF N, t, z
    <3> QED BY <3>2, <3>3
  <2>3. w.shards \in SUBSET (0 .. (N - 1))
    BY <2>1 DEF VersionOK
  <2>4. GetMetadata(store, n) = w.meta
    BY DEF GetMetadata
  <2> HIDE DEF N
  <2>5. ASSUME IsComplete(store, n), NEW i \in 0 .. (N - 1)
        PROVE  GetShardError(store, n, i) = "ok"
    <3>1. w.data # None \/ w.shards = 0 .. (N - 1)
      BY <2>2, <2>3, <2>5, AllShards DEF IsComplete, N
    <3> QED BY <2>5, <3>1 DEF GetShardError, N
  <2>6. ASSUME NEW i
        PROVE  HasShard(store, n, i) <=> GetShardError(store, n, i) = "ok"
    BY <2>3 DEF HasShard, AvailableShards, GetShardError, N
  <2> QED BY <2>4, <2>5, <2>6 DEF N
<1> QED BY <1>1, StoreInvariant, PTL

-----------------------------------------------------------------------------
(* Action properties *)

(* The effect of each call on the store. *)
LEMMA StepCases ==
    ASSUME StoreInv, [Next]_vars
    PROVE  \/ UNCHANGED vars
           \/ store' = store /\ last'.name \in Names
           \/ \E name \in Names, data \in Contents, sum \in Contents,
                 z \in ShardSizes, g \in Contents \cup {None} :
                 /\ last' = Call("put", name, "ok")
                 /\ store' = StoreComplete(store, name, sum, data, z, g)
           \/ \E name \in Names, m \in Metadata, g \in Contents \cup {None} :
                 /\ last' = Call("begin", name, "ok")
                 /\ store' = BeginVersion(store, name, m, g)
           \/ \E name \in Names, i \in Int, c \in Contents :
                 /\ PutShardCheck(store, name, i, c) = "ok"
                 /\ last' = Call("put_shard", name, PutShardError(store, name, i, c))
                 /\ store' = PutShard(store, name, i, c)
           \/ \E name \in Names :
                 /\ last'.op = "remove" /\ last'.name = name
                 /\ last'.out \in {"ok", "absent"}
                 /\ store' = Drop(store, name)
           \/ last' = Call("clear", None, "ok") /\ store' = EmptyStore
<1>1. ASSUME NEW name \in Names, NEW data \in Contents, NEW z \in ShardSizes,
             NEW g \in SumsArgs, NEW claimed \in Contents \cup {None},
             Put(name, data, claimed, z, g)
      PROVE  \/ store' = store /\ last'.name \in Names
             \/ /\ last' = Call("put", name, "ok")
                /\ store' = StoreComplete(store, name, data, data, z, g)
  BY <1>1 DEF Put, Call
<1>2. ASSUME NEW name \in Names, NEW data \in Contents, NEW z \in ShardSizes,
             NEW g \in SumsArgs, NEW sum \in Contents,
             PutVerified(name, data, sum, z, g)
      PROVE  \/ store' = store /\ last'.name \in Names
             \/ /\ last' = Call("put", name, "ok")
                /\ store' = StoreComplete(store, name, sum, data, z, g)
  BY <1>2 DEF PutVerified, Call
<1>3. ASSUME NEW name \in Names, NEW m \in Manifests, Begin(name, m)
      PROVE  \/ store' = store /\ last'.name \in Names
             \/ /\ m \in Metadata /\ SumsOf(m, m.sum) \in Contents \cup {None}
                /\ last' = Call("begin", name, "ok")
                /\ store' = BeginVersion(store, name, m, SumsOf(m, m.sum))
  <2>1. m \in Metadata /\ SumsOf(m, m.sum) \in Contents \cup {None}
    BY SizeAssumption DEF Manifests, Metadata, SumsOf
  <2> QED BY <1>3, <2>1 DEF Begin, Call
<1>4. ASSUME NEW name \in Names, NEW i \in Indexes, NEW c \in Contents,
             PutOneShard(name, i, c)
      PROVE  \/ store' = store /\ last'.name \in Names
             \/ /\ i \in Int /\ PutShardCheck(store, name, i, c) = "ok"
                /\ last' = Call("put_shard", name, PutShardError(store, name, i, c))
                /\ store' = PutShard(store, name, i, c)
  <2>1. i \in Int
    BY CapacityAssumption DEF Indexes
  <2> QED BY <1>4, <2>1 DEF PutOneShard, PutShard, Call
<1>5. ASSUME NEW name \in Names, Remove(name)
      PROVE  /\ last'.op = "remove" /\ last'.name = name
             /\ last'.out \in {"ok", "absent"} /\ store' = Drop(store, name)
  BY <1>5 DEF Remove, Call
<1>6. CASE ClearAll
  BY <1>6 DEF ClearAll, Clear
<1>7. CASE \E name \in Names, data \in Contents, z \in ShardSizes,
               g \in SumsArgs, claimed \in Contents \cup {None} :
               Put(name, data, claimed, z, g)
  BY <1>1, <1>7 DEF SumsArgs
<1>8. CASE \E name \in Names, data \in Contents, z \in ShardSizes,
               g \in SumsArgs, sum \in Contents :
               PutVerified(name, data, sum, z, g)
  BY <1>2, <1>8 DEF SumsArgs
<1>9. CASE \E name \in Names, m \in Manifests : Begin(name, m)
  BY <1>3, <1>9
<1>10. CASE \E name \in Names, i \in Indexes, c \in Contents :
               PutOneShard(name, i, c)
  BY <1>4, <1>10
<1>11. CASE \E name \in Names : Remove(name)
  BY <1>5, <1>11
<1> QED BY <1>6, <1>7, <1>8, <1>9, <1>10, <1>11 DEF Next

(* The places of the victims of a shard that finds no room. *)
LEMMA OlderThan ==
    ASSUME NEW s, Keys(s), NEW name \in Held(s)
    PROVE  Oldest(s, Position(s, name) - 1)
              = {n \in Held(s) : Position(s, n) < Position(s, name)}
<1> DEFINE p == Position(s, name)
<1>1. p \in 1 .. Len(s.order) /\ Len(s.order) \in Nat
  BY PositionOK, OrderIsHeld
<1>2. ASSUME NEW j \in 1 .. (p - 1)
      PROVE  s.order[j] \in Held(s) /\ Position(s, s.order[j]) < p
  <2>1. j \in 1 .. Len(s.order) /\ j < p
    BY <1>1
  <2>2. s.order[j] \in Held(s)
    BY <2>1, OrderIsHeld
  <2> QED BY <2>1, <2>2, PositionOK
<1>3. ASSUME NEW n \in Held(s), Position(s, n) < p
      PROVE  Position(s, n) \in 1 .. (p - 1) /\ s.order[Position(s, n)] = n
  BY <1>1, <1>3, PositionOK
<1> QED BY <1>2, <1>3 DEF Oldest

(* A call that raises leaves the store as it was, but for a shard without  *)
(* room, whose victims are exactly the versions older than its own.        *)
THEOREM FailuresAreContained == Spec => FailureIsContained
<1>1. ASSUME StoreInv, [Next]_vars PROVE [ContainsFailure]_vars
  <2>1. CASE UNCHANGED vars
    BY <2>1
  <2>2. CASE last'.out \in {"ok", "absent"} \/ store' = store
    BY <2>2 DEF ContainsFailure
  <2>3. ASSUME NEW name \in Names, NEW i \in Int, NEW c \in Contents,
               PutShardCheck(store, name, i, c) = "ok",
               last' = Call("put_shard", name, PutShardError(store, name, i, c)),
               store' = PutShard(store, name, i, c)
        PROVE  ContainsFailure
    <3> DEFINE p == Position(store, name)
               k == EvictCount(store, p - 1, Additional(store, name, i))
               e == EvictOldest(store, k)
    <3>1. Consistent(store) /\ Keys(store)
      BY <1>1 DEF StoreInv, Consistent
    <3>2. /\ name \in Held(store)
          /\ Held(store') = Held(store) \ Oldest(store, k)
          /\ \/ /\ e.used + Additional(store, name, i) > Capacity
                /\ store'.ver[name] = store.ver[name]
                /\ k = p - 1
             \/ /\ e.used + Additional(store, name, i) <= Capacity
          /\ e.used \in Int /\ Additional(store, name, i) \in Nat
      BY <2>3, <3>1, PutShardShape
    <3>3. last'.out = IF e.used + Additional(store, name, i) > Capacity
                      THEN "VersionTooLarge" ELSE "ok"
      BY <2>3 DEF PutShardError, PutShardEvicted, Call
    <3>4. last'.op = "put_shard" /\ last'.name = name
      BY <2>3 DEF Call
    <3>5. Capacity \in Nat
      BY CapacityAssumption
    <3> HIDE DEF e, k, p
    <3>6. CASE e.used + Additional(store, name, i) <= Capacity
      <4>1. last'.out = "ok"
        BY <3>2, <3>3, <3>5, <3>6
      <4> QED BY <4>1 DEF ContainsFailure
    <3>7. CASE /\ e.used + Additional(store, name, i) > Capacity
               /\ store'.ver[name] = store.ver[name]
               /\ k = p - 1
      <4>1. last'.out = "VersionTooLarge"
        BY <3>3, <3>7
      <4>2. Victims = Oldest(store, p - 1)
        <5>1. Oldest(store, p - 1) \subseteq Held(store)
          BY <3>1, <3>2, OlderThan DEF p
        <5> QED BY <5>1, <3>2, <3>7 DEF Victims
      <4>3. Victims = {n \in Held(store) : Position(store, n) < p}
        BY <4>2, <3>1, <3>2, OlderThan DEF p
      <4> QED BY <3>4, <3>7, <4>1, <4>3 DEF ContainsFailure, p
    <3> QED BY <3>2, <3>6, <3>7
  <2>4. ASSUME NEW name, NEW op, last' = Call(op, name, "ok")
        PROVE  last'.out \in {"ok", "absent"}
    BY <2>4 DEF Call
  <2> QED BY <1>1, <2>1, <2>2, <2>3, <2>4, StepCases
<1> QED BY <1>1, StoreInvariant, PTL DEF Spec, FailureIsContained

(* FIFO order, said of pairs of versions instead of places. *)
LEMMA OldestFirst ==
    ASSUME StoreInv,
           \A m, n : /\ Before(store, m, n) /\ n \in Victims /\ n # last'.name
                     /\ last'.op = "put_shard" \/ m # last'.name
                     => m \in Victims,
           \A m, n \in Held(store) \ {last'.name} :
              Before(store', m, n) => Before(store, m, n)
    PROVE  EvictsOldestFirst
<1>1. Keys(store)
  BY DEF StoreInv, Consistent
<1>2. ASSUME NEW j \in 1 .. Len(store.order), NEW k \in 1 .. Len(store.order),
             j < k, store.order[k] \in Victims, store.order[k] # last'.name,
             last'.op = "put_shard" \/ store.order[j] # last'.name
      PROVE  store.order[j] \in Victims
  <2>1. Before(store, store.order[j], store.order[k])
    BY <1>2 DEF Before
  <2> QED BY <1>2, <2>1
<1>3. ASSUME NEW j \in 1 .. Len(store'.order), NEW k \in 1 .. Len(store'.order),
             j < k,
             store'.order[j] \in Held(store) \ {last'.name},
             store'.order[k] \in Held(store) \ {last'.name}
      PROVE  Position(store, store'.order[j]) < Position(store, store'.order[k])
  <2> DEFINE m == store'.order[j]
             n == store'.order[k]
  <2>1. Before(store', m, n)
    BY <1>3 DEF Before
  <2> HIDE DEF m, n
  <2>2. m \in Held(store) \ {last'.name} /\ n \in Held(store) \ {last'.name}
    BY <1>3 DEF m, n
  <2>3. Position(store, m) < Position(store, n)
    BY <1>1, <2>1, <2>2, BeforeIsPosition
  <2> QED BY <2>3 DEF m, n
<1> QED BY <1>2, <1>3 DEF EvictsOldestFirst

(* Versions leave in the order they were entered, whichever call evicts,   *)
(* and no call reorders those that stay.                                   *)
THEOREM EvictionIsFifo == Spec => FifoEviction
<1>1. ASSUME StoreInv, [Next]_vars PROVE [EvictsOldestFirst]_vars
  <2>0. Consistent(store) /\ Keys(store)
    BY <1>1 DEF StoreInv, Consistent
  <2>1. CASE UNCHANGED vars
    BY <2>1
  <2>2. CASE store' = store
    <3>1. Victims = {}
      BY <2>2 DEF Victims
    <3> QED BY <1>1, <2>2, <3>1, OldestFirst
  <2>3. ASSUME NEW name \in Names, NEW data \in Contents, NEW sum \in Contents,
               NEW z \in ShardSizes, NEW g \in Contents \cup {None},
               last' = Call("put", name, "ok"),
               store' = StoreComplete(store, name, sum, data, z, g)
        PROVE  EvictsOldestFirst
    <3> DEFINE t == Drop(store, name)
               k == EvictCount(t, Len(t.order), Size[data])
               e == EvictOldest(t, k)
    <3>1. /\ k \in 0 .. Len(t.order)
          /\ Held(store') = (Held(store) \ Oldest(t, k)) \cup {name}
          /\ Oldest(t, k) \subseteq Held(store) \ {name}
          /\ store'.order = Append(e.order, name)
      <4> DEFINE r == StoreComplete(store, name, sum, data, z, g)
      <4>1. /\ k \in 0 .. Len(t.order)
            /\ Held(r) = (Held(store) \ Oldest(t, k)) \cup {name}
            /\ Oldest(t, k) \subseteq Held(store) \ {name}
            /\ r.order = Append(e.order, name)
        BY <2>0, StoreCompleteShape
      <4> HIDE DEF r
      <4> QED BY <2>3, <4>1 DEF r
    <3>2. Consistent(t) /\ Keys(t)
      BY <2>0, DropOK DEF Consistent
    <3>3. Keys(e)
      BY <3>1, <3>2, EvictOldestOK DEF Consistent
    <3>4. last'.name = name /\ last'.op = "put"
      BY <2>3 DEF Call
    <3>5. Victims = Oldest(t, k)
      BY <3>1 DEF Victims
    <3> HIDE DEF k, e
    <3>6. ASSUME NEW m, NEW n, Before(store, m, n), n \in Victims,
                 n # name, m # name
          PROVE  m \in Victims
      <4>1. Before(t, m, n)
        BY <2>0, <3>6, DropKeepsOrder
      <4> QED BY <4>1, <3>1, <3>2, <3>5, <3>6, EvictKeepsOrder
    <3>7. ASSUME NEW m \in Held(store) \ {name}, NEW n \in Held(store) \ {name},
                 Before(store', m, n)
          PROVE  Before(store, m, n)
      <4>1. Before(e, m, n)
        BY <3>1, <3>3, <3>7, InsertKeepsOrder
      <4>2. Before(t, m, n)
        BY <4>1, <3>1, <3>2, EvictKeepsOrder DEF e
      <4> QED BY <4>2, <2>0, DropKeepsOrder
    <3> QED BY <1>1, <3>4, <3>6, <3>7, OldestFirst
  <2>4. ASSUME NEW name \in Names, NEW m \in Metadata,
               NEW g \in Contents \cup {None},
               last' = Call("begin", name, "ok"),
               store' = BeginVersion(store, name, m, g)
        PROVE  EvictsOldestFirst
    <3>1. last'.name = name
      BY <2>4 DEF Call
    <3>2. store.ver \in [Names -> StoredVersion \cup {None}]
      BY <2>0 DEF Keys, Stores
    <3>3. /\ store'.order = store.order \/ store'.order = Append(store.order, name)
          /\ \A n \in Names \ {name} : store'.ver[n] = store.ver[n]
      BY <2>4, <3>2 DEF BeginVersion, Insert, Update
    <3>4. Victims \subseteq {name}
      BY <3>3 DEF Victims, Held
    <3>5. ASSUME NEW x \in Held(store) \ {name}, NEW y \in Held(store) \ {name},
                 Before(store', x, y)
          PROVE  Before(store, x, y)
      <4>1. CASE store'.order = store.order
        BY <3>5, <4>1 DEF Before
      <4>2. CASE store'.order = Append(store.order, name)
        BY <2>0, <3>5, <4>2, InsertKeepsOrder
      <4> QED BY <3>3, <4>1, <4>2
    <3> QED BY <1>1, <3>1, <3>4, <3>5, OldestFirst
  <2>5. ASSUME NEW name \in Names, NEW i \in Int, NEW c \in Contents,
               PutShardCheck(store, name, i, c) = "ok",
               last' = Call("put_shard", name, PutShardError(store, name, i, c)),
               store' = PutShard(store, name, i, c)
        PROVE  EvictsOldestFirst
    <3> DEFINE p == Position(store, name)
               k == EvictCount(store, p - 1, Additional(store, name, i))
               e == EvictOldest(store, k)
    <3>1. /\ p - 1 \in 0 .. Len(store.order) /\ k \in 0 .. (p - 1)
          /\ Held(store') = Held(store) \ Oldest(store, k)
          /\ store'.order = e.order
      BY <2>0, <2>5, PutShardShape
    <3> HIDE DEF p, k
    <3>2. k \in 0 .. Len(store.order) /\ Len(store.order) \in Nat
      BY <2>0, <3>1, OrderIsHeld
    <3>3. Victims = Oldest(store, k)
      <4>1. \A j \in 1 .. k : j \in 1 .. Len(store.order)
        BY <3>2
      <4>2. Oldest(store, k) \subseteq Held(store)
        BY <4>1, <2>0, OrderIsHeld DEF Oldest
      <4> QED BY <3>1, <4>2 DEF Victims
    <3>4. ASSUME NEW m, NEW n, Before(store, m, n), n \in Victims
          PROVE  m \in Victims
      BY <2>0, <3>2, <3>3, <3>4, EvictKeepsOrder
    <3>5. ASSUME NEW m, NEW n, Before(store', m, n)
          PROVE  Before(store, m, n)
      <4>1. Before(e, m, n)
        BY <3>1, <3>5 DEF Before
      <4> QED BY <4>1, <2>0, <3>2, EvictKeepsOrder
    <3> QED BY <1>1, <3>4, <3>5, OldestFirst
  <2>6. ASSUME NEW name \in Names, last'.name = name, store' = Drop(store, name)
        PROVE  EvictsOldestFirst
    <3>1. Held(store') = Held(store) \ {name}
      BY <2>0, <2>6, DropOK
    <3>2. Victims \subseteq {name}
      BY <3>1 DEF Victims
    <3>3. ASSUME NEW m \in Held(store) \ {name}, NEW n \in Held(store) \ {name},
                 Before(store', m, n)
          PROVE  Before(store, m, n)
      BY <2>0, <2>6, <3>3, DropKeepsOrder
    <3> QED BY <1>1, <2>6, <3>2, <3>3, OldestFirst
  <2>7. CASE store' = EmptyStore
    <3>1. Held(store') = {} /\ Len(store'.order) = 0
      BY <2>7 DEF EmptyStore, Held
    <3>2. Victims = Held(store)
      BY <3>1 DEF Victims
    <3>3. ASSUME NEW m, NEW n, Before(store, m, n) PROVE m \in Victims
      BY <2>0, <3>2, <3>3, OrderIsHeld DEF Before
    <3>4. ASSUME NEW m, NEW n PROVE ~Before(store', m, n)
      BY <3>1 DEF Before
    <3> QED BY <1>1, <3>3, <3>4, OldestFirst
  <2> QED BY <1>1, <2>1, <2>2, <2>3, <2>4, <2>5, <2>6, <2>7, StepCases
<1> QED BY <1>1, StoreInvariant, PTL DEF Spec, FifoEviction

(* No call evicts one version too many.  The loop popped the youngest      *)
(* victim only because the bytes did not fit before it.                    *)
THEOREM EvictionIsMinimal == Spec => EvictionIsNeeded
<1>1. ASSUME StoreInv, [Next]_vars PROVE [EvictsNoMore]_vars
  <2>0. Consistent(store) /\ Keys(store)
    BY <1>1 DEF StoreInv, Consistent
  <2>1. CASE UNCHANGED vars
    BY <2>1
  <2>2. CASE store' = store \/ last'.op \notin {"put", "put_shard"}
    BY <2>2 DEF EvictsNoMore, Victims
  <2>3. ASSUME NEW name \in Names, NEW data \in Contents, NEW sum \in Contents,
               NEW z \in ShardSizes, NEW g \in Contents \cup {None},
               last' = Call("put", name, "ok"),
               store' = StoreComplete(store, name, sum, data, z, g)
        PROVE  EvictsNoMore
    <3> DEFINE t == Drop(store, name)
               k == EvictCount(t, Len(t.order), Size[data])
               e == EvictOldest(t, k)
    <3> SUFFICES ASSUME NEW n \in Victims, n # name,
                        \A m \in Victims \ {name} :
                           Position(store, m) <= Position(store, n)
                 PROVE  store'.used + StoredBytes(store.ver[n]) > Capacity
      <4>1. last'.name = name
        BY <2>3 DEF Call
      <4> QED BY <4>1 DEF EvictsNoMore
    <3>1. /\ k \in 0 .. Len(t.order)
          /\ Held(store') = (Held(store) \ Oldest(t, k)) \cup {name}
          /\ Oldest(t, k) \subseteq Held(store) \ {name}
          /\ store'.used = e.used + Size[data]
      <4> DEFINE r == StoreComplete(store, name, sum, data, z, g)
      <4>1. /\ k \in 0 .. Len(t.order)
            /\ Held(r) = (Held(store) \ Oldest(t, k)) \cup {name}
            /\ Oldest(t, k) \subseteq Held(store) \ {name}
            /\ r.used = e.used + Size[data]
        BY <2>0, StoreCompleteShape
      <4> HIDE DEF r
      <4> QED BY <2>3, <4>1 DEF r
    <3>2. /\ Consistent(t) /\ Keys(t) /\ Held(t) = Held(store) \ {name}
          /\ \A x \in Held(t) : t.ver[x] = store.ver[x]
      BY <2>0, DropOK DEF Consistent
    <3>3. Victims = Oldest(t, k) /\ Len(t.order) \in Nat
      BY <3>1, <3>2, OrderIsHeld DEF Victims
    <3>4. Size[data] \in Nat
      BY SizeAssumption
    <3>5. k >= 1 => e.used + Size[data] + StoredBytes(t.ver[t.order[k]]) > Capacity
      <4>1. Len(t.order) \in 0 .. Len(t.order)
        BY <3>3
      <4> QED BY <4>1, <3>2, <3>4, EvictionNeeded
    <3> HIDE DEF k, e, t
    <3>6. PICK j \in 1 .. k : t.order[j] = n
      BY <3>3 DEF Oldest
    <3>7. /\ k \in 1 .. k /\ k \in 1 .. Len(t.order) /\ j \in 1 .. Len(t.order)
          /\ k >= 1
      BY <3>1, <3>3, <3>6
    <3> DEFINE y == t.order[k]
    <3>8. y \in Victims \ {name} /\ y \in Held(store) /\ n \in Held(store)
      BY <3>1, <3>3, <3>7 DEF Oldest
    <3>9. y = n
      <4> SUFFICES ASSUME y # n PROVE FALSE
        OBVIOUS
      <4>1. Before(t, n, y)
        <5>1. j < k
          BY <3>3, <3>6, <3>7
        <5> QED BY <5>1, <3>6, <3>7 DEF Before
      <4> HIDE DEF y
      <4>2. Before(store, n, y)
        BY <4>1, <2>0, <3>8, DropKeepsOrder DEF t
      <4>3. /\ Position(store, n) < Position(store, y)
            /\ Position(store, y) <= Position(store, n)
        BY <4>2, <2>0, <3>8, BeforeIsPosition
      <4>4. Position(store, n) \in Int /\ Position(store, y) \in Int
        BY <2>0, <3>8, PositionOK
      <4> QED BY <4>3, <4>4
    <3>10. t.ver[y] = store.ver[n]
      BY <3>2, <3>8, <3>9
    <3> QED BY <3>1, <3>5, <3>7, <3>10
  <2>4. ASSUME NEW name \in Names, NEW i \in Int, NEW c \in Contents,
               PutShardCheck(store, name, i, c) = "ok",
               last' = Call("put_shard", name, PutShardError(store, name, i, c)),
               store' = PutShard(store, name, i, c)
        PROVE  EvictsNoMore
    <3> DEFINE p == Position(store, name)
               a == Additional(store, name, i)
               k == EvictCount(store, p - 1, a)
               e == EvictOldest(store, k)
    <3> SUFFICES ASSUME last'.out = "ok", NEW n \in Victims, n # name,
                        \A m \in Victims \ {name} :
                           Position(store, m) <= Position(store, n)
                 PROVE  store'.used + StoredBytes(store.ver[n]) > Capacity
      <4>1. last'.name = name
        BY <2>4 DEF Call
      <4> QED BY <4>1 DEF EvictsNoMore
    <3>1. /\ p - 1 \in 0 .. Len(store.order) /\ k \in 0 .. (p - 1) /\ a \in Nat
          /\ Held(store') = Held(store) \ Oldest(store, k)
          /\ name \notin Oldest(store, k)
          /\ e.used + a <= Capacity => store'.used = e.used + a
          /\ e.used \in Int
      <4>1. Capacity \in Nat
        BY CapacityAssumption
      <4> QED BY <2>0, <2>4, <4>1, PutShardShape
    <3>2. ~(e.used + a > Capacity)
      BY <2>4 DEF PutShardError, PutShardEvicted, Call
    <3>3. k >= 1 => e.used + a + StoredBytes(store.ver[store.order[k]]) > Capacity
      BY <2>0, <3>1, EvictionNeeded
    <3> HIDE DEF p, a, k, e
    <3>4. store'.used = e.used + a
      BY <3>1, <3>2, CapacityAssumption
    <3>5. k \in 0 .. Len(store.order) /\ Len(store.order) \in Nat
      BY <2>0, <3>1, OrderIsHeld
    <3>6. n \in Oldest(store, k)
      BY <3>1 DEF Victims
    <3>7. PICK j \in 1 .. k : store.order[j] = n
      BY <3>6 DEF Oldest
    <3>8. /\ k \in 1 .. k /\ k \in 1 .. Len(store.order)
          /\ j \in 1 .. Len(store.order) /\ k >= 1
      BY <3>5, <3>7
    <3> DEFINE y == store.order[k]
    <3>9. y \in Victims \ {name} /\ y \in Held(store) /\ n \in Held(store)
      BY <2>0, <3>1, <3>7, <3>8, OrderIsHeld DEF Oldest, Victims
    <3>10. j = Position(store, n) /\ k = Position(store, y)
      BY <2>0, <3>7, <3>8, <3>9, PositionOK
    <3>11. y = n
      <4>1. k <= j
        BY <3>9, <3>10
      <4> QED BY <4>1, <3>5, <3>7
    <3> QED BY <3>3, <3>4, <3>8, <3>11
  <2>5. ASSUME NEW name, NEW out, last' = Call("begin", name, out)
        PROVE  last'.op \notin {"put", "put_shard"}
    BY <2>5 DEF Call
  <2>6. ASSUME NEW name, NEW out, last' = Call("clear", name, out)
        PROVE  last'.op \notin {"put", "put_shard"}
    BY <2>6 DEF Call
  <2> QED BY <1>1, <2>1, <2>2, <2>3, <2>4, <2>5, <2>6, StepCases
<1> QED BY <1>1, StoreInvariant, PTL DEF Spec, EvictionIsNeeded
=============================================================================
