-------------------------- MODULE MiddleNodeProofs --------------------------
(***************************************************************************)
(* Theorems about MiddleNode for any number of relays and versions, any    *)
(* contents and any setup.  The inductive invariant is RelayInv: the       *)
(* origin's numbers have no gaps, and of each relay Good says that         *)
(*   - its store is consistent and holds copies of what was published;     *)
(*   - its cycle works on a part of what the origin has published, and     *)
(*     what is processed and still offered is in the list it works on;     *)
(*   - in memory, what it lists between cycles is in its store;            *)
(*   - with a mirror, every shard of a processed version is in a file, and *)
(*     in the store if the version is, and so is every shard whose worker  *)
(*     has ended without a failure (in a file, if it is fetched as one).   *)
(* The last part is about shard_owners (Placement) and what follows for    *)
(* the relays when a failure domain is lost.                               *)
(***************************************************************************)
EXTENDS MiddleNode, StoreOpsProofs

(* The origin numbers its versions one after the other. *)
Numbered == \E n \in Nat : Listed(published) = 1 .. n

(* w is cut into at least as many shards as the publication c. *)
Copy(w, c) == AllShards(c) \subseteq 0 .. (ShardCount(w.meta) - 1)

StoreOK(m) ==
    /\ Consistent(store[m])
    /\ \A v \in Held(store[m]) :
          /\ published[v] # None /\ Copy(store[m].ver[v], published[v])
          /\ ~setup.streaming => store[m].ver[v].data # None

CycleOK(m) ==
    /\ \A v \in Names : snap[m][v] # None => snap[m][v] = published[v]
    /\ todo[m] \subseteq Listed(snap[m])
    /\ processed[m] \subseteq Listed(published)
    /\ pc[m] # "idle" => \A v \in processed[m] : Up(v) # None => snap[m][v] # None
    /\ pc[m] \in {"mirror", "files", "list", "stream"}
          => todo[m] # {} /\ Current(m) \notin processed[m]
    /\ pc[m] \in {"mirror", "files"} => setup.mirror
    /\ pc[m] = "mirror" => ~setup.streaming \/ setup.unreliable
    /\ pc[m] = "files" =>
          ~setup.streaming \/ setup.unreliable \/ Up(Current(m)) = None
    /\ pc[m] \in {"list", "stream"} => setup.streaming

(* Relays in memory without faults. *)
InMemory == ~setup.streaming /\ ~setup.mirror /\ ~setup.errors /\ ~setup.crashes

ListOK(m) ==
    InMemory =>
        \A v \in Names :
            /\ ~disk[m][v].made
            /\ dist[m][v] # None /\ pc[m] \in {"idle", "cleanup", "forget"}
                  => v \in Held(store[m])
            /\ dist[m][v] # None /\ pc[m] \in {"cleanup", "forget"} => snap[m][v] # None

(* Shard i of version v is in its file, and in the store if v is. *)
Kept(d, s, v, i) ==
    /\ i \in d[v].files
    /\ v \in Held(s) => HasShard(s, v, i)

(* Relays with a mirror whose versions are held whole, or streamed without *)
(* failing transfers.                                                      *)
Mirrored == setup.mirror /\ (setup.streaming => ~setup.unreliable)

FilesOK(m) ==
    Mirrored =>
        /\ \A v \in processed[m] : Up(v) # None =>
              \A i \in Assigned(m, v, published[v]) : Kept(disk[m], store[m], v, i)
        /\ pc[m] = "stream" /\ ~failed[m] =>
              \A i \in Assigned(m, Current(m), snap[m][Current(m)]) \ need[m] :
                  Kept(disk[m], store[m], Current(m), i)
        /\ pc[m] = "files" /\ ~failed[m] =>
              AllShards(snap[m][Current(m)]) \ need[m] \subseteq disk[m][Current(m)].files

Good(m) == StoreOK(m) /\ CycleOK(m) /\ ListOK(m) /\ FilesOK(m)

RelayInv == TypeOK /\ Numbered /\ \A m \in Middles : Good(m)

-----------------------------------------------------------------------------
(* Numbers and shard counts *)

LEMMA NamesAreNumbers == \A v \in Names : v \in Nat /\ v # 0
BY NamesAssumption

(* The version a cycle is at is one of those it has to do. *)
LEMMA LeastIsIn ==
    ASSUME NEW T \in SUBSET Names, T # {}
    PROVE  Min(T) \in T
<1> DEFINE R == OpToRel(<, Nat)
<1>1. T \subseteq Nat
  BY NamesAreNumbers
<1>2. PICK x \in T : \A y \in T : ~(<<y, x>> \in R)
  <2>1. PICK y \in T : TRUE
    OBVIOUS
  <2> QED BY <1>1, <2>1, WFMin, NatLessThanWellFounded
<1>3. x \in Nat
  BY <1>1
<1>4. \A y \in T : x <= y
  <2>1. \A y \in T : ~(y < x)
    BY <1>1, <1>2, <1>3 DEF OpToRel
  <2> QED BY <1>1, <1>3, <2>1
<1> QED BY <1>4 DEF Min

(* The number of pieces of z bytes that S bytes are cut into. *)
Pieces(S, z) == (S + z - 1) \div z

LEMMA Ceiling ==
    ASSUME NEW S \in Nat, NEW z \in Nat \ {0}
    PROVE  LET q == Pieces(S, z)
           IN q \in Nat /\ S <= q * z /\ q * z <= S + z - 1
BY DEF Pieces

(* x * z < (y + 1) * z only if x <= y. *)
LEMMA Quotient ==
    ASSUME NEW x \in Nat, NEW y \in Nat, NEW z \in Nat \ {0}, x * z <= y * z + z - 1
    PROVE  x <= y
<1> SUFFICES ASSUME y + 1 <= x PROVE FALSE
  OBVIOUS
<1>1. (y + 1) * z <= x * z
  BY MulMonotone
<1>2. (y + 1) * z = y * z + z /\ y * z \in Nat /\ x * z \in Nat
  OBVIOUS
<1> QED BY <1>1, <1>2

(* A buffer of S bytes that has n shards of z bytes, the last one perhaps  *)
(* shorter, has n shards again if it is cut evenly.                        *)
LEMMA EvenCut ==
    ASSUME NEW S \in Nat, NEW z \in Nat \ {0}, Pieces(S, z) # 0
    PROVE  /\ Pieces(S, Pieces(S, z)) \in Nat \ {0}
           /\ Pieces(S, Pieces(S, Pieces(S, z))) = Pieces(S, z)
<1> DEFINE n == Pieces(S, z)
           y == Pieces(S, n)
<1>0. n \in Nat \ {0} /\ y \in Nat
  BY Ceiling
<1>1. S <= n * z /\ n * z <= S + z - 1
  BY <1>0, Ceiling
<1>2. S <= y * n /\ y * n <= S + n - 1
  BY Ceiling
<1> HIDE DEF n, y
<1>3. n * z \in Nat /\ y * n \in Nat /\ n * z = z * n /\ y * n = n * y
  BY <1>0
<1>4. y <= z
  <2>1. y * n <= z * n + n - 1
    BY <1>0, <1>1, <1>2, <1>3
  <2> QED BY <1>0, <2>1, Quotient
<1>5. S >= 1
  <2>1. z <= n * z
    <3>1. 1 * z <= n * z
      BY <1>0, MulMonotone
    <3> QED BY <3>1
  <2> QED BY <1>0, <1>1, <1>3, <2>1
<1>6. y \in Nat \ {0}
  <2> SUFFICES ASSUME y = 0 PROVE FALSE
    BY <1>0
  <2>1. y * n = 0
    BY <1>0
  <2> QED BY <1>2, <1>5, <2>1
<1> DEFINE r == Pieces(S, y)
<1>7. r \in Nat /\ S <= r * y /\ r * y <= S + y - 1
  BY <1>6, Ceiling
<1> HIDE DEF r
<1>8. r * y \in Nat
  BY <1>0, <1>7
<1>9. r <= n
  <2>1. r * y <= n * y + y - 1
    BY <1>0, <1>2, <1>3, <1>6, <1>7, <1>8
  <2> QED BY <1>0, <1>6, <1>7, <2>1, Quotient
<1>10. n <= r
  <2>1. r * y <= r * z
    <3>1. y * r <= z * r
      BY <1>0, <1>4, <1>7, MulMonotone
    <3> QED BY <1>0, <1>7, <3>1
  <2>2. r * z \in Nat
    BY <1>7
  <2>3. n * z <= r * z + z - 1
    BY <1>0, <1>1, <1>3, <1>7, <1>8, <2>1, <2>2
  <2> QED BY <1>0, <1>7, <2>3, Quotient
<1>11. r = n
  BY <1>0, <1>7, <1>9, <1>10
<1> QED BY <1>6, <1>11 DEF r, y, n

LEMMA ManifestFacts ==
    ASSUME NEW c \in Contents
    PROVE  /\ Manifest(c) \in Metadata /\ ShardCount(Manifest(c)) \in Nat
           /\ AllShards(c) \subseteq Nat /\ AllShards(c) \subseteq Indexes
           /\ \A i \in AllShards(c) : 0 .. i \subseteq AllShards(c)
<1>1. Size[c] \in Nat /\ ShardSize \in Nat \ {0} /\ ShardSize \in ShardSizes
  BY SizeAssumption, ShardSizeAssumption, ShardSizesAssumption
<1>2. Manifest(c) \in Metadata
  BY <1>1 DEF Manifest, Metadata
<1>3. ShardCount(Manifest(c)) = Pieces(Size[c], ShardSize)
  BY DEF ShardCount, Manifest, Pieces
<1>4. ShardCount(Manifest(c)) \in Nat
  BY <1>1, <1>3, Ceiling
<1>5. AllShards(c) \subseteq Indexes
  BY DEF Indexes
<1> QED BY <1>2, <1>4, <1>5 DEF AllShards

(* A version that was downloaded whole has the number of shards it has at  *)
(* the origin: _process_version never meets another shard_count.           *)
LEMMA InferredCount ==
    ASSUME NEW c \in Contents
    PROVE  ShardCount([sum |-> c, total |-> Size[c], shard |-> InferredShard(c)])
              = ShardCount(Manifest(c))
<1> DEFINE n == Pieces(Size[c], ShardSize)
           y == Pieces(Size[c], n)
<1>1. Size[c] \in Nat /\ ShardSize \in Nat \ {0}
  BY SizeAssumption, ShardSizeAssumption, ShardSizesAssumption
<1>2. /\ ShardCount(Manifest(c)) = n
      /\ ShardCount([sum |-> c, total |-> Size[c], shard |-> InferredShard(c)])
            = Pieces(Size[c], InferredShard(c))
  BY DEF ShardCount, Manifest, Pieces
<1>3. InferredShard(c) = IF n = 0 THEN 1 ELSE Max({1, y})
  BY <1>2 DEF InferredShard, Pieces
<1>4. CASE n = 0
  <2>1. Size[c] <= n * ShardSize
    BY <1>1, Ceiling
  <2>2. Size[c] = 0
    BY <1>1, <1>4, <2>1
  <2>3. Pieces(0, 1) = 0
    BY DEF Pieces
  <2> QED BY <1>2, <1>3, <1>4, <2>2, <2>3
<1>5. CASE n # 0
  <2>1. y \in Nat \ {0} /\ Pieces(Size[c], y) = n
    BY <1>1, <1>5, EvenCut
  <2> HIDE DEF y
  <2>2. Max({1, y}) = y
    BY <2>1 DEF Max
  <2> QED BY <1>2, <1>3, <1>5, <2>1, <2>2
<1> QED BY <1>4, <1>5

(* The numbers at the origin *)
LEMMA NewestIs ==
    ASSUME NEW n \in Nat, Listed(published) = 1 .. n
    PROVE  Newest = n
<1>1. {0} \cup Listed(published) = 0 .. n
  OBVIOUS
<1>2. Max(0 .. n) = n
  BY DEF Max
<1> QED BY <1>1, <1>2 DEF Newest

(* A publication gets the next number and changes no other. *)
LEMMA PublishFacts ==
    ASSUME Numbered, published \in [Names -> Contents \cup {None}],
           NEW c \in Contents, Publish(c)
    PROVE  /\ Numbered' /\ published' \in [Names -> Contents \cup {None}]
           /\ \A v \in Names : published[v] # None =>
                 published'[v] = published[v] /\ (Up(v)' # None => Up(v) # None)
<1>1. PICK n \in Nat : Listed(published) = 1 .. n
  BY DEF Numbered
<1>2. Newest = n
  BY <1>1, NewestIs
<1>3. /\ n + 1 \in Names /\ published' = [published EXCEPT ![n + 1] = c]
      /\ c # None
  BY <1>2, NoneAssumption DEF Publish
<1>4. /\ published' \in [Names -> Contents \cup {None}]
      /\ published'[n + 1] = c
      /\ \A v \in Names : v # n + 1 => published'[v] = published[v]
  BY <1>3
<1>5. Listed(published)' = 1 .. (n + 1)
  <2>1. Listed(published)' = Listed(published) \cup {n + 1}
    BY <1>3, <1>4 DEF Listed
  <2> QED BY <1>1, <2>1
<1>6. Newest' = n + 1
  <2>1. {0} \cup Listed(published)' = 0 .. (n + 1)
    BY <1>5
  <2>2. Max(0 .. (n + 1)) = n + 1
    BY DEF Max
  <2> QED BY <2>1, <2>2 DEF Newest
<1>7. ASSUME NEW v \in Names, published[v] # None
      PROVE  published'[v] = published[v] /\ (Up(v)' # None => Up(v) # None)
  <2>1. v \in 1 .. n
    BY <1>1, <1>7 DEF Listed
  <2>2. published'[v] = published[v]
    BY <1>4, <2>1
  <2>3. v > (n + 1) - MaxListed => v > n - MaxListed
    BY <2>1, MaxListedAssumption
  <2>4. Up(v) = IF v > n - MaxListed THEN published[v] ELSE None
    BY <1>2 DEF Up
  <2>5. Up(v)' # None => v > Newest' - MaxListed
    BY DEF Up
  <2>6. Up(v)' # None => v > (n + 1) - MaxListed
    BY <1>6, <2>5
  <2>7. Up(v)' # None => Up(v) # None
    BY <1>7, <2>3, <2>4, <2>6
  <2> QED BY <2>2, <2>7
<1> QED BY <1>4, <1>5, <1>7 DEF Numbered

-----------------------------------------------------------------------------
(* What operations leave of a store *)

(* t has no other versions than s, except perhaps name, and has not        *)
(* changed them.                                                           *)
Leaves(s, t, name) ==
    /\ Consistent(t)
    /\ \A n \in Held(t) : n # name => n \in Held(s) /\ t.ver[n] = s.ver[n]

LEMMA StoreTyped ==
    ASSUME NEW s, Consistent(s)
    PROVE  s \in RelayStores
<1>1. s \in Stores /\ s.used \in Int
  BY DEF Consistent, Keys, Stores
<1>2. Cardinality(AllCells(s)) \in Nat
  BY FS_CardinalityType DEF Consistent
<1>3. s.used \in Nat
  BY <1>1, <1>2 DEF Consistent
<1> QED BY <1>1, <1>3 DEF Stores, RelayStores

LEMMA DropLeaves ==
    ASSUME NEW s, Consistent(s), NEW name \in Names
    PROVE  /\ Leaves(s, Drop(s, name), name)
           /\ Held(Drop(s, name)) = Held(s) \ {name}
BY DropOK DEF Leaves

LEMMA CompleteLeaves ==
    ASSUME NEW s, Consistent(s), NEW name \in Names, NEW c \in Contents,
           Size[c] <= Capacity
    PROVE  LET t == StoreComplete(s, name, c, c, InferredShard(c), None)
           IN /\ Leaves(s, t, name) /\ name \in Held(t)
              /\ Copy(t.ver[name], c) /\ t.ver[name].data # None
<1> DEFINE t == StoreComplete(s, name, c, c, InferredShard(c), None)
<1>1. InferredShard(c) \in ShardSizes /\ None \in Contents \cup {None}
  BY InferredAssumption
<1>2. Consistent(t)
  BY <1>1, StoreCompleteOK
<1>3. /\ name \in Held(t) /\ \A n \in Held(t) \ {name} : n \in Held(s) /\ t.ver[n] = s.ver[n]
      /\ t.ver[name] = CompleteVersion(c, c, InferredShard(c), None)
  BY <1>1, StoreCompleteShape
<1>4. /\ t.ver[name].meta = [sum |-> c, total |-> Size[c], shard |-> InferredShard(c)]
      /\ t.ver[name].data = c
  BY <1>3 DEF CompleteVersion
<1>5. ShardCount(t.ver[name].meta) = ShardCount(Manifest(c))
  BY <1>4, InferredCount
<1> HIDE DEF t
<1>6. Leaves(s, t, name) /\ name \in Held(t)
  BY <1>2, <1>3 DEF Leaves
<1>7. Copy(t.ver[name], c) /\ t.ver[name].data # None
  BY <1>4, <1>5, NoneAssumption DEF Copy, AllShards
<1> QED BY <1>6, <1>7 DEF t

LEMMA BeginLeaves ==
    ASSUME NEW s, Consistent(s), NEW name \in Names, NEW c \in Contents
    PROVE  LET t == BeginVersion(s, name, Manifest(c), SumsOf(Manifest(c), c))
           IN /\ Leaves(s, t, name) /\ name \in Held(t)
              /\ name \in Held(s) =>
                    /\ t.ver[name].meta = s.ver[name].meta
                    /\ t.ver[name].data = s.ver[name].data
              /\ name \notin Held(s) => t.ver[name].meta = Manifest(c)
<1> DEFINE sums == SumsOf(Manifest(c), c)
           t == BeginVersion(s, name, Manifest(c), sums)
           w == s.ver[name]
           old == [meta |-> w.meta, data |-> w.data, shards |-> w.shards, sums |-> sums]
           new == [meta |-> Manifest(c), data |-> None, shards |-> {}, sums |-> sums]
<1>1. sums \in Contents \cup {None} /\ Manifest(c) \in Metadata
  BY ManifestFacts DEF SumsOf
<1> HIDE DEF sums
<1>2. Consistent(t)
  BY <1>1, BeginVersionOK
<1>3. s.ver \in [Names -> StoredVersion \cup {None}]
  BY DEF Consistent, Keys, Stores
<1>4. CASE name \in Held(s)
  <2>1. w # None /\ w \in StoredVersion
    BY <1>3, <1>4 DEF Held
  <2>2. old \in StoredVersion /\ old # None
    <3>1. old \in StoredVersion
      BY <1>1, <2>1 DEF StoredVersion
    <3> QED BY <3>1, NoneAssumption
  <2>3. t.ver = [s.ver EXCEPT ![name] = old]
    BY <2>1 DEF BeginVersion, Update
  <2> HIDE DEF t
  <2>4. t.ver[name] = old /\ \A n \in Names : n # name => t.ver[n] = s.ver[n]
    BY <1>3, <2>3
  <2>5. name \in Held(t) /\ Leaves(s, t, name)
    <3> HIDE DEF old
    <3> QED BY <1>2, <2>2, <2>4 DEF Held, Leaves
  <2>6. t.ver[name].meta = w.meta /\ t.ver[name].data = w.data
    BY <2>4
  <2> QED BY <1>4, <2>5, <2>6 DEF t, sums
<1>5. CASE name \notin Held(s)
  <2>1. w = None
    BY <1>5 DEF Held
  <2>2. new \in StoredVersion /\ new # None
    <3>1. new \in StoredVersion
      BY <1>1 DEF StoredVersion
    <3> QED BY <3>1, NoneAssumption
  <2>3. t.ver = [s.ver EXCEPT ![name] = new]
    BY <2>1 DEF BeginVersion, Insert
  <2> HIDE DEF t
  <2>4. t.ver[name] = new /\ \A n \in Names : n # name => t.ver[n] = s.ver[n]
    BY <1>3, <2>3
  <2>5. name \in Held(t) /\ Leaves(s, t, name)
    <3> HIDE DEF new
    <3> QED BY <1>2, <2>2, <2>4 DEF Held, Leaves
  <2>6. t.ver[name].meta = Manifest(c)
    BY <2>4
  <2> QED BY <1>5, <2>5, <2>6 DEF t, sums
<1> QED BY <1>4, <1>5

(* A version that is put a shard into keeps what it had, and has the shard *)
(* unless the store has refused it.                                        *)
LEMMA ShardLeaves ==
    ASSUME NEW s, Consistent(s), NEW name \in Names, NEW i \in Int, NEW c \in Contents
    PROVE  LET t == PutShard(s, name, i, c)
           IN /\ Leaves(s, t, name)
              /\ name \in Held(t) <=> name \in Held(s)
              /\ name \in Held(s) =>
                    /\ t.ver[name].meta = s.ver[name].meta
                    /\ t.ver[name].data = s.ver[name].data
                    /\ s.ver[name].shards \subseteq t.ver[name].shards
              /\ PutShardError(s, name, i, c) = "ok" => HasShard(t, name, i)
<1> DEFINE t == PutShard(s, name, i, c)
           w == s.ver[name]
           e == PutShardEvicted(s, name, i)
           a == Additional(s, name, i)
           v == [meta |-> w.meta, data |-> w.data, shards |-> w.shards \cup {i},
                 sums |-> w.sums]
<1>1. Consistent(t)
  BY PutShardOK
<1>2. CASE PutShardCheck(s, name, i, c) # "ok"
  <2>1. t = s /\ PutShardError(s, name, i, c) # "ok"
    BY <1>2 DEF PutShard, PutShardError
  <2> HIDE DEF t
  <2> QED BY <1>1, <2>1 DEF Leaves, t
<1>3. CASE PutShardCheck(s, name, i, c) = "ok"
  <2>1. /\ name \in Held(s)
        /\ Held(t) \subseteq Held(s) /\ name \in Held(t)
        /\ \A n \in Held(t) \ {name} : t.ver[n] = s.ver[n]
        /\ (t.ver[name] = w /\ e.used + a > Capacity) \/ e.used + a <= Capacity
        /\ e.used \in Int /\ a \in Int
        /\ e.ver \in [Names -> StoredVersion \cup {None}]
    <3> DEFINE p == Position(s, name)
               k == EvictCount(s, p - 1, a)
    <3>1. e = EvictOldest(s, k)
      BY DEF PutShardEvicted
    <3>2. /\ name \in Held(s) /\ p - 1 \in 0 .. Len(s.order) /\ k \in 0 .. (p - 1) /\ a \in Nat
          /\ Held(t) = Held(s) \ Oldest(s, k) /\ name \notin Oldest(s, k)
          /\ \A n \in Held(t) \ {name} : t.ver[n] = s.ver[n]
          /\ EvictOldest(s, k).used \in Int
          /\ \/ EvictOldest(s, k).used + a > Capacity /\ t.ver[name] = w
             \/ EvictOldest(s, k).used + a <= Capacity
      BY <1>3, PutShardShape
    <3>3. e.ver \in [Names -> StoredVersion \cup {None}]
      <4>1. s.ver \in [Names -> StoredVersion \cup {None}]
        BY DEF Consistent, Keys, Stores
      <4>2. e.ver = [n \in Names |-> IF n \in Oldest(s, k) THEN None ELSE s.ver[n]]
        <5> HIDE DEF k
        <5> QED BY <3>1 DEF EvictOldest
      <4> QED BY <4>1, <4>2
    <3> HIDE DEF t, k, e, a, w
    <3> QED BY <3>1, <3>2, <3>3
  <2>2. i \in 0 .. (ShardCount(w.meta) - 1) /\ w # None
    BY <1>3 DEF PutShardCheck
  <2>3. PutShardError(s, name, i, c) = "ok" => ~(e.used + a > Capacity)
    BY <1>3 DEF PutShardError
  <2>4. CASE e.used + a > Capacity
    <3>1. t.ver[name] = w
      BY <2>1, <2>4, CapacityAssumption
    <3>2. Leaves(s, t, name)
      <4> HIDE DEF t
      <4> QED BY <1>1, <2>1 DEF Leaves
    <3> HIDE DEF t, e, a
    <3> QED BY <2>1, <2>3, <2>4, <3>1, <3>2 DEF t, e, a
  <2>5. CASE ~(e.used + a > Capacity)
    <3>1. t.ver = [e.ver EXCEPT ![name] = v]
      BY <1>3, <2>5 DEF PutShard, Update
    <3> HIDE DEF t, e, a
    <3>2. t.ver[name] = v
      BY <2>1, <3>1
    <3>3. /\ t.ver[name].meta = w.meta /\ t.ver[name].data = w.data
          /\ t.ver[name].shards = w.shards \cup {i}
      BY <3>2
    <3>4. HasShard(t, name, i)
      BY <2>1, <2>2, <3>3 DEF HasShard, AvailableShards, Held
    <3>5. Leaves(s, t, name)
      BY <1>1, <2>1 DEF Leaves
    <3> QED BY <2>1, <3>3, <3>4, <3>5 DEF t
  <2> QED BY <2>4, <2>5
<1> QED BY <1>2, <1>3

LEMMA KeptStays ==
    ASSUME NEW d, NEW s, NEW v \in Names, NEW i, Kept(d, s, v, i),
           NEW e, NEW t, NEW name, Leaves(s, t, name), v # name,
           d[v].files \subseteq e[v].files
    PROVE  Kept(e, t, v, i)
BY DEF Kept, Leaves, HasShard, AvailableShards

-----------------------------------------------------------------------------
(* A step of one relay leaves the others alone *)

Same(q) ==
    /\ store'[q] = store[q] /\ disk'[q] = disk[q] /\ dist'[q] = dist[q]
    /\ processed'[q] = processed[q] /\ pc'[q] = pc[q] /\ snap'[q] = snap[q]
    /\ todo'[q] = todo[q] /\ need'[q] = need[q] /\ failed'[q] = failed[q]

LEMMA OriginStays ==
    ASSUME UNCHANGED published
    PROVE  (\A v : Up(v)' = Up(v)) /\ Listed(published)' = Listed(published)
BY DEF Up, Newest, Listed

LEMMA SameIsGood ==
    ASSUME NEW q \in Middles, Good(q), Same(q), UNCHANGED <<setup, published>>
    PROVE  Good(q)'
<1>1. (\A v : Up(v)' = Up(v)) /\ Listed(published)' = Listed(published)
  BY OriginStays
<1>2. Current(q)' = Current(q)
  BY DEF Same, Current
<1>3. StoreOK(q)'
  BY DEF Good, StoreOK, Same
<1>4. CycleOK(q)'
  BY <1>1, <1>2 DEF Good, CycleOK, Same
<1>5. ListOK(q)'
  BY DEF Good, ListOK, Same, InMemory
<1>6. FilesOK(q)'
  BY <1>1, <1>2 DEF Good, FilesOK, Same, Mirrored
<1> QED BY <1>3, <1>4, <1>5, <1>6 DEF Good

LEMMA RelayStep ==
    ASSUME RelayInv, TypeOK', UNCHANGED <<setup, published>>, NEW m \in Middles,
           \A q \in Middles : q # m => Same(q), Good(m)'
    PROVE  RelayInv'
<1>1. Numbered'
  BY OriginStays DEF RelayInv, Numbered
<1> QED BY <1>1, SameIsGood DEF RelayInv

(* The version a cycle is at. *)
LEMMA CurrentFacts ==
    ASSUME RelayInv, NEW m \in Middles, todo[m] # {}
    PROVE  /\ Current(m) \in todo[m] /\ Current(m) \in Names
           /\ snap[m][Current(m)] = published[Current(m)]
           /\ snap[m][Current(m)] \in Contents
<1>1. todo[m] \in SUBSET Names /\ todo[m] \subseteq Listed(snap[m])
  BY DEF RelayInv, TypeOK, Good, CycleOK
<1>2. Current(m) \in todo[m]
  BY <1>1, LeastIsIn DEF Current
<1>3. Current(m) \in Names /\ snap[m][Current(m)] # None
  BY <1>1, <1>2 DEF Listed
<1> QED BY <1>2, <1>3 DEF RelayInv, TypeOK, Good, CycleOK

LEMMA StoreStays ==
    ASSUME NEW m \in Middles, Good(m), UNCHANGED <<setup, published>>,
           store'[m] = store[m]
    PROVE  StoreOK(m)' /\ \A name : Leaves(store[m], store'[m], name)
BY DEF Good, StoreOK, Leaves

LEMMA StoreLeaves ==
    ASSUME NEW m \in Middles, Good(m), UNCHANGED <<setup, published>>,
           NEW name, Leaves(store[m], store'[m], name),
           name \in Held(store'[m]) =>
              /\ published[name] # None /\ Copy(store'[m].ver[name], published[name])
              /\ ~setup.streaming => store'[m].ver[name].data # None
    PROVE  StoreOK(m)'
BY DEF Good, StoreOK, Leaves

(* The files of processed versions outlast a step that is not about them. *)
LEMMA FilesStay ==
    ASSUME RelayInv, NEW m \in Middles, UNCHANGED <<setup, published>>,
           NEW name, Leaves(store[m], store'[m], name), name \notin processed'[m],
           processed'[m] \subseteq processed[m],
           \A v \in processed'[m] : Up(v) # None =>
              disk[m][v].files \subseteq disk'[m][v].files
    PROVE  Mirrored' => \A v \in processed'[m] : Up(v)' # None =>
              \A i \in Assigned(m, v, published'[v]) : Kept(disk'[m], store'[m], v, i)
<1> SUFFICES ASSUME Mirrored, NEW v \in processed'[m], Up(v) # None,
                    NEW i \in Assigned(m, v, published[v])
             PROVE  Kept(disk'[m], store'[m], v, i)
  BY OriginStays DEF Mirrored
<1>1. v \in processed[m] /\ v \in Names /\ v # name
  BY DEF RelayInv, TypeOK
<1>2. Kept(disk[m], store[m], v, i)
  BY <1>1 DEF RelayInv, Good, FilesOK
<1> QED BY <1>1, <1>2, KeptStays

-----------------------------------------------------------------------------
LEMMA RelayInit == Init => RelayInv
<1> SUFFICES ASSUME Init PROVE RelayInv
  OBVIOUS
<1> USE DEF Init
<1>1. Listed(Unlisted) = {} /\ Unlisted \in [Names -> Contents \cup {None}]
  BY DEF Listed, Unlisted
<1>2. TypeOK
  <2>1. store \in [Middles -> RelayStores]
    BY EmptyStoreOK, StoreTyped
  <2>2. NoDir \in Dirs
    BY DEF NoDir, Dirs
  <2> QED BY <1>1, <2>1, <2>2 DEF TypeOK, Places
<1>3. Numbered
  <2>1. {} = 1 .. 0
    OBVIOUS
  <2> QED BY <1>1, <2>1 DEF Numbered
<1>4. ASSUME NEW m \in Middles PROVE Good(m)
  <2>1. Held(EmptyStore) = {}
    BY DEF Held, EmptyStore
  <2>2. StoreOK(m)
    BY <2>1, EmptyStoreOK DEF StoreOK
  <2>3. CycleOK(m)
    BY <1>1 DEF CycleOK, Unlisted
  <2>4. ListOK(m)
    BY DEF ListOK, NoDir, Unlisted
  <2>5. FilesOK(m)
    BY DEF FilesOK
  <2> QED BY <2>2, <2>3, <2>4, <2>5 DEF Good
<1> QED BY <1>2, <1>3, <1>4 DEF RelayInv

LEMMA PublishOK ==
    ASSUME RelayInv, NEW c \in Contents, Publish(c)
    PROVE  RelayInv'
<1> USE DEF local
<1>1. /\ Numbered' /\ published' \in [Names -> Contents \cup {None}]
      /\ \A v \in Names : published[v] # None =>
            published'[v] = published[v] /\ (Up(v)' # None => Up(v) # None)
  BY PublishFacts DEF RelayInv, TypeOK
<1>2. UNCHANGED <<setup, store, disk, dist, processed, pc, snap, todo, need, failed>>
  BY DEF Publish
<1>3. TypeOK'
  BY <1>1, <1>2 DEF RelayInv, TypeOK
<1>4. ASSUME NEW m \in Middles PROVE Good(m)'
  <2>1. /\ Good(m) /\ Held(store[m]) \subseteq Names
        /\ \A v \in processed[m] : v \in Names /\ published[v] # None
        /\ \A v \in Names : snap[m][v] \in Contents \cup {None}
    BY DEF RelayInv, Held, Good, CycleOK, Listed, TypeOK
  <2>2. Current(m)' = Current(m)
    BY <1>2 DEF Current
  <2>3. StoreOK(m)'
    BY <1>1, <1>2, <2>1 DEF Good, StoreOK
  <2>4. CycleOK(m)'
    <3>1. \A v \in Names : snap[m][v] # None => published[v] # None
      BY <2>1 DEF Good, CycleOK
    <3>2. processed[m] \subseteq Listed(published)'
      BY <1>1, <2>1 DEF Listed
    <3>3. ASSUME todo[m] # {}, Up(Current(m)) = None PROVE (Up(Current(m)) = None)'
      <4>1. Current(m) \in Names /\ published[Current(m)] # None
        BY <3>3, CurrentFacts, NoneAssumption
      <4> QED BY <1>1, <2>2, <3>3, <4>1
    <3>4. /\ \A v \in Names : snap'[m][v] # None => snap'[m][v] = published'[v]
          /\ \A v \in processed'[m] : Up(v)' # None => Up(v) # None
      BY <1>1, <1>2, <2>1, <3>1 DEF Good, CycleOK
    <3> QED BY <1>2, <2>1, <2>2, <3>2, <3>3, <3>4 DEF Good, CycleOK
  <2>5. ListOK(m)'
    BY <1>2, <2>1 DEF Good, ListOK, InMemory
  <2>6. FilesOK(m)'
    BY <1>1, <1>2, <2>1, <2>2 DEF Good, FilesOK, Mirrored
  <2> QED BY <2>3, <2>4, <2>5, <2>6 DEF Good
<1> QED BY <1>1, <1>3, <1>4 DEF RelayInv

-----------------------------------------------------------------------------
(* The end of a cycle *)

(* A cycle that ends in the state it is in, or after a fault. *)
LEMMA CycleEndsOK ==
    ASSUME RelayInv, NEW m \in Middles, Abort(m), UNCHANGED <<setup, published>>,
           dist' \in [Middles -> [Names -> Contents \cup {None}]],
           \A q \in Middles : q # m => dist'[q] = dist[q],
           InMemory => dist'[m] = dist[m],
           store' \in [Middles -> RelayStores], disk' \in [Middles -> [Names -> Dirs]],
           processed' \in [Middles -> SUBSET Names],
           \A q \in Middles : q # m =>
              store'[q] = store[q] /\ disk'[q] = disk[q] /\ processed'[q] = processed[q],
           StoreOK(m)', processed'[m] \subseteq processed[m],
           InMemory => /\ pc[m] = "forget"
                       /\ store'[m] = store[m] /\ disk'[m] = disk[m],
           Mirrored' => \A v \in processed'[m] : Up(v)' # None =>
              \A i \in Assigned(m, v, published'[v]) : Kept(disk'[m], store'[m], v, i)
    PROVE  RelayInv'
<1>1. TypeOK /\ Good(m)
  BY DEF RelayInv
<1>2. /\ pc'[m] = "idle" /\ snap'[m] = Unlisted /\ todo'[m] = {} /\ need'[m] = {}
      /\ failed'[m] = FALSE
      /\ \A q \in Middles : q # m =>
            /\ pc'[q] = pc[q] /\ snap'[q] = snap[q] /\ todo'[q] = todo[q]
            /\ need'[q] = need[q] /\ failed'[q] = failed[q]
  BY <1>1 DEF Abort, TypeOK
<1>3. TypeOK'
  <2>1. Unlisted \in [Names -> Contents \cup {None}] /\ "idle" \in Places
    BY DEF Unlisted, Places
  <2>2. /\ pc' \in [Middles -> Places] /\ snap' \in [Middles -> [Names -> Contents \cup {None}]]
        /\ todo' \in [Middles -> SUBSET Names] /\ need' \in [Middles -> SUBSET Indexes]
        /\ failed' \in [Middles -> BOOLEAN]
    BY <1>1, <2>1 DEF Abort, TypeOK
  <2>3. \A q \in Middles : need'[q] # {} \/ failed'[q] => pc'[q] \in {"files", "stream"}
    BY <1>1, <1>2 DEF TypeOK
  <2> QED BY <1>1, <2>2, <2>3 DEF TypeOK
<1>4. \A q \in Middles : q # m => Same(q)
  BY <1>2 DEF Same
<1>5. CycleOK(m)'
  <2>1. processed'[m] \subseteq Listed(published)'
    BY <1>1, OriginStays DEF Good, CycleOK
  <2> QED BY <1>2, <2>1 DEF CycleOK, Unlisted
<1>6. ListOK(m)'
  <2> SUFFICES ASSUME InMemory PROVE ListOK(m)'
    BY DEF ListOK, InMemory
  <2> QED BY <1>1, <1>2 DEF Good, ListOK
<1>7. FilesOK(m)'
  BY <1>2 DEF FilesOK
<1>8. Good(m)'
  BY <1>5, <1>6, <1>7 DEF Good
<1> QED BY <1>3, <1>4, <1>8, RelayStep

LEMMA AbortOK ==
    ASSUME RelayInv, NEW m \in Middles, Abort(m), UNCHANGED <<setup, published, dist>>,
           store' \in [Middles -> RelayStores], disk' \in [Middles -> [Names -> Dirs]],
           processed' \in [Middles -> SUBSET Names],
           \A q \in Middles : q # m =>
              store'[q] = store[q] /\ disk'[q] = disk[q] /\ processed'[q] = processed[q],
           StoreOK(m)', processed'[m] \subseteq processed[m],
           InMemory => /\ pc[m] = "forget"
                       /\ store'[m] = store[m] /\ disk'[m] = disk[m],
           Mirrored' => \A v \in processed'[m] : Up(v)' # None =>
              \A i \in Assigned(m, v, published'[v]) : Kept(disk'[m], store'[m], v, i)
    PROVE  RelayInv'
<1>1. dist' \in [Middles -> [Names -> Contents \cup {None}]]
  BY DEF RelayInv, TypeOK
<1> QED BY <1>1, CycleEndsOK

LEMMA CleanupOK ==
    ASSUME RelayInv, NEW m \in Middles, Cleanup(m)
    PROVE  RelayInv'
<1>1. TypeOK /\ Good(m)
  BY DEF RelayInv
<1>2. UNCHANGED <<setup, published, store, disk, dist>> /\ Abort(m) /\ pc[m] = "forget"
  BY DEF Cleanup
<1>3. /\ processed' \in [Middles -> SUBSET Names] /\ processed'[m] \subseteq processed[m]
      /\ \A q \in Middles : q # m => processed'[q] = processed[q]
  BY <1>1 DEF Cleanup, TypeOK
<1>4. StoreOK(m)' /\ Leaves(store[m], store'[m], 0)
  BY <1>1, <1>2, StoreStays
<1>5. 0 \notin processed'[m]
  BY <1>3, NamesAreNumbers
<1>6. Mirrored' => \A v \in processed'[m] : Up(v)' # None =>
         \A i \in Assigned(m, v, published'[v]) : Kept(disk'[m], store'[m], v, i)
  BY <1>2, <1>3, <1>4, <1>5, FilesStay
<1>7. store' \in [Middles -> RelayStores] /\ disk' \in [Middles -> [Names -> Dirs]]
  BY <1>1, <1>2 DEF TypeOK
<1> QED BY <1>2, <1>3, <1>4, <1>6, <1>7, AbortOK

LEMMA EndRaisesOK ==
    ASSUME RelayInv, NEW m \in Middles, EndRaises(m)
    PROVE  RelayInv'
<1>1. TypeOK /\ Good(m)
  BY DEF RelayInv
<1>2. /\ UNCHANGED <<setup, published, store, dist, processed>> /\ Abort(m)
      /\ setup.errors /\ pc[m] \in {"process", "cleanup"}
  BY DEF EndRaises
<1>3. PICK gone \in SUBSET (IF pc[m] = "cleanup" THEN Names \ Listed(snap[m]) ELSE {}) :
         disk' = [disk EXCEPT ![m] = [v \in Names |->
                    IF v \in gone THEN NoDir ELSE disk[m][v]]]
  BY DEF EndRaises
<1>4. /\ disk' \in [Middles -> [Names -> Dirs]]
      /\ \A q \in Middles : q # m => disk'[q] = disk[q]
      /\ \A v \in Names : v \notin gone => disk'[m][v] = disk[m][v]
  <2>1. NoDir \in Dirs
    BY DEF NoDir, Dirs
  <2> QED BY <1>1, <1>3, <2>1 DEF TypeOK
<1>5. \A v \in processed[m] : Up(v) # None => v \in Names /\ v \notin gone
  BY <1>1, <1>2, <1>3 DEF TypeOK, Good, CycleOK, Listed
<1>6. StoreOK(m)' /\ Leaves(store[m], store'[m], 0)
  BY <1>1, <1>2, StoreStays
<1>7. 0 \notin processed'[m]
  BY <1>1, <1>2, NamesAreNumbers DEF TypeOK
<1>8. Mirrored' => \A v \in processed'[m] : Up(v)' # None =>
         \A i \in Assigned(m, v, published'[v]) : Kept(disk'[m], store'[m], v, i)
  BY <1>2, <1>4, <1>5, <1>6, <1>7, FilesStay
<1>9. store' \in [Middles -> RelayStores] /\ processed' \in [Middles -> SUBSET Names]
  BY <1>1, <1>2 DEF TypeOK
<1>10. ~InMemory
  BY <1>2 DEF InMemory
<1> QED BY <1>2, <1>4, <1>6, <1>8, <1>9, <1>10, AbortOK

(* One directory is changed. *)
LEMMA OneDir ==
    ASSUME TypeOK, NEW m \in Middles, NEW v \in Names, NEW d \in Dirs,
           disk' = [disk EXCEPT ![m][v] = d]
    PROVE  /\ disk' \in [Middles -> [Names -> Dirs]] /\ disk'[m][v] = d
           /\ \A q \in Middles : q # m => disk'[q] = disk[q]
           /\ \A n \in Names : n # v => disk'[m][n] = disk[m][n]
BY DEF TypeOK

(* One directory may have lost a file. *)
LEMMA OneDirLess ==
    ASSUME TypeOK, NEW m \in Middles, NEW v \in Names, NEW i,
           UNCHANGED disk \/ disk' = [disk EXCEPT ![m][v].files = @ \ {i}]
    PROVE  /\ disk' \in [Middles -> [Names -> Dirs]]
           /\ \A q \in Middles : q # m => disk'[q] = disk[q]
           /\ \A n \in Names : n # v => disk'[m][n] = disk[m][n]
<1> DEFINE d == [disk[m][v] EXCEPT !.files = @ \ {i}]
<1>1. CASE UNCHANGED disk
  BY <1>1 DEF TypeOK
<1>2. CASE disk' = [disk EXCEPT ![m][v].files = @ \ {i}]
  <2>1. disk[m][v] \in Dirs
    BY DEF TypeOK
  <2>2. d \in Dirs
    BY <2>1 DEF Dirs
  <2>3. disk' = [disk EXCEPT ![m][v] = d] /\ m \in Middles /\ v \in Names /\ TypeOK
    BY <1>2 DEF TypeOK
  <2> HIDE DEF d
  <2> QED BY ONLY <2>2, <2>3, OneDir
<1> QED BY <1>1, <1>2

LEMMA TornTyped ==
    ASSUME RelayInv, NEW m \in Middles, todo[m] # {}, NEW torn \in Torn(m)
    PROVE  torn \in Dirs
<1> DEFINE old == disk[m][Current(m)].files
           c == snap[m][Current(m)]
<1>1. Current(m) \in Names /\ c \in Contents
  BY CurrentFacts
<1>2. disk[m][Current(m)] \in Dirs
  BY <1>1 DEF RelayInv, TypeOK
<1>3. old \in SUBSET Indexes
  BY <1>2 DEF Dirs
<1>4. \A i \in AllShards(c) : 0 .. i \subseteq Indexes
  BY <1>1, ManifestFacts
<1>5. \/ torn = disk[m][Current(m)]
      \/ torn = [made |-> TRUE, files |-> old]
      \/ \E i \in AllShards(c) : torn = [made |-> TRUE, files |-> (old \cup 0 .. i) \ {i}]
  BY DEF Torn
<1> HIDE DEF old, c
<1>6. CASE torn # disk[m][Current(m)]
  <2>1. \A i \in AllShards(c) : (old \cup 0 .. i) \ {i} \in SUBSET Indexes
    BY <1>3, <1>4
  <2>2. PICK f \in SUBSET Indexes : torn = [made |-> TRUE, files |-> f]
    BY <1>3, <1>5, <1>6, <2>1
  <2> QED BY <2>2 DEF Dirs
<1> QED BY <1>2, <1>6

LEMMA MirrorRaisesOK ==
    ASSUME RelayInv, NEW m \in Middles, MirrorRaises(m)
    PROVE  RelayInv'
<1> DEFINE v == Current(m)
<1>1. TypeOK /\ Good(m)
  BY DEF RelayInv
<1>2. /\ UNCHANGED <<setup, published, store, dist, processed>> /\ Abort(m)
      /\ setup.errors /\ pc[m] = "mirror"
  BY DEF MirrorRaises
<1>3. todo[m] # {} /\ v \notin processed[m]
  BY <1>1, <1>2 DEF Good, CycleOK
<1>4. v \in Names
  BY <1>3, CurrentFacts
<1>5. PICK torn \in Torn(m) : disk' = [disk EXCEPT ![m][v] = torn]
  BY DEF MirrorRaises
<1>6. torn \in Dirs
  BY <1>3, TornTyped
<1> HIDE DEF v
<1>7. /\ disk' \in [Middles -> [Names -> Dirs]]
      /\ \A q \in Middles : q # m => disk'[q] = disk[q]
      /\ \A n \in Names : n # v => disk'[m][n] = disk[m][n]
  BY <1>1, <1>4, <1>5, <1>6, OneDir
<1>8. StoreOK(m)' /\ Leaves(store[m], store'[m], v)
  BY <1>1, <1>2, StoreStays
<1>9. processed[m] \subseteq Names
  BY <1>1 DEF TypeOK
<1>10. Mirrored' => \A n \in processed'[m] : Up(n)' # None =>
         \A i \in Assigned(m, n, published'[n]) : Kept(disk'[m], store'[m], n, i)
  BY <1>2, <1>3, <1>7, <1>8, <1>9, FilesStay
<1>11. store' \in [Middles -> RelayStores] /\ processed' \in [Middles -> SUBSET Names]
  BY <1>1, <1>2 DEF TypeOK
<1>12. ~InMemory
  BY <1>2 DEF InMemory
<1> QED BY <1>2, <1>7, <1>8, <1>10, <1>11, <1>12, AbortOK

LEMMA InterruptedTyped ==
    ASSUME RelayInv, NEW m \in Middles, todo[m] # {}, NEW left \in Interrupted(m)
    PROVE  left \in Dirs
<1>1. CASE pc[m] = "mirror"
  BY <1>1, TornTyped DEF Interrupted
<1>2. CASE pc[m] # "mirror"
  <2>1. disk[m][Current(m)] \in Dirs
    BY CurrentFacts DEF RelayInv, TypeOK
  <2>2. PICK f : left = [disk[m][Current(m)] EXCEPT !.files = @ \ f]
    BY <1>2 DEF Interrupted
  <2> QED BY <2>1, <2>2 DEF Dirs
<1> QED BY <1>1, <1>2

LEMMA ListTornOK ==
    ASSUME TypeOK, NEW m \in Middles, ListTorn(m)
    PROVE  /\ dist' \in [Middles -> [Names -> Contents \cup {None}]]
           /\ \A q \in Middles : q # m => dist'[q] = dist[q]
<1>1. Unlisted \in [Names -> Contents \cup {None}]
  BY DEF Unlisted
<1>2. CASE dist' = dist
  BY <1>2 DEF TypeOK
<1>3. CASE dist' = [dist EXCEPT ![m] = Unlisted]
  BY <1>1, <1>3 DEF TypeOK
<1> QED BY <1>2, <1>3 DEF ListTorn

LEMMA RestartOK ==
    ASSUME RelayInv, NEW m \in Middles, Restart(m)
    PROVE  RelayInv'
<1>1. TypeOK /\ Good(m)
  BY DEF RelayInv
<1>2. UNCHANGED <<setup, published>> /\ Abort(m) /\ setup.crashes
  BY DEF Restart
<1>3. /\ store'[m] = EmptyStore /\ processed'[m] = {}
      /\ \A q \in Middles : q # m => store'[q] = store[q] /\ processed'[q] = processed[q]
      /\ processed' \in [Middles -> SUBSET Names]
  BY <1>1 DEF Restart, TypeOK
<1>4. store' \in [Middles -> RelayStores]
  <2>1. EmptyStore \in RelayStores
    BY EmptyStoreOK, StoreTyped
  <2> QED BY <1>1, <2>1 DEF Restart, TypeOK
<1>5. /\ disk' \in [Middles -> [Names -> Dirs]]
      /\ \A q \in Middles : q # m => disk'[q] = disk[q]
  <2>1. CASE pc[m] \in {"mirror", "stream"}
    <3>1. todo[m] # {}
      BY <1>1, <2>1 DEF Good, CycleOK
    <3>2. Current(m) \in Names
      BY <3>1, CurrentFacts
    <3>3. PICK left \in Interrupted(m) : disk' = [disk EXCEPT ![m][Current(m)] = left]
      BY <2>1 DEF Restart
    <3>4. left \in Dirs
      BY <1>1, <3>1, <3>2, InterruptedTyped
    <3> QED BY <1>1, <3>2, <3>3, <3>4, OneDir
  <2>2. CASE pc[m] \notin {"mirror", "stream"}
    BY <1>1, <2>2 DEF Restart, TypeOK
  <2> QED BY <2>1, <2>2
<1>6. StoreOK(m)'
  <2>1. Held(EmptyStore) = {}
    BY DEF Held, EmptyStore
  <2> QED BY <1>3, <2>1, EmptyStoreOK DEF StoreOK
<1>7. ~InMemory
  BY <1>2 DEF InMemory
<1>8. /\ dist' \in [Middles -> [Names -> Contents \cup {None}]]
      /\ \A q \in Middles : q # m => dist'[q] = dist[q]
  BY <1>1, ListTornOK DEF Restart, TypeOK
<1> QED BY <1>2, <1>3, <1>4, <1>5, <1>6, <1>7, <1>8, CycleEndsOK

(* A cycle that raises without touching anything. *)
LEMMA UntouchedOK ==
    ASSUME RelayInv, NEW m \in Middles, Abort(m), ~InMemory,
           UNCHANGED <<setup, published, store, disk, dist, processed>>
    PROVE  RelayInv'
<1>1. TypeOK /\ Good(m)
  BY DEF RelayInv
<1>2. StoreOK(m)' /\ Leaves(store[m], store'[m], 0)
  BY <1>1, StoreStays
<1>3. 0 \notin processed'[m]
  BY <1>1, NamesAreNumbers DEF TypeOK
<1>4. Mirrored' => \A v \in processed'[m] : Up(v)' # None =>
         \A i \in Assigned(m, v, published'[v]) : Kept(disk'[m], store'[m], v, i)
  BY <1>2, <1>3, FilesStay
<1>5. /\ store' \in [Middles -> RelayStores] /\ disk' \in [Middles -> [Names -> Dirs]]
      /\ processed' \in [Middles -> SUBSET Names]
  BY <1>1 DEF TypeOK
<1> QED BY <1>2, <1>4, <1>5, AbortOK

-----------------------------------------------------------------------------
(* The steps of a cycle *)

(* A step that only moves the monitor: the list or the place it is at. *)
LEMMA FetchListOK ==
    ASSUME RelayInv, NEW m \in Middles, FetchList(m)
    PROVE  RelayInv'
<1>1. TypeOK /\ Good(m)
  BY DEF RelayInv
<1>2. /\ UNCHANGED <<setup, published, store, disk, dist, processed, need, failed>>
      /\ pc[m] = "idle"
  BY DEF FetchList
<1>3. \A v \in Names : Up(v) \in Contents \cup {None} /\ (Up(v) # None => Up(v) = published[v])
  BY <1>1 DEF Up, TypeOK
<1>4. /\ pc'[m] = "process" /\ todo'[m] = {v \in Names : Up(v) # None}
      /\ \A v \in Names : snap'[m][v] = Up(v)
      /\ \A q \in Middles : q # m => pc'[q] = pc[q] /\ snap'[q] = snap[q] /\ todo'[q] = todo[q]
  BY <1>1 DEF FetchList, TypeOK
<1>5. /\ pc' \in [Middles -> Places] /\ todo' \in [Middles -> SUBSET Names]
      /\ snap' \in [Middles -> [Names -> Contents \cup {None}]]
  <2>1. [v \in Names |-> Up(v)] \in [Names -> Contents \cup {None}]
    BY <1>3
  <2>2. "process" \in Places
    BY DEF Places
  <2> QED BY <1>1, <2>1, <2>2 DEF FetchList, TypeOK
<1>6. TypeOK'
  <2>1. need[m] = {} /\ ~failed[m]
    BY <1>1, <1>2 DEF TypeOK
  <2>2. \A q \in Middles : need'[q] # {} \/ failed'[q] => pc'[q] \in {"files", "stream"}
    BY <1>1, <1>2, <1>4, <2>1 DEF TypeOK
  <2> QED BY <1>1, <1>2, <1>5, <2>2 DEF TypeOK
<1>7. \A q \in Middles : q # m => Same(q)
  BY <1>2, <1>4 DEF Same
<1>8. StoreOK(m)' /\ Leaves(store[m], store'[m], 0)
  BY <1>1, <1>2, StoreStays
<1>9. CycleOK(m)'
  <2>1. \A v \in Names : snap'[m][v] # None => snap'[m][v] = published'[v]
    BY <1>2, <1>3, <1>4
  <2>2. todo'[m] \subseteq Listed(snap'[m])
    BY <1>4 DEF Listed
  <2>3. processed'[m] \subseteq Listed(published)'
    BY <1>1, <1>2, OriginStays DEF Good, CycleOK
  <2>4. \A v \in processed'[m] : Up(v)' # None => snap'[m][v] # None
    BY <1>1, <1>2, <1>4, OriginStays DEF TypeOK
  <2> QED BY <1>4, <2>1, <2>2, <2>3, <2>4 DEF CycleOK
<1>10. ListOK(m)'
  BY <1>1, <1>2, <1>4 DEF Good, ListOK, InMemory
<1>11. FilesOK(m)'
  <2>1. 0 \notin processed'[m]
    BY <1>1, <1>2, NamesAreNumbers DEF TypeOK
  <2>2. Mirrored' => \A v \in processed'[m] : Up(v)' # None =>
           \A i \in Assigned(m, v, published'[v]) : Kept(disk'[m], store'[m], v, i)
    BY <1>2, <1>8, <2>1, FilesStay
  <2> QED BY <1>4, <2>2 DEF FilesOK
<1>12. Good(m)'
  BY <1>8, <1>9, <1>10, <1>11 DEF Good
<1> QED BY <1>2, <1>6, <1>7, <1>12, RelayStep

(* A version becomes processed with its files, the others keep theirs. *)
LEMMA FilesAdded ==
    ASSUME RelayInv, NEW m \in Middles, UNCHANGED <<setup, published>>,
           NEW name \in Names, Leaves(store[m], store'[m], name), name \notin processed[m],
           processed'[m] \subseteq processed[m] \cup {name},
           \A v \in processed[m] : Up(v) # None =>
              disk[m][v].files \subseteq disk'[m][v].files,
           Mirrored /\ Up(name) # None => \A i \in Assigned(m, name, published[name]) :
              Kept(disk'[m], store'[m], name, i)
    PROVE  Mirrored' => \A v \in processed'[m] : Up(v)' # None =>
              \A i \in Assigned(m, v, published'[v]) : Kept(disk'[m], store'[m], v, i)
<1> SUFFICES ASSUME Mirrored, NEW v \in processed'[m], Up(v) # None,
                    NEW i \in Assigned(m, v, published[v])
             PROVE  Kept(disk'[m], store'[m], v, i)
  BY OriginStays DEF Mirrored
<1>1. CASE v = name
  BY <1>1
<1>2. CASE v # name
  <2>1. v \in processed[m] /\ v \in Names
    BY <1>2 DEF RelayInv, TypeOK
  <2>2. Kept(disk[m], store[m], v, i)
    BY <2>1 DEF RelayInv, Good, FilesOK
  <2> QED BY <1>2, <2>1, <2>2, KeptStays
<1> QED BY <1>1, <1>2

(* _process_version is through with a version. *)
LEMMA SkipOK ==
    ASSUME RelayInv, NEW m \in Middles, Skip(m), todo[m] # {}, pc[m] # "idle",
           need[m] = {}, ~failed'[m], failed' \in [Middles -> BOOLEAN],
           \A q \in Middles : q # m => failed'[q] = failed[q],
           UNCHANGED <<setup, published, dist, snap, need>>,
           store' \in [Middles -> RelayStores], disk' \in [Middles -> [Names -> Dirs]],
           processed' \in [Middles -> SUBSET Names],
           \A q \in Middles : q # m =>
              store'[q] = store[q] /\ disk'[q] = disk[q] /\ processed'[q] = processed[q],
           StoreOK(m)', processed'[m] \subseteq processed[m] \cup {Current(m)},
           InMemory => disk'[m] = disk[m],
           Mirrored' => \A v \in processed'[m] : Up(v)' # None =>
              \A i \in Assigned(m, v, published'[v]) : Kept(disk'[m], store'[m], v, i)
    PROVE  RelayInv'
<1>1. TypeOK /\ Good(m)
  BY DEF RelayInv
<1>2. /\ Current(m) \in todo[m] /\ Current(m) \in Names
      /\ snap[m][Current(m)] = published[Current(m)] /\ snap[m][Current(m)] # None
  BY CurrentFacts, NoneAssumption
<1>3. /\ pc'[m] = "process" /\ todo'[m] \subseteq todo[m]
      /\ \A q \in Middles : q # m => pc'[q] = pc[q] /\ todo'[q] = todo[q]
  BY <1>1 DEF Skip, TypeOK
<1>4. TypeOK'
  <2>1. pc' \in [Middles -> Places] /\ todo' \in [Middles -> SUBSET Names]
    <3>1. "process" \in Places
      BY DEF Places
    <3> QED BY <1>1, <3>1 DEF Skip, TypeOK
  <2>2. \A q \in Middles : need'[q] # {} \/ failed'[q] => pc'[q] \in {"files", "stream"}
    BY <1>1, <1>3 DEF TypeOK
  <2> QED BY <1>1, <2>1, <2>2 DEF TypeOK
<1>5. \A q \in Middles : q # m => Same(q)
  BY <1>3 DEF Same
<1>6. CycleOK(m)'
  <2>1. /\ \A v \in Names : snap'[m][v] # None => snap'[m][v] = published'[v]
        /\ todo'[m] \subseteq Listed(snap'[m])
    BY <1>1, <1>3 DEF Good, CycleOK
  <2>2. processed'[m] \subseteq Listed(published)'
    <3>1. Current(m) \in Listed(published)
      BY <1>2 DEF Listed
    <3> QED BY <1>1, <3>1, OriginStays DEF Good, CycleOK
  <2>3. \A v \in processed'[m] : Up(v)' # None => snap'[m][v] # None
    BY <1>1, <1>2, OriginStays DEF Good, CycleOK
  <2> QED BY <1>3, <2>1, <2>2, <2>3 DEF CycleOK
<1>7. ListOK(m)'
  <2> SUFFICES ASSUME InMemory PROVE ListOK(m)'
    BY DEF ListOK, InMemory
  <2> QED BY <1>1, <1>3 DEF Good, ListOK
<1>8. FilesOK(m)'
  BY <1>3 DEF FilesOK
<1>9. Good(m)'
  BY <1>6, <1>7, <1>8 DEF Good
<1> QED BY <1>4, <1>5, <1>9, RelayStep

LEMMA KnownOK ==
    ASSUME RelayInv, NEW m \in Middles, Known(m)
    PROVE  RelayInv'
<1>1. TypeOK /\ Good(m)
  BY DEF RelayInv
<1>2. /\ UNCHANGED <<setup, published, store, disk, dist, processed, snap, need, failed>>
      /\ Skip(m) /\ pc[m] = "process" /\ todo[m] # {}
  BY DEF Known
<1>3. need[m] = {} /\ ~failed[m] /\ 0 \notin processed'[m]
  BY <1>1, <1>2, NamesAreNumbers DEF TypeOK
<1>4. StoreOK(m)' /\ Leaves(store[m], store'[m], 0)
  BY <1>1, <1>2, StoreStays
<1>5. Mirrored' => \A v \in processed'[m] : Up(v)' # None =>
         \A i \in Assigned(m, v, published'[v]) : Kept(disk'[m], store'[m], v, i)
  BY <1>2, <1>3, <1>4, FilesStay
<1>6. /\ store' \in [Middles -> RelayStores] /\ disk' \in [Middles -> [Names -> Dirs]]
      /\ processed' \in [Middles -> SUBSET Names] /\ failed' \in [Middles -> BOOLEAN]
  BY <1>1, <1>2 DEF TypeOK
<1> QED BY <1>2, <1>3, <1>4, <1>5, <1>6, SkipOK

(* A relay of whole versions has every shard of what it holds. *)
LEMMA HeldWhole ==
    ASSUME NEW m \in Middles, Good(m), ~setup.streaming, NEW v \in Held(store[m]),
           NEW i \in AllShards(published[v])
    PROVE  HasShard(store[m], v, i)
BY DEF Good, StoreOK, Copy, HasShard, AvailableShards, Held

(* The files of a version are there and it becomes processed. *)
LEMMA WrittenOK ==
    ASSUME RelayInv, NEW m \in Middles, Skip(m), Ready(m, Current(m)), todo[m] # {},
           pc[m] # "idle", Current(m) \notin processed[m], need[m] = {}, ~failed[m],
           setup.mirror, ~setup.streaming \/ setup.unreliable \/ Up(Current(m)) = None,
           disk' \in [Middles -> [Names -> Dirs]],
           \A q \in Middles : q # m => disk'[q] = disk[q],
           \A n \in Names : n # Current(m) => disk'[m][n] = disk[m][n],
           AllShards(snap[m][Current(m)]) \subseteq disk'[m][Current(m)].files,
           UNCHANGED <<setup, published, store, dist, snap, need, failed>>
    PROVE  RelayInv'
<1> DEFINE v == Current(m)
           c == snap[m][v]
<1>1. TypeOK /\ Good(m)
  BY DEF RelayInv
<1>2. v \in Names /\ c = published[v] /\ c \in Contents
  BY CurrentFacts
<1>3. /\ processed' \in [Middles -> SUBSET Names] /\ processed'[m] = processed[m] \cup {v}
      /\ \A q \in Middles : q # m => processed'[q] = processed[q]
  BY <1>1, <1>2 DEF Ready, TypeOK
<1>4. StoreOK(m)' /\ Leaves(store[m], store'[m], v)
  BY <1>1, StoreStays
<1>5. ASSUME Mirrored, Up(v) # None, NEW i \in Assigned(m, v, published[v])
      PROVE  Kept(disk'[m], store'[m], v, i)
  <2>1. i \in AllShards(c) /\ ~setup.streaming
    BY <1>2, <1>5 DEF Assigned, Mirrored
  <2>2. i \in disk'[m][v].files
    BY <2>1
  <2>3. v \in Held(store[m]) => HasShard(store[m], v, i)
    BY <1>1, <1>2, <2>1, HeldWhole
  <2> QED BY <2>2, <2>3 DEF Kept
<1>6. processed[m] \subseteq Names
  BY <1>1 DEF TypeOK
<1> HIDE DEF c
<1>7. v \notin processed[m] /\ processed'[m] \subseteq processed[m] \cup {v}
  BY <1>3
<1>8. \A n \in processed[m] : Up(n) # None => disk[m][n].files \subseteq disk'[m][n].files
  BY <1>6, <1>7
<1>9. Mirrored' => \A n \in processed'[m] : Up(n)' # None =>
         \A i \in Assigned(m, n, published'[n]) : Kept(disk'[m], store'[m], n, i)
  <2> HIDE DEF v
  <2> QED BY <1>2, <1>4, <1>5, <1>7, <1>8, FilesAdded
<1>10. /\ store' \in [Middles -> RelayStores] /\ failed' \in [Middles -> BOOLEAN]
       /\ ~InMemory
  BY <1>1 DEF TypeOK, InMemory
<1> QED BY <1>3, <1>4, <1>9, <1>10, SkipOK

LEMMA MirrorOK ==
    ASSUME RelayInv, NEW m \in Middles, Mirror(m)
    PROVE  RelayInv'
<1> DEFINE v == Current(m)
           d == [made |-> TRUE, files |-> AllShards(snap[m][v])]
<1>1. TypeOK /\ Good(m)
  BY DEF RelayInv
<1>2. /\ pc[m] = "mirror" /\ Skip(m) /\ Ready(m, v)
      /\ UNCHANGED <<setup, published, store, dist, snap, need, failed>>
      /\ disk' = [disk EXCEPT ![m][v] = d]
  BY DEF Mirror
<1>3. /\ todo[m] # {} /\ v \notin processed[m] /\ need[m] = {} /\ ~failed[m]
      /\ setup.mirror /\ (~setup.streaming \/ setup.unreliable)
  BY <1>1, <1>2 DEF Good, CycleOK, TypeOK
<1>4. v \in Names /\ snap[m][v] \in Contents
  BY <1>3, CurrentFacts
<1>5. d \in Dirs /\ d.files = AllShards(snap[m][v])
  BY <1>4, ManifestFacts DEF Dirs
<1> HIDE DEF d
<1>6. /\ disk' \in [Middles -> [Names -> Dirs]] /\ disk'[m][v] = d
      /\ \A q \in Middles : q # m => disk'[q] = disk[q]
      /\ \A n \in Names : n # v => disk'[m][n] = disk[m][n]
  <2> HIDE DEF v
  <2> QED BY <1>1, <1>2, <1>4, <1>5, OneDir
<1>7. AllShards(snap[m][Current(m)]) \subseteq disk'[m][Current(m)].files
  BY <1>5, <1>6
<1> QED BY <1>2, <1>3, <1>6, <1>7, WrittenOK

(* _process_version is through with a version that it has not got. *)
LEMMA MissedOK ==
    ASSUME RelayInv, NEW m \in Middles, Skip(m), todo[m] # {}, pc[m] # "idle",
           Current(m) \notin processed[m], need[m] = {}, ~failed'[m],
           failed' \in [Middles -> BOOLEAN],
           \A q \in Middles : q # m => failed'[q] = failed[q],
           disk' \in [Middles -> [Names -> Dirs]],
           \A q \in Middles : q # m => disk'[q] = disk[q],
           \A n \in Names : n # Current(m) => disk'[m][n] = disk[m][n],
           InMemory => disk'[m] = disk[m],
           UNCHANGED <<setup, published, store, dist, processed, snap, need>>
    PROVE  RelayInv'
<1>1. TypeOK /\ Good(m)
  BY DEF RelayInv
<1>2. StoreOK(m)' /\ Leaves(store[m], store'[m], Current(m))
  BY <1>1, StoreStays
<1>3. /\ store' \in [Middles -> RelayStores] /\ processed' \in [Middles -> SUBSET Names]
      /\ processed[m] \subseteq Names
  BY <1>1 DEF TypeOK
<1>4. \A n \in processed'[m] : Up(n) # None => disk[m][n].files \subseteq disk'[m][n].files
  BY <1>3
<1>5. Mirrored' => \A n \in processed'[m] : Up(n)' # None =>
         \A i \in Assigned(m, n, published'[n]) : Kept(disk'[m], store'[m], n, i)
  BY <1>2, <1>4, FilesStay
<1> QED BY <1>2, <1>3, <1>5, SkipOK

(* The cycle goes to another place for the version it is at. *)
LEMMA EnterOK ==
    ASSUME RelayInv, NEW m \in Middles, todo[m] # {}, Current(m) \notin processed[m],
           pc[m] # "idle", ~failed[m], ~InMemory,
           NEW place \in {"mirror", "files", "list", "stream"},
           pc' = [pc EXCEPT ![m] = place],
           UNCHANGED <<setup, published, processed, snap, todo, failed>>,
           store' \in [Middles -> RelayStores], disk' \in [Middles -> [Names -> Dirs]],
           dist' \in [Middles -> [Names -> Contents \cup {None}]],
           need' \in [Middles -> SUBSET Indexes],
           \A q \in Middles : q # m =>
              /\ store'[q] = store[q] /\ disk'[q] = disk[q] /\ dist'[q] = dist[q]
              /\ need'[q] = need[q],
           StoreOK(m)', Leaves(store[m], store'[m], Current(m)),
           \A n \in Names : disk[m][n].files \subseteq disk'[m][n].files,
           place \in {"mirror", "files"} => setup.mirror,
           place = "mirror" => ~setup.streaming \/ setup.unreliable,
           place = "files" => ~setup.streaming \/ setup.unreliable \/ Up(Current(m)) = None,
           place \in {"list", "stream"} => setup.streaming,
           place \in {"mirror", "list"} => need'[m] = {},
           place = "files" => need'[m] = AllShards(snap[m][Current(m)]),
           place = "stream" => need'[m] = Assigned(m, Current(m), snap[m][Current(m)])
    PROVE  RelayInv'
<1>1. TypeOK /\ Good(m)
  BY DEF RelayInv
<1>2. /\ pc' \in [Middles -> Places] /\ pc'[m] = place
      /\ \A q \in Middles : q # m => pc'[q] = pc[q]
  BY <1>1 DEF TypeOK, Places
<1>3. TypeOK'
  <2>1. \A q \in Middles : need'[q] # {} \/ failed'[q] => pc'[q] \in {"files", "stream"}
    BY <1>1, <1>2 DEF TypeOK
  <2> QED BY <1>1, <1>2, <2>1 DEF TypeOK
<1>4. \A q \in Middles : q # m => Same(q)
  BY <1>2 DEF Same
<1>5. Current(m)' = Current(m)
  BY DEF Current
<1>6. CycleOK(m)'
  <2>1. /\ processed'[m] \subseteq Listed(published)'
        /\ \A n \in processed'[m] : Up(n)' # None => snap'[m][n] # None
    BY <1>1, OriginStays DEF Good, CycleOK
  <2>2. Up(Current(m))' = Up(Current(m))
    BY <1>5, OriginStays
  <2> QED BY <1>1, <1>2, <1>5, <2>1, <2>2 DEF Good, CycleOK
<1>7. ListOK(m)'
  BY DEF ListOK, InMemory
<1>8. FilesOK(m)'
  <2>1. processed'[m] \subseteq Names
    BY <1>1 DEF TypeOK
  <2>2. Mirrored' => \A n \in processed'[m] : Up(n)' # None =>
           \A i \in Assigned(m, n, published'[n]) : Kept(disk'[m], store'[m], n, i)
    BY <2>1, FilesStay
  <2>3. /\ pc'[m] = "stream" =>
              Assigned(m, Current(m)', snap'[m][Current(m)']) \ need'[m] = {}
        /\ pc'[m] = "files" => AllShards(snap'[m][Current(m)']) \ need'[m] = {}
    BY <1>2, <1>5
  <2> QED BY <2>2, <2>3 DEF FilesOK
<1>9. Good(m)'
  BY <1>6, <1>7, <1>8 DEF Good
<1> QED BY <1>3, <1>4, <1>9, RelayStep

(* One directory is made; its files stay. *)
LEMMA MadeDir ==
    ASSUME TypeOK, NEW m \in Middles, NEW v \in Names,
           disk' = [disk EXCEPT ![m][v].made = TRUE]
    PROVE  /\ disk' \in [Middles -> [Names -> Dirs]]
           /\ \A q \in Middles : q # m => disk'[q] = disk[q]
           /\ \A n \in Names : disk'[m][n].files = disk[m][n].files
<1>1. disk[m][v] \in Dirs
  BY DEF TypeOK
<1> DEFINE d == [disk[m][v] EXCEPT !.made = TRUE]
<1>2. d \in Dirs /\ d.files = disk[m][v].files
  BY <1>1 DEF Dirs
<1>3. /\ disk' = [disk EXCEPT ![m][v] = d]
      /\ TypeOK /\ m \in Middles /\ v \in Names
  BY DEF TypeOK
<1> HIDE DEF d
<1>4. /\ disk' \in [Middles -> [Names -> Dirs]] /\ disk'[m][v] = d
      /\ \A q \in Middles : q # m => disk'[q] = disk[q]
      /\ \A n \in Names : n # v => disk'[m][n] = disk[m][n]
  BY ONLY <1>2, <1>3, OneDir
<1> QED BY <1>2, <1>4

LEMMA NotDownloadedOK ==
    ASSUME RelayInv, NEW m \in Middles, NotDownloaded(m)
    PROVE  RelayInv'
<1> DEFINE v == Current(m)
           c == snap[m][v]
<1>1. TypeOK /\ Good(m)
  BY DEF RelayInv
<1>2. /\ pc[m] = "process" /\ todo[m] # {} /\ v \notin processed[m]
      /\ UNCHANGED <<setup, published, store, dist, processed, snap, failed>>
      /\ Up(v) = c /\ setup.streaming => setup.unreliable
  BY DEF NotDownloaded, Undelivered, Unknown
<1>3. need[m] = {} /\ ~failed[m] /\ failed \in [Middles -> BOOLEAN]
  BY <1>1, <1>2 DEF TypeOK
<1>4. v \in Names /\ c = published[v] /\ c \in Contents
  BY <1>2, CurrentFacts
<1>5. CASE setup.mirror
  <2>1. /\ disk' = [disk EXCEPT ![m][v].made = TRUE]
        /\ need' = [need EXCEPT ![m] = AllShards(c)]
        /\ pc' = [pc EXCEPT ![m] = "files"] /\ UNCHANGED todo
    BY <1>5 DEF NotDownloaded
  <2>2. AllShards(c) \in SUBSET Indexes
    BY <1>4, ManifestFacts
  <2>3. Up(v) # None => Up(v) = c
    BY <1>4 DEF Up
  <2>4. ~setup.streaming \/ setup.unreliable \/ Up(v) = None
    BY <1>2, <2>3
  <2>5. ~InMemory
    BY <1>5 DEF InMemory
  <2>6. StoreOK(m)' /\ Leaves(store[m], store'[m], v)
    BY <1>1, <1>2, StoreStays
  <2>7. /\ need' \in [Middles -> SUBSET Indexes] /\ need'[m] = AllShards(c)
        /\ \A q \in Middles : q # m => need'[q] = need[q]
    <3> HIDE DEF c
    <3> QED BY <1>1, <2>1, <2>2 DEF TypeOK
  <2>8. /\ disk' \in [Middles -> [Names -> Dirs]]
        /\ \A q \in Middles : q # m => disk'[q] = disk[q]
        /\ \A n \in Names : disk[m][n].files \subseteq disk'[m][n].files
    <3> HIDE DEF v
    <3> QED BY <1>1, <1>4, <2>1, MadeDir
  <2>9. /\ store' \in [Middles -> RelayStores]
        /\ dist' \in [Middles -> [Names -> Contents \cup {None}]]
    BY <1>1, <1>2 DEF TypeOK
  <2> QED BY <1>2, <1>3, <1>5, <2>1, <2>4, <2>5, <2>6, <2>7, <2>8, <2>9, EnterOK
<1>6. CASE ~setup.mirror
  <2>1. Skip(m) /\ UNCHANGED <<disk, need>>
    BY <1>6 DEF NotDownloaded
  <2>2. disk' \in [Middles -> [Names -> Dirs]] /\ failed' \in [Middles -> BOOLEAN]
    BY <1>1, <1>2, <2>1 DEF TypeOK
  <2> QED BY <1>2, <1>3, <2>1, <2>2, MissedOK
<1> QED BY <1>5, <1>6

(* A step of a worker that fetches a file. *)
LEMMA FileWorkerOK ==
    ASSUME RelayInv, NEW m \in Middles, pc[m] = "files",
           UNCHANGED <<setup, published, store, dist, processed, pc, snap, todo>>,
           disk' \in [Middles -> [Names -> Dirs]], need' \in [Middles -> SUBSET Indexes],
           failed' \in [Middles -> BOOLEAN],
           \A q \in Middles : q # m =>
              disk'[q] = disk[q] /\ need'[q] = need[q] /\ failed'[q] = failed[q],
           \A n \in Names : n # Current(m) => disk'[m][n] = disk[m][n],
           Mirrored /\ ~failed'[m] => AllShards(snap[m][Current(m)]) \ need'[m]
                             \subseteq disk'[m][Current(m)].files
    PROVE  RelayInv'
<1>1. TypeOK /\ Good(m)
  BY DEF RelayInv
<1>2. setup.mirror /\ todo[m] # {} /\ Current(m) \notin processed[m]
  BY <1>1 DEF Good, CycleOK
<1>3. Current(m)' = Current(m) /\ Current(m) \in Names
  BY <1>2, CurrentFacts DEF Current
<1>4. TypeOK'
  <2>1. \A q \in Middles : need'[q] # {} \/ failed'[q] => pc'[q] \in {"files", "stream"}
    BY <1>1 DEF TypeOK
  <2> QED BY <1>1, <2>1 DEF TypeOK
<1>5. \A q \in Middles : q # m => Same(q)
  BY DEF Same
<1>6. StoreOK(m)' /\ Leaves(store[m], store'[m], Current(m))
  BY <1>1, StoreStays
<1>7. CycleOK(m)'
  <2>1. /\ processed'[m] \subseteq Listed(published)'
        /\ \A n \in processed'[m] : Up(n)' # None => snap'[m][n] # None
        /\ Up(Current(m))' = Up(Current(m))
    BY <1>1, <1>3, OriginStays DEF Good, CycleOK
  <2> QED BY <1>1, <1>3, <2>1 DEF Good, CycleOK
<1>8. ListOK(m)'
  BY <1>2 DEF ListOK, InMemory
<1>9. FilesOK(m)'
  <2>1. \A n \in processed'[m] : Up(n) # None => disk[m][n].files \subseteq disk'[m][n].files
    BY <1>1, <1>2 DEF TypeOK
  <2>2. Mirrored' => \A n \in processed'[m] : Up(n)' # None =>
           \A i \in Assigned(m, n, published'[n]) : Kept(disk'[m], store'[m], n, i)
    BY <1>2, <1>6, <2>1, FilesStay
  <2>3. Mirrored' <=> Mirrored
    BY DEF Mirrored
  <2> QED BY <1>3, <2>2, <2>3 DEF FilesOK
<1>10. Good(m)'
  BY <1>6, <1>7, <1>8, <1>9 DEF Good
<1> QED BY <1>4, <1>5, <1>10, RelayStep

LEMMA FileArrivesOK ==
    ASSUME RelayInv, NEW m \in Middles, NEW i \in need[m], FileArrives(m, i)
    PROVE  RelayInv'
<1> DEFINE v == Current(m)
           d == [disk[m][v] EXCEPT !.files = @ \cup {i}]
<1>1. TypeOK /\ Good(m)
  BY DEF RelayInv
<1>2. /\ pc[m] = "files"
      /\ disk' = [disk EXCEPT ![m][v].files = @ \cup {i}]
      /\ need' = [need EXCEPT ![m] = @ \ {i}]
      /\ UNCHANGED <<setup, published, store, dist, processed, pc, snap, todo, failed>>
  BY DEF FileArrives
<1>3. v \in Names
  BY <1>1, <1>2, CurrentFacts DEF Good, CycleOK
<1>4. disk[m][v] \in Dirs /\ i \in Indexes
  BY <1>1, <1>3 DEF TypeOK
<1>5. d \in Dirs /\ d.files = disk[m][v].files \cup {i}
  BY <1>4 DEF Dirs
<1>6. disk' = [disk EXCEPT ![m][v] = d]
  BY <1>1, <1>2, <1>3 DEF TypeOK
<1> HIDE DEF d
<1>7. /\ disk' \in [Middles -> [Names -> Dirs]] /\ disk'[m][v] = d
      /\ \A q \in Middles : q # m => disk'[q] = disk[q]
      /\ \A n \in Names : n # v => disk'[m][n] = disk[m][n]
  <2> HIDE DEF v
  <2> QED BY <1>1, <1>3, <1>5, <1>6, OneDir
<1>8. /\ need' \in [Middles -> SUBSET Indexes] /\ need'[m] = need[m] \ {i}
      /\ \A q \in Middles : q # m => need'[q] = need[q]
      /\ failed' \in [Middles -> BOOLEAN]
  BY <1>1, <1>2 DEF TypeOK
<1>9. Mirrored /\ ~failed'[m] => AllShards(snap[m][v]) \ need'[m] \subseteq disk'[m][v].files
  <2> SUFFICES ASSUME Mirrored, ~failed[m]
               PROVE  AllShards(snap[m][v]) \ need'[m] \subseteq disk'[m][v].files
    BY <1>2
  <2>1. AllShards(snap[m][v]) \ need[m] \subseteq disk[m][v].files
    BY <1>1, <1>2 DEF Good, FilesOK
  <2> QED BY <1>5, <1>7, <1>8, <2>1
<1> QED BY <1>2, <1>7, <1>8, <1>9, FileWorkerOK

LEMMA FileFailsOK ==
    ASSUME RelayInv, NEW m \in Middles, NEW i \in need[m], FileFails(m, i)
    PROVE  RelayInv'
<1> DEFINE v == Current(m)
<1>1. TypeOK /\ Good(m)
  BY DEF RelayInv
<1>2. /\ pc[m] = "files"
      /\ \/ UNCHANGED disk
         \/ disk' = [disk EXCEPT ![m][v].files = @ \ {i}]
      /\ UNCHANGED <<setup, published, store, dist, processed, pc, snap, todo>>
  BY DEF FileFails
<1>3. v \in Names
  BY <1>1, <1>2, CurrentFacts DEF Good, CycleOK
<1>4. /\ need' \in [Middles -> SUBSET Indexes] /\ failed' \in [Middles -> BOOLEAN]
      /\ failed'[m] /\ \A q \in Middles : q # m => need'[q] = need[q] /\ failed'[q] = failed[q]
  BY <1>1 DEF FileFails, TypeOK
<1>5. /\ disk' \in [Middles -> [Names -> Dirs]]
      /\ \A q \in Middles : q # m => disk'[q] = disk[q]
      /\ \A n \in Names : n # v => disk'[m][n] = disk[m][n]
  <2> HIDE DEF v
  <2> QED BY <1>1, <1>2, <1>3, OneDirLess
<1> QED BY <1>2, <1>4, <1>5, FileWorkerOK

LEMMA FilesEndOK ==
    ASSUME RelayInv, NEW m \in Middles, FilesEnd(m)
    PROVE  RelayInv'
<1> DEFINE v == Current(m)
<1>1. TypeOK /\ Good(m)
  BY DEF RelayInv
<1>2. /\ pc[m] = "files" /\ need[m] = {} /\ Skip(m)
      /\ UNCHANGED <<setup, published, store, dist, snap, need>>
  BY DEF FilesEnd
<1>3. /\ todo[m] # {} /\ v \notin processed[m] /\ setup.mirror /\ ~InMemory
      /\ ~setup.streaming \/ setup.unreliable \/ Up(v) = None
  BY <1>1, <1>2 DEF Good, CycleOK, InMemory
<1>4. v \in Names
  BY <1>3, CurrentFacts
<1>5. CASE failed[m]
  <2>1. /\ disk' = [disk EXCEPT ![m][v] = NoDir]
        /\ failed' = [failed EXCEPT ![m] = FALSE] /\ UNCHANGED processed
    BY <1>5 DEF FilesEnd
  <2>2. NoDir \in Dirs
    BY DEF NoDir, Dirs
  <2>3. /\ disk' \in [Middles -> [Names -> Dirs]]
        /\ \A q \in Middles : q # m => disk'[q] = disk[q]
        /\ \A n \in Names : n # v => disk'[m][n] = disk[m][n]
    <3> HIDE DEF v
    <3> QED BY <1>1, <1>4, <2>1, <2>2, OneDir
  <2>4. /\ failed' \in [Middles -> BOOLEAN] /\ ~failed'[m]
        /\ \A q \in Middles : q # m => failed'[q] = failed[q]
    BY <1>1, <2>1 DEF TypeOK
  <2> QED BY <1>2, <1>3, <2>1, <2>3, <2>4, MissedOK
<1>6. CASE ~failed[m]
  <2>1. Ready(m, v) /\ UNCHANGED <<disk, failed>>
    BY <1>6 DEF FilesEnd
  <2>2. disk' \in [Middles -> [Names -> Dirs]]
    BY <1>1, <2>1 DEF TypeOK
  <2>3. CASE Mirrored
    <3>1. AllShards(snap[m][v]) \subseteq disk'[m][v].files
      BY <1>1, <1>2, <1>6, <2>1, <2>3 DEF Good, FilesOK
    <3> QED BY <1>2, <1>3, <1>6, <2>1, <2>2, <3>1, WrittenOK
  <2>4. CASE ~Mirrored
    <3>1. StoreOK(m)'
      BY <1>1, <1>2, StoreStays
    <3>2. /\ processed' \in [Middles -> SUBSET Names]
          /\ processed'[m] = processed[m] \cup {v}
          /\ \A q \in Middles : q # m => processed'[q] = processed[q]
      BY <1>1, <1>4, <2>1 DEF Ready, TypeOK
    <3>3. /\ store' \in [Middles -> RelayStores] /\ failed' \in [Middles -> BOOLEAN]
          /\ ~Mirrored'
      BY <1>1, <1>2, <2>1, <2>4 DEF TypeOK, Mirrored
    <3> QED BY <1>2, <1>3, <1>6, <2>1, <2>2, <3>1, <3>2, <3>3, SkipOK
  <2> QED BY <2>3, <2>4
<1> QED BY <1>5, <1>6

LEMMA FilesRaiseOK ==
    ASSUME RelayInv, NEW m \in Middles, FilesRaise(m)
    PROVE  RelayInv'
<1>1. /\ Abort(m) /\ ~InMemory
      /\ UNCHANGED <<setup, published, store, disk, dist, processed>>
  BY DEF FilesRaise, InMemory
<1> QED BY <1>1, UntouchedOK

LEMMA FilesRemainOK ==
    ASSUME RelayInv, NEW m \in Middles, FilesRemain(m)
    PROVE  RelayInv'
<1> DEFINE v == Current(m)
<1>1. TypeOK /\ Good(m)
  BY DEF RelayInv
<1>2. /\ pc[m] = "files" /\ need[m] = {} /\ Skip(m) /\ ~InMemory
      /\ failed' = [failed EXCEPT ![m] = FALSE]
      /\ UNCHANGED <<setup, published, store, dist, processed, snap, need>>
  BY DEF FilesRemain, InMemory
<1>3. PICK rest \in SUBSET disk[m][v].files : disk' = [disk EXCEPT ![m][v].files = rest]
  BY DEF FilesRemain
<1>4. todo[m] # {} /\ v \notin processed[m]
  BY <1>1, <1>2 DEF Good, CycleOK
<1>5. v \in Names
  BY <1>4, CurrentFacts
<1> DEFINE d == [disk[m][v] EXCEPT !.files = rest]
<1>6. d \in Dirs
  <2>1. disk[m][v] \in Dirs
    BY <1>1, <1>5 DEF TypeOK
  <2> QED BY <2>1 DEF Dirs
<1>7. disk' = [disk EXCEPT ![m][v] = d]
  BY <1>1, <1>3, <1>5 DEF TypeOK
<1> HIDE DEF d
<1>8. /\ disk' \in [Middles -> [Names -> Dirs]]
      /\ \A q \in Middles : q # m => disk'[q] = disk[q]
      /\ \A n \in Names : n # v => disk'[m][n] = disk[m][n]
  <2> HIDE DEF v
  <2> QED BY <1>1, <1>5, <1>6, <1>7, OneDir
<1>9. /\ failed' \in [Middles -> BOOLEAN] /\ ~failed'[m]
      /\ \A q \in Middles : q # m => failed'[q] = failed[q]
  BY <1>1, <1>2 DEF TypeOK
<1> QED BY <1>2, <1>4, <1>8, <1>9, MissedOK

(* The store of a relay is changed. *)
LEMMA OneStore ==
    ASSUME TypeOK, NEW m \in Middles, NEW s, Consistent(s),
           store' = [store EXCEPT ![m] = s]
    PROVE  /\ store' \in [Middles -> RelayStores] /\ store'[m] = s
           /\ \A q \in Middles : q # m => store'[q] = store[q]
<1>1. s \in RelayStores
  BY StoreTyped
<1> QED BY <1>1 DEF TypeOK

LEMMA DownloadedOK ==
    ASSUME RelayInv, NEW m \in Middles, Downloaded(m)
    PROVE  RelayInv'
<1> DEFINE v == Current(m)
           c == snap[m][v]
           s == StoreComplete(store[m], v, c, c, InferredShard(c), None)
<1>1. TypeOK /\ Good(m)
  BY DEF RelayInv
<1>2. /\ pc[m] = "process" /\ todo[m] # {} /\ v \notin processed[m]
      /\ UNCHANGED <<setup, published, disk, dist, snap, need, failed>>
      /\ Size[c] <= Capacity /\ (setup.streaming => setup.unreliable)
      /\ store' = [store EXCEPT ![m] = s]
  BY DEF Downloaded, Unknown
<1>3. v \in Names /\ c = published[v] /\ c \in Contents /\ c # None
  BY <1>2, CurrentFacts, NoneAssumption
<1>4. Consistent(store[m])
  BY <1>1 DEF Good, StoreOK
<1> HIDE DEF v, c
<1>5. /\ Leaves(store[m], s, v) /\ v \in Held(s)
      /\ Copy(s.ver[v], c) /\ s.ver[v].data # None
  BY <1>2, <1>3, <1>4, CompleteLeaves
<1> HIDE DEF s
<1>6. /\ store' \in [Middles -> RelayStores] /\ store'[m] = s
      /\ \A q \in Middles : q # m => store'[q] = store[q]
  BY <1>1, <1>2, <1>5, OneStore DEF Leaves
<1>7. StoreOK(m)'
  BY <1>1, <1>2, <1>3, <1>5, <1>6, StoreLeaves
<1>8. /\ need[m] = {} /\ ~failed[m] /\ disk' \in [Middles -> [Names -> Dirs]]
      /\ processed[m] \subseteq Names /\ failed' \in [Middles -> BOOLEAN]
  BY <1>1, <1>2 DEF TypeOK
<1>9. CASE setup.mirror
  <2>1. UNCHANGED <<todo, processed>> /\ pc' = [pc EXCEPT ![m] = "mirror"]
    BY <1>9 DEF Downloaded
  <2>2. pc'[m] = "mirror" /\ \A q \in Middles : q # m => pc'[q] = pc[q]
    BY <1>1, <2>1 DEF TypeOK
  <2>3. TypeOK'
    <3>1. pc' \in [Middles -> Places]
      BY <1>1, <2>1 DEF TypeOK, Places
    <3>2. \A q \in Middles : need'[q] # {} \/ failed'[q] => pc'[q] \in {"files", "stream"}
      BY <1>1, <1>2, <1>8, <2>2 DEF TypeOK
    <3> QED BY <1>1, <1>2, <1>6, <2>1, <3>1, <3>2 DEF TypeOK
  <2>4. \A q \in Middles : q # m => Same(q)
    BY <1>2, <1>6, <2>1, <2>2 DEF Same
  <2>5. CycleOK(m)'
    <3>1. Current(m)' = v
      BY <2>1 DEF Current, v
    <3>2. /\ processed'[m] \subseteq Listed(published)'
          /\ \A n \in processed'[m] : Up(n)' # None => snap'[m][n] # None
      BY <1>1, <1>2, <2>1, OriginStays DEF Good, CycleOK
    <3> QED BY <1>1, <1>2, <1>9, <2>1, <2>2, <3>1, <3>2 DEF Good, CycleOK
  <2>6. ListOK(m)'
    BY <1>2, <1>9 DEF ListOK, InMemory
  <2>7. FilesOK(m)'
    <3>1. Mirrored' => \A n \in processed'[m] : Up(n)' # None =>
             \A i \in Assigned(m, n, published'[n]) : Kept(disk'[m], store'[m], n, i)
      BY <1>2, <1>5, <1>6, <2>1, FilesStay
    <3> QED BY <2>2, <3>1 DEF FilesOK
  <2>8. Good(m)'
    BY <1>7, <2>5, <2>6, <2>7 DEF Good
  <2> QED BY <1>2, <2>3, <2>4, <2>8, RelayStep
<1>10. CASE ~setup.mirror
  <2>1. Skip(m) /\ Ready(m, v)
    BY <1>10 DEF Downloaded, v
  <2>2. /\ processed' \in [Middles -> SUBSET Names] /\ processed'[m] = processed[m] \cup {v}
        /\ \A q \in Middles : q # m => processed'[q] = processed[q]
    BY <1>1, <1>3, <2>1 DEF Ready, TypeOK
  <2>3. ~Mirrored'
    BY <1>2, <1>10 DEF Mirrored
  <2> QED BY <1>2, <1>6, <1>7, <1>8, <2>1, <2>2, <2>3, SkipOK DEF v
<1> QED BY <1>9, <1>10

-----------------------------------------------------------------------------
(* The streaming step *)

(* begin_version enters the version with the cut it was published with. *)
LEMMA BeginOK ==
    ASSUME RelayInv, NEW m \in Middles, Streamable(m), UNCHANGED <<setup, published>>,
           store' = [store EXCEPT ![m] = Begin(m)]
    PROVE  /\ store' \in [Middles -> RelayStores]
           /\ \A q \in Middles : q # m => store'[q] = store[q]
           /\ StoreOK(m)' /\ Leaves(store[m], store'[m], Current(m))
<1> DEFINE v == Current(m)
           c == snap[m][v]
           s == BeginVersion(store[m], v, Manifest(c), SumsOf(Manifest(c), c))
<1>1. TypeOK /\ Good(m)
  BY DEF RelayInv
<1>2. setup.streaming /\ todo[m] # {} /\ store' = [store EXCEPT ![m] = s]
  BY DEF Streamable, Unknown, Begin
<1>3. v \in Names /\ c = published[v] /\ c \in Contents /\ c # None
  BY <1>2, CurrentFacts, NoneAssumption
<1>4. Consistent(store[m])
  BY <1>1 DEF Good, StoreOK
<1> HIDE DEF v, c
<1>5. /\ Leaves(store[m], s, v) /\ v \in Held(s)
      /\ v \in Held(store[m]) => s.ver[v].meta = store[m].ver[v].meta
      /\ v \notin Held(store[m]) => s.ver[v].meta = Manifest(c)
  BY <1>3, <1>4, BeginLeaves
<1> HIDE DEF s
<1>6. /\ store' \in [Middles -> RelayStores] /\ store'[m] = s
      /\ \A q \in Middles : q # m => store'[q] = store[q]
  BY <1>1, <1>2, <1>5, OneStore DEF Leaves
<1>7. Copy(s.ver[v], published[v])
  <2>1. CASE v \in Held(store[m])
    BY <1>1, <1>5, <2>1 DEF Good, StoreOK, Copy
  <2>2. CASE v \notin Held(store[m])
    BY <1>3, <1>5, <2>2 DEF Copy, AllShards
  <2> QED BY <2>1, <2>2
<1>8. StoreOK(m)'
  BY <1>1, <1>2, <1>3, <1>5, <1>6, <1>7, StoreLeaves
<1> QED BY <1>5, <1>6, <1>8 DEF v

LEMMA StreamBeginOK ==
    ASSUME RelayInv, NEW m \in Middles, StreamBegin(m)
    PROVE  RelayInv'
<1> DEFINE v == Current(m)
<1>1. TypeOK /\ Good(m)
  BY DEF RelayInv
<1>2. /\ Streamable(m) /\ UNCHANGED <<setup, published, dist, processed>>
      /\ pc[m] = "process" /\ todo[m] # {} /\ v \notin processed[m] /\ setup.streaming
  BY DEF StreamBegin, Streamable, Unknown
<1>3. ~InMemory /\ need[m] = {} /\ ~failed[m] /\ v \in Names
  BY <1>1, <1>2, CurrentFacts DEF InMemory, TypeOK
<1>4. CASE BeginError(m) # "ok"
  <2>1. Abort(m) /\ UNCHANGED <<store, disk>>
    BY <1>4 DEF StreamBegin
  <2> QED BY <1>2, <1>3, <2>1, UntouchedOK
<1>5. CASE BeginError(m) = "ok"
  <2>1. /\ store' = [store EXCEPT ![m] = Begin(m)]
        /\ disk' = [disk EXCEPT ![m][v].made = TRUE]
        /\ pc' = [pc EXCEPT ![m] = "list"]
        /\ UNCHANGED <<snap, todo, need, failed>>
    BY <1>5 DEF StreamBegin
  <2>2. /\ store' \in [Middles -> RelayStores]
        /\ \A q \in Middles : q # m => store'[q] = store[q]
        /\ StoreOK(m)' /\ Leaves(store[m], store'[m], v)
    BY <1>2, <2>1, BeginOK
  <2>3. /\ disk' \in [Middles -> [Names -> Dirs]]
        /\ \A q \in Middles : q # m => disk'[q] = disk[q]
        /\ \A n \in Names : disk[m][n].files \subseteq disk'[m][n].files
    <3> HIDE DEF v
    <3> QED BY <1>1, <1>3, <2>1, MadeDir
  <2>4. /\ dist' \in [Middles -> [Names -> Contents \cup {None}]]
        /\ need' \in [Middles -> SUBSET Indexes]
    BY <1>1, <1>2, <2>1 DEF TypeOK
  <2> QED BY <1>2, <1>3, <2>1, <2>2, <2>3, <2>4, EnterOK
<1> QED BY <1>4, <1>5

LEMMA StreamListOK ==
    ASSUME RelayInv, NEW m \in Middles, StreamList(m)
    PROVE  RelayInv'
<1> DEFINE v == Current(m)
           c == snap[m][v]
<1>1. TypeOK /\ Good(m)
  BY DEF RelayInv
<1>2. /\ pc[m] = "list"
      /\ dist' = [dist EXCEPT ![m][v] = c]
      /\ need' = [need EXCEPT ![m] = Assigned(m, v, c)]
      /\ pc' = [pc EXCEPT ![m] = "stream"]
      /\ UNCHANGED <<setup, published, store, disk, processed, snap, todo, failed>>
  BY DEF StreamList
<1>3. /\ setup.streaming /\ todo[m] # {} /\ v \notin processed[m] /\ ~failed[m]
      /\ ~InMemory
  BY <1>1, <1>2 DEF Good, CycleOK, TypeOK, InMemory
<1>4. v \in Names /\ c \in Contents
  BY <1>3, CurrentFacts
<1>5. StoreOK(m)' /\ Leaves(store[m], store'[m], v)
  BY <1>1, <1>2, StoreStays
<1>6. Assigned(m, v, c) \in SUBSET Indexes
  BY <1>4, ManifestFacts DEF Assigned
<1>7. /\ dist' \in [Middles -> [Names -> Contents \cup {None}]]
      /\ \A q \in Middles : q # m => dist'[q] = dist[q]
      /\ store' \in [Middles -> RelayStores] /\ disk' \in [Middles -> [Names -> Dirs]]
  BY <1>1, <1>2, <1>4 DEF TypeOK
<1>8. /\ need' \in [Middles -> SUBSET Indexes] /\ need'[m] = Assigned(m, v, c)
      /\ \A q \in Middles : q # m => need'[q] = need[q]
  <2> HIDE DEF v, c
  <2> QED BY <1>1, <1>2, <1>6 DEF TypeOK
<1> QED BY <1>2, <1>3, <1>5, <1>7, <1>8, EnterOK

LEMMA StreamRaisesOK ==
    ASSUME RelayInv, NEW m \in Middles, StreamRaises(m)
    PROVE  RelayInv'
<1>1. TypeOK /\ Good(m)
  BY DEF RelayInv
<1>2. /\ Abort(m) /\ UNCHANGED <<setup, published, processed>> /\ ~InMemory
  BY DEF StreamRaises, InMemory
<1>3. /\ dist' \in [Middles -> [Names -> Contents \cup {None}]]
      /\ \A q \in Middles : q # m => dist'[q] = dist[q]
  BY <1>1, ListTornOK DEF StreamRaises, TypeOK
<1>4. PICK name :
         /\ store' \in [Middles -> RelayStores]
         /\ \A q \in Middles : q # m => store'[q] = store[q]
         /\ StoreOK(m)' /\ Leaves(store[m], store'[m], name) /\ name \notin processed[m]
  <2>1. CASE Streamable(m) /\ store' = [store EXCEPT ![m] = Begin(m)]
    <3>1. Current(m) \notin processed[m]
      BY <2>1 DEF Streamable, Unknown
    <3> QED BY <1>2, <2>1, <3>1, BeginOK
  <2>2. CASE UNCHANGED store
    <3>1. StoreOK(m)' /\ Leaves(store[m], store'[m], 0)
      BY <1>1, <1>2, <2>2, StoreStays
    <3>2. 0 \notin processed[m] /\ store' \in [Middles -> RelayStores]
      BY <1>1, <2>2, NamesAreNumbers DEF TypeOK
    <3> QED BY <2>2, <3>1, <3>2
  <2> QED BY <2>1, <2>2 DEF StreamRaises
<1>5. /\ disk' \in [Middles -> [Names -> Dirs]]
      /\ \A q \in Middles : q # m => disk'[q] = disk[q]
      /\ \A n \in Names : disk[m][n].files \subseteq disk'[m][n].files
  <2> DEFINE v == Current(m)
  <2>1. CASE disk' = disk
    BY <1>1, <2>1 DEF TypeOK
  <2>2. CASE todo[m] # {} /\ disk' = [disk EXCEPT ![m][v].made = TRUE]
    <3>1. v \in Names
      BY <1>1, <2>2, CurrentFacts
    <3> HIDE DEF v
    <3> QED BY <1>1, <2>2, <3>1, MadeDir
  <2> QED BY <2>1, <2>2 DEF StreamRaises, Streamable, Unknown
<1>6. Mirrored' => \A v \in processed'[m] : Up(v)' # None =>
         \A i \in Assigned(m, v, published'[v]) : Kept(disk'[m], store'[m], v, i)
  BY <1>1, <1>2, <1>4, <1>5, FilesStay DEF TypeOK
<1>7. processed' \in [Middles -> SUBSET Names]
  BY <1>1, <1>2 DEF TypeOK
<1> QED BY <1>2, <1>3, <1>4, <1>5, <1>6, <1>7, CycleEndsOK

(* A worker's step: the store may have lost other versions, the current    *)
(* one is what it was or has another shard.                                *)
LEMMA WorkerOK ==
    ASSUME RelayInv, NEW m \in Middles, pc[m] = "stream",
           UNCHANGED <<setup, published, dist, processed, pc, snap, todo>>,
           store' \in [Middles -> RelayStores], disk' \in [Middles -> [Names -> Dirs]],
           need' \in [Middles -> SUBSET Indexes], failed' \in [Middles -> BOOLEAN],
           \A q \in Middles : q # m =>
              /\ store'[q] = store[q] /\ disk'[q] = disk[q]
              /\ need'[q] = need[q] /\ failed'[q] = failed[q],
           Leaves(store[m], store'[m], Current(m)),
           Current(m) \in Held(store'[m]) =>
              /\ Current(m) \in Held(store[m])
              /\ store'[m].ver[Current(m)].meta = store[m].ver[Current(m)].meta,
           \A v \in Names : v # Current(m) => disk[m][v].files \subseteq disk'[m][v].files,
           Mirrored /\ ~failed'[m] =>
              \A i \in Assigned(m, Current(m), snap[m][Current(m)]) \ need'[m] :
                  Kept(disk'[m], store'[m], Current(m), i)
    PROVE  RelayInv'
<1>1. TypeOK /\ Good(m)
  BY DEF RelayInv
<1>2. setup.streaming /\ todo[m] # {} /\ Current(m) \notin processed[m]
  BY <1>1 DEF Good, CycleOK
<1>3. Current(m)' = Current(m) /\ Current(m) \in Names
  BY <1>2, CurrentFacts DEF Current
<1>4. TypeOK'
  <2>1. \A q \in Middles : need'[q] # {} \/ failed'[q] => pc'[q] \in {"files", "stream"}
    BY <1>1 DEF TypeOK
  <2> QED BY <1>1, <2>1 DEF TypeOK
<1>5. \A q \in Middles : q # m => Same(q)
  BY DEF Same
<1>6. StoreOK(m)'
  <2>1. Current(m) \in Held(store'[m]) =>
           /\ published[Current(m)] # None
           /\ Copy(store'[m].ver[Current(m)], published[Current(m)])
    BY <1>1 DEF Good, StoreOK, Copy
  <2> QED BY <1>1, <1>2, <2>1, StoreLeaves
<1>7. CycleOK(m)'
  <2>1. /\ processed'[m] \subseteq Listed(published)'
        /\ \A n \in processed'[m] : Up(n)' # None => snap'[m][n] # None
    BY <1>1, OriginStays DEF Good, CycleOK
  <2> QED BY <1>1, <1>3, <2>1 DEF Good, CycleOK
<1>8. ListOK(m)'
  BY <1>2 DEF ListOK, InMemory
<1>9. FilesOK(m)'
  <2>1. processed'[m] \subseteq Names
    BY <1>1 DEF TypeOK
  <2>2. Mirrored' => \A n \in processed'[m] : Up(n)' # None =>
           \A i \in Assigned(m, n, published'[n]) : Kept(disk'[m], store'[m], n, i)
    BY <1>2, <2>1, FilesStay
  <2>3. Mirrored' <=> Mirrored
    BY DEF Mirrored
  <2> QED BY <1>3, <2>2, <2>3 DEF FilesOK
<1>10. Good(m)'
  BY <1>6, <1>7, <1>8, <1>9 DEF Good
<1> QED BY <1>4, <1>5, <1>10, RelayStep

(* What the workers' steps know: put_shard keeps the current version and   *)
(* the shards it has.                                                      *)
LEMMA PutFacts ==
    ASSUME RelayInv, NEW m \in Middles, pc[m] = "stream", NEW i \in need[m],
           NEW c \in Contents, store' = [store EXCEPT ![m] = PutShard(@, Current(m), i, c)]
    PROVE  /\ store' \in [Middles -> RelayStores]
           /\ \A q \in Middles : q # m => store'[q] = store[q]
           /\ Leaves(store[m], store'[m], Current(m))
           /\ Current(m) \in Held(store'[m]) =>
                 /\ Current(m) \in Held(store[m])
                 /\ store'[m].ver[Current(m)].meta = store[m].ver[Current(m)].meta
           /\ PutShardError(store[m], Current(m), i, c) = "ok" =>
                 HasShard(store'[m], Current(m), i)
           /\ \A j : HasShard(store[m], Current(m), j) => HasShard(store'[m], Current(m), j)
<1> DEFINE v == Current(m)
           s == store[m]
           t == PutShard(s, v, i, c)
<1>1. TypeOK /\ Good(m)
  BY DEF RelayInv
<1>2. v \in Names
  BY <1>1, CurrentFacts DEF Good, CycleOK
<1>3. Consistent(s)
  BY <1>1 DEF Good, StoreOK
<1>4. i \in Int
  <2>1. i \in Indexes
    BY <1>1 DEF TypeOK
  <2> QED BY <2>1, ManifestFacts DEF Indexes
<1> HIDE DEF v, s
<1>5. /\ Leaves(s, t, v)
      /\ v \in Held(t) <=> v \in Held(s)
      /\ v \in Held(s) =>
            /\ t.ver[v].meta = s.ver[v].meta
            /\ t.ver[v].data = s.ver[v].data
            /\ s.ver[v].shards \subseteq t.ver[v].shards
      /\ PutShardError(s, v, i, c) = "ok" => HasShard(t, v, i)
  BY <1>2, <1>3, <1>4, ShardLeaves
<1>6. store' = [store EXCEPT ![m] = t]
  BY <1>1 DEF v, s, TypeOK
<1> HIDE DEF t
<1>7. /\ store' \in [Middles -> RelayStores] /\ store'[m] = t
      /\ \A q \in Middles : q # m => store'[q] = store[q]
  <2>1. Consistent(t) /\ m \in Middles
    BY <1>5 DEF Leaves
  <2> QED BY ONLY <1>1, <1>6, <2>1, OneStore
<1>8. \A j : HasShard(s, v, j) => HasShard(t, v, j)
  <2> SUFFICES ASSUME NEW j, HasShard(s, v, j) PROVE HasShard(t, v, j)
    OBVIOUS
  <2>1. v \in Held(s) /\ v \in Held(t)
    BY <1>2, <1>5 DEF HasShard, AvailableShards, Held
  <2> QED BY <1>5, <2>1 DEF HasShard, AvailableShards, Held
<1> QED BY <1>5, <1>7, <1>8 DEF v, s

(* Shards that were kept are kept when the version has its shards. *)
LEMMA PutKeeps ==
    ASSUME NEW d, NEW s, NEW v, NEW i, Kept(d, s, v, i), NEW e, NEW t,
           v \in Held(t) => v \in Held(s),
           \A j : HasShard(s, v, j) => HasShard(t, v, j),
           d[v].files \subseteq e[v].files
    PROVE  Kept(e, t, v, i)
BY DEF Kept

LEMMA FetchShardOK ==
    ASSUME RelayInv, NEW m \in Middles, NEW i \in need[m], FetchShard(m, i)
    PROVE  RelayInv'
<1> DEFINE v == Current(m)
           c == snap[m][v]
<1>1. TypeOK /\ Good(m)
  BY DEF RelayInv
<1>2. /\ pc[m] = "stream" /\ PutShardError(store[m], v, i, c) = "ok"
      /\ UNCHANGED <<setup, published, dist, processed, pc, snap, todo, failed>>
      /\ store' = [store EXCEPT ![m] = PutShard(@, v, i, c)]
      /\ need' = [need EXCEPT ![m] = @ \ {i}]
      /\ disk' = IF setup.mirror THEN [disk EXCEPT ![m][v].files = @ \cup {i}] ELSE disk
  BY DEF FetchShard, Deliverable
<1>3. v \in Names /\ c \in Contents
  BY <1>1, <1>2, CurrentFacts DEF Good, CycleOK
<1> HIDE DEF v, c
<1>4. /\ store' \in [Middles -> RelayStores]
      /\ \A q \in Middles : q # m => store'[q] = store[q]
      /\ Leaves(store[m], store'[m], v)
      /\ v \in Held(store'[m]) =>
            /\ v \in Held(store[m]) /\ store'[m].ver[v].meta = store[m].ver[v].meta
      /\ HasShard(store'[m], v, i)
      /\ \A j : HasShard(store[m], v, j) => HasShard(store'[m], v, j)
  BY <1>2, <1>3, PutFacts DEF v
<1>5. /\ disk' \in [Middles -> [Names -> Dirs]]
      /\ \A q \in Middles : q # m => disk'[q] = disk[q]
      /\ \A n \in Names : disk[m][n].files \subseteq disk'[m][n].files
      /\ setup.mirror => i \in disk'[m][v].files
  <2>1. CASE setup.mirror
    <3> DEFINE d == [disk[m][v] EXCEPT !.files = @ \cup {i}]
    <3>1. disk[m][v] \in Dirs /\ i \in Indexes
      BY <1>1, <1>3 DEF TypeOK
    <3>2. d \in Dirs /\ d.files = disk[m][v].files \cup {i}
      BY <3>1 DEF Dirs
    <3>3. disk' = [disk EXCEPT ![m][v] = d] /\ m \in Middles
      BY <1>1, <1>2, <1>3, <2>1 DEF TypeOK
    <3> HIDE DEF d
    <3>4. /\ disk' \in [Middles -> [Names -> Dirs]] /\ disk'[m][v] = d
          /\ \A q \in Middles : q # m => disk'[q] = disk[q]
          /\ \A n \in Names : n # v => disk'[m][n] = disk[m][n]
      BY ONLY <1>1, <1>3, <3>2, <3>3, OneDir
    <3> QED BY <3>2, <3>4
  <2>2. CASE ~setup.mirror
    BY <1>1, <1>2, <2>2 DEF TypeOK
  <2> QED BY <2>1, <2>2
<1>6. /\ need' \in [Middles -> SUBSET Indexes] /\ need'[m] = need[m] \ {i}
      /\ \A q \in Middles : q # m => need'[q] = need[q]
  BY <1>1, <1>2 DEF TypeOK
<1>7. ASSUME Mirrored, ~failed'[m], NEW j \in Assigned(m, v, c) \ need'[m]
      PROVE  Kept(disk'[m], store'[m], v, j)
  <2>1. CASE j = i
    BY <1>4, <1>5, <1>7, <2>1 DEF Kept, Mirrored
  <2>2. CASE j # i
    <3>1. Kept(disk[m], store[m], v, j)
      BY <1>1, <1>2, <1>6, <1>7, <2>2 DEF Good, FilesOK, v, c
    <3> QED BY <1>3, <1>4, <1>5, <3>1, PutKeeps
  <2> QED BY <2>1, <2>2
<1>8. failed' \in [Middles -> BOOLEAN]
  BY <1>1, <1>2 DEF TypeOK
<1> QED BY <1>2, <1>4, <1>5, <1>6, <1>7, <1>8, WorkerOK DEF v, c

LEMMA FetchRefusedOK ==
    ASSUME RelayInv, NEW m \in Middles, NEW i \in need[m], NEW bytes \in Contents,
           FetchRefused(m, i, bytes)
    PROVE  RelayInv'
<1> DEFINE v == Current(m)
<1>1. TypeOK /\ Good(m)
  BY DEF RelayInv
<1>2. /\ pc[m] = "stream"
      /\ UNCHANGED <<setup, published, disk, dist, processed, pc, snap, todo, need, failed>>
      /\ store' = [store EXCEPT ![m] = PutShard(@, v, i, bytes)]
  BY DEF FetchRefused
<1>3. v \in Names
  BY <1>1, <1>2, CurrentFacts DEF Good, CycleOK
<1> HIDE DEF v
<1>4. /\ store' \in [Middles -> RelayStores]
      /\ \A q \in Middles : q # m => store'[q] = store[q]
      /\ Leaves(store[m], store'[m], v)
      /\ v \in Held(store'[m]) =>
            /\ v \in Held(store[m]) /\ store'[m].ver[v].meta = store[m].ver[v].meta
      /\ \A j : HasShard(store[m], v, j) => HasShard(store'[m], v, j)
  BY <1>2, <1>3, PutFacts DEF v
<1>5. ASSUME Mirrored, ~failed'[m], NEW j \in Assigned(m, v, snap[m][v]) \ need'[m]
      PROVE  Kept(disk'[m], store'[m], v, j)
  <2>1. Kept(disk[m], store[m], v, j)
    BY <1>1, <1>2, <1>5 DEF Good, FilesOK, v
  <2> QED BY <1>2, <1>4, <2>1, PutKeeps
<1>6. /\ disk' \in [Middles -> [Names -> Dirs]] /\ need' \in [Middles -> SUBSET Indexes]
      /\ failed' \in [Middles -> BOOLEAN]
  BY <1>1, <1>2 DEF TypeOK
<1> QED BY <1>2, <1>4, <1>5, <1>6, WorkerOK DEF v

LEMMA GiveUpOK ==
    ASSUME RelayInv, NEW m \in Middles, NEW i \in need[m], GiveUp(m, i)
    PROVE  RelayInv'
<1>1. TypeOK /\ Good(m)
  BY DEF RelayInv
<1>2. /\ pc[m] = "stream"
      /\ UNCHANGED <<setup, published, store, disk, dist, processed, pc, snap, todo>>
  BY DEF GiveUp
<1>3. /\ need' \in [Middles -> SUBSET Indexes] /\ failed' \in [Middles -> BOOLEAN]
      /\ failed'[m] /\ \A q \in Middles : q # m => need'[q] = need[q] /\ failed'[q] = failed[q]
  BY <1>1 DEF GiveUp, TypeOK
<1>4. Leaves(store[m], store'[m], Current(m))
  BY <1>1, <1>2, StoreStays
<1>5. store' \in [Middles -> RelayStores] /\ disk' \in [Middles -> [Names -> Dirs]]
  BY <1>1, <1>2 DEF TypeOK
<1> QED BY <1>2, <1>3, <1>4, <1>5, WorkerOK

LEMMA FetchRaisesOK ==
    ASSUME RelayInv, NEW m \in Middles, NEW i \in need[m], FetchRaises(m, i)
    PROVE  RelayInv'
<1> DEFINE v == Current(m)
           c == snap[m][v]
<1>1. TypeOK /\ Good(m)
  BY DEF RelayInv
<1>2. /\ pc[m] = "stream"
      /\ UNCHANGED <<setup, published, dist, processed, pc, snap, todo>>
      /\ store' = [store EXCEPT ![m] = PutShard(@, v, i, c)]
      /\ \/ UNCHANGED disk
         \/ disk' = [disk EXCEPT ![m][v].files = @ \ {i}]
  BY DEF FetchRaises, Deliverable
<1>3. v \in Names /\ c \in Contents
  BY <1>1, <1>2, CurrentFacts DEF Good, CycleOK
<1> HIDE DEF v, c
<1>4. /\ store' \in [Middles -> RelayStores]
      /\ \A q \in Middles : q # m => store'[q] = store[q]
      /\ Leaves(store[m], store'[m], v)
      /\ v \in Held(store'[m]) =>
            /\ v \in Held(store[m]) /\ store'[m].ver[v].meta = store[m].ver[v].meta
  BY <1>2, <1>3, PutFacts DEF v
<1>5. /\ need' \in [Middles -> SUBSET Indexes] /\ failed' \in [Middles -> BOOLEAN]
      /\ failed'[m] /\ \A q \in Middles : q # m => need'[q] = need[q] /\ failed'[q] = failed[q]
  BY <1>1 DEF FetchRaises, TypeOK
<1>6. /\ disk' \in [Middles -> [Names -> Dirs]]
      /\ \A q \in Middles : q # m => disk'[q] = disk[q]
      /\ \A n \in Names : n # v => disk'[m][n] = disk[m][n]
  BY <1>1, <1>2, <1>3, OneDirLess
<1> QED BY <1>2, <1>4, <1>5, <1>6, WorkerOK DEF v

LEMMA StreamEndOK ==
    ASSUME RelayInv, NEW m \in Middles, StreamEnd(m)
    PROVE  RelayInv'
<1> DEFINE v == Current(m)
<1>1. TypeOK /\ Good(m)
  BY DEF RelayInv
<1>2. /\ pc[m] = "stream" /\ need[m] = {}
      /\ UNCHANGED <<setup, published, store, disk, dist>>
  BY DEF StreamEnd
<1>3. setup.streaming /\ todo[m] # {} /\ v \notin processed[m]
  BY <1>1, <1>2 DEF Good, CycleOK
<1>4. CASE failed[m]
  <2>1. Abort(m) /\ UNCHANGED processed
    BY <1>4 DEF StreamEnd
  <2> QED BY <1>2, <1>3, <2>1, UntouchedOK DEF InMemory
<1>5. CASE ~failed[m]
  <2>1. Skip(m) /\ Ready(m, v) /\ UNCHANGED <<snap, need, failed>>
    BY <1>5 DEF StreamEnd
  <2>2. v \in Names /\ snap[m][v] = published[v]
    BY <1>3, CurrentFacts
  <2> HIDE DEF v
  <2>3. /\ processed' \in [Middles -> SUBSET Names] /\ processed'[m] = processed[m] \cup {v}
        /\ \A q \in Middles : q # m => processed'[q] = processed[q]
    BY <1>1, <2>1, <2>2 DEF Ready, TypeOK
  <2>4. StoreOK(m)' /\ Leaves(store[m], store'[m], v)
    BY <1>1, <1>2, StoreStays
  <2>5. Mirrored => \A i \in Assigned(m, v, published[v]) : Kept(disk'[m], store'[m], v, i)
    BY <1>1, <1>2, <1>5, <2>2 DEF Good, FilesOK, v
  <2>6. Mirrored' => \A n \in processed'[m] : Up(n)' # None =>
           \A i \in Assigned(m, n, published'[n]) : Kept(disk'[m], store'[m], n, i)
    BY <1>2, <1>3, <2>2, <2>3, <2>4, <2>5, FilesAdded
  <2>7. /\ store' \in [Middles -> RelayStores] /\ disk' \in [Middles -> [Names -> Dirs]]
        /\ ~InMemory /\ failed' \in [Middles -> BOOLEAN]
    BY <1>1, <1>2, <1>3, <2>1 DEF TypeOK, InMemory
  <2> QED BY <1>2, <1>3, <1>5, <2>1, <2>3, <2>4, <2>6, <2>7, SkipOK DEF v
<1> QED BY <1>4, <1>5

-----------------------------------------------------------------------------
(* The list is rewritten and what is retired is removed *)

LEMMA LateOK ==
    ASSUME RelayInv, NEW m \in Middles, pc[m] \in {"process", "cleanup", "forget"},
           pc' \in [Middles -> Places], pc'[m] \in {"cleanup", "forget"},
           UNCHANGED <<setup, published, processed, snap, todo, need, failed>>,
           store' \in [Middles -> RelayStores], disk' \in [Middles -> [Names -> Dirs]],
           dist' \in [Middles -> [Names -> Contents \cup {None}]],
           \A q \in Middles : q # m =>
              store'[q] = store[q] /\ disk'[q] = disk[q] /\ dist'[q] = dist[q] /\ pc'[q] = pc[q],
           StoreOK(m)', ListOK(m)',
           Leaves(store[m], store'[m], 0),
           \A v \in Names : snap[m][v] # None => disk'[m][v] = disk[m][v]
    PROVE  RelayInv'
<1>1. TypeOK /\ Good(m)
  BY DEF RelayInv
<1>2. need[m] = {} /\ ~failed[m] /\ processed[m] \subseteq Names /\ 0 \notin processed[m]
  BY <1>1, NamesAreNumbers DEF TypeOK
<1>3. TypeOK'
  <2>1. \A q \in Middles : need'[q] # {} \/ failed'[q] => pc'[q] \in {"files", "stream"}
    BY <1>1, <1>2 DEF TypeOK
  <2> QED BY <1>1, <2>1 DEF TypeOK
<1>4. \A q \in Middles : q # m => Same(q)
  BY DEF Same
<1>5. \A v \in processed[m] : Up(v) # None => snap[m][v] # None
  BY <1>1 DEF Good, CycleOK
<1>6. CycleOK(m)'
  <2>1. /\ processed'[m] \subseteq Listed(published)'
        /\ \A v \in processed'[m] : Up(v)' # None => snap'[m][v] # None
    BY <1>1, <1>5, OriginStays DEF Good, CycleOK
  <2> QED BY <1>1, <2>1 DEF Good, CycleOK
<1>7. FilesOK(m)'
  <2>1. \A v \in processed'[m] : Up(v) # None => disk[m][v].files \subseteq disk'[m][v].files
    BY <1>2, <1>5
  <2>2. Mirrored' => \A v \in processed'[m] : Up(v)' # None =>
           \A i \in Assigned(m, v, published'[v]) : Kept(disk'[m], store'[m], v, i)
    BY <1>2, <2>1, FilesStay
  <2> QED BY <2>2 DEF FilesOK
<1>8. Good(m)'
  BY <1>6, <1>7 DEF Good
<1> QED BY <1>3, <1>4, <1>8, RelayStep

LEMMA RewriteOK ==
    ASSUME RelayInv, NEW m \in Middles, Rewrite(m)
    PROVE  RelayInv'
<1>1. TypeOK /\ Good(m)
  BY DEF RelayInv
<1>2. /\ pc[m] = "process"
      /\ UNCHANGED <<setup, published, store, disk, processed, snap, todo, need, failed>>
  BY DEF Rewrite
<1>3. /\ pc' \in [Middles -> Places] /\ pc'[m] = "cleanup"
      /\ \A q \in Middles : q # m => pc'[q] = pc[q]
  BY <1>1 DEF Rewrite, TypeOK, Places
<1>4. /\ dist' \in [Middles -> [Names -> Contents \cup {None}]]
      /\ \A q \in Middles : q # m => dist'[q] = dist[q]
      /\ \A v \in Names : dist'[m][v] # None =>
            snap[m][v] # None /\ (v \in Held(store[m]) \/ disk[m][v].made)
  <2> DEFINE l == [v \in Names |-> IF v \in Held(store[m]) \/ disk[m][v].made
                                   THEN snap[m][v] ELSE None]
  <2>1. l \in [Names -> Contents \cup {None}]
    BY <1>1 DEF TypeOK
  <2>2. dist' = [dist EXCEPT ![m] = l]
    BY DEF Rewrite
  <2>3. \A v \in Names : l[v] # None =>
           snap[m][v] # None /\ (v \in Held(store[m]) \/ disk[m][v].made)
    OBVIOUS
  <2> HIDE DEF l
  <2> QED BY <1>1, <2>1, <2>2, <2>3 DEF TypeOK
<1>5. ListOK(m)'
  BY <1>1, <1>2, <1>4 DEF Good, ListOK, InMemory
<1>6. StoreOK(m)' /\ Leaves(store[m], store'[m], 0)
  BY <1>1, <1>2, StoreStays
<1>7. store' \in [Middles -> RelayStores] /\ disk' \in [Middles -> [Names -> Dirs]]
  BY <1>1, <1>2 DEF TypeOK
<1> QED BY <1>2, <1>3, <1>4, <1>5, <1>6, <1>7, LateOK

LEMMA RemoveDirsOK ==
    ASSUME RelayInv, NEW m \in Middles, RemoveDirs(m)
    PROVE  RelayInv'
<1>1. TypeOK /\ Good(m)
  BY DEF RelayInv
<1>2. /\ pc[m] = "cleanup"
      /\ UNCHANGED <<setup, published, store, dist, processed, snap, todo, need, failed>>
  BY DEF RemoveDirs
<1>3. /\ pc' \in [Middles -> Places] /\ pc'[m] = "forget"
      /\ \A q \in Middles : q # m => pc'[q] = pc[q]
  BY <1>1 DEF RemoveDirs, TypeOK, Places
<1>4. /\ disk' \in [Middles -> [Names -> Dirs]]
      /\ \A q \in Middles : q # m => disk'[q] = disk[q]
      /\ \A v \in Names : disk'[m][v] = IF snap[m][v] = None THEN NoDir ELSE disk[m][v]
  <2>1. NoDir \in Dirs
    BY DEF NoDir, Dirs
  <2> QED BY <1>1, <2>1 DEF RemoveDirs, TypeOK
<1>5. ListOK(m)'
  <2>1. ~NoDir.made
    BY DEF NoDir
  <2>2. \A v \in Names : disk'[m][v].made => disk[m][v].made
    BY <1>4, <2>1
  <2> QED BY <1>1, <1>2, <1>3, <2>2 DEF Good, ListOK, InMemory
<1>6. StoreOK(m)' /\ Leaves(store[m], store'[m], 0)
  BY <1>1, <1>2, StoreStays
<1>7. /\ store' \in [Middles -> RelayStores]
      /\ dist' \in [Middles -> [Names -> Contents \cup {None}]]
  BY <1>1, <1>2 DEF TypeOK
<1> QED BY <1>2, <1>3, <1>4, <1>5, <1>6, <1>7, LateOK

LEMMA RemoveVersionOK ==
    ASSUME RelayInv, NEW m \in Middles, NEW v \in Names, RemoveVersion(m, v)
    PROVE  RelayInv'
<1> DEFINE s == Drop(store[m], v)
<1>1. TypeOK /\ Good(m)
  BY DEF RelayInv
<1>2. /\ pc[m] = "forget" /\ snap[m][v] = None /\ store' = [store EXCEPT ![m] = s]
      /\ UNCHANGED <<setup, published, disk, dist, processed, pc, snap, todo, need, failed>>
  BY DEF RemoveVersion, Surplus, Listed
<1>3. Consistent(store[m])
  BY <1>1 DEF Good, StoreOK
<1>4. Leaves(store[m], s, v) /\ Held(s) = Held(store[m]) \ {v}
  BY <1>3, DropLeaves
<1> HIDE DEF s
<1>5. /\ store' \in [Middles -> RelayStores] /\ store'[m] = s
      /\ \A q \in Middles : q # m => store'[q] = store[q]
  BY <1>1, <1>2, <1>4, OneStore DEF Leaves
<1>6. Leaves(store[m], store'[m], 0)
  BY <1>4, <1>5 DEF Leaves
<1>7. StoreOK(m)'
  <2>1. 0 \notin Held(store'[m])
    BY NamesAreNumbers DEF Held
  <2> QED BY <1>1, <1>2, <1>6, <2>1, StoreLeaves
<1>8. ListOK(m)'
  BY <1>1, <1>2, <1>4, <1>5 DEF Good, ListOK, InMemory
<1>9. /\ disk' \in [Middles -> [Names -> Dirs]] /\ pc' \in [Middles -> Places]
      /\ dist' \in [Middles -> [Names -> Contents \cup {None}]]
  BY <1>1, <1>2 DEF TypeOK
<1> QED BY <1>2, <1>5, <1>6, <1>7, <1>8, <1>9, LateOK

-----------------------------------------------------------------------------
(* Theorems *)

LEMMA RelayNext == RelayInv /\ [Next]_vars => RelayInv'
<1> SUFFICES ASSUME RelayInv, [Next]_vars PROVE RelayInv'
  OBVIOUS
<1>1. CASE UNCHANGED vars
  <2>1. UNCHANGED <<setup, published, store, disk, dist, processed, pc, snap, todo,
                    need, failed>>
    BY <1>1 DEF vars, local
  <2>2. TypeOK'
    BY <2>1 DEF RelayInv, TypeOK
  <2>3. Numbered'
    BY <2>1, OriginStays DEF RelayInv, Numbered
  <2>4. ASSUME NEW m \in Middles PROVE Good(m)'
    BY <2>1, SameIsGood DEF RelayInv, Same
  <2> QED BY <2>2, <2>3, <2>4 DEF RelayInv
<1>2. ASSUME NEW c \in Contents, Publish(c) PROVE RelayInv'
  BY <1>2, PublishOK
<1>3. ASSUME NEW m \in Middles, Monitor(m) PROVE RelayInv'
  <2>1. CASE FetchList(m) \/ Known(m) \/ Downloaded(m) \/ NotDownloaded(m)
    BY <2>1, FetchListOK, KnownOK, DownloadedOK, NotDownloadedOK
  <2>2. CASE Mirror(m) \/ FilesEnd(m) \/ StreamBegin(m) \/ StreamList(m) \/ StreamEnd(m)
    BY <2>2, MirrorOK, FilesEndOK, StreamBeginOK, StreamListOK, StreamEndOK
  <2>3. CASE Rewrite(m) \/ RemoveDirs(m) \/ Cleanup(m)
    BY <2>3, RewriteOK, RemoveDirsOK, CleanupOK
  <2>4. ASSUME NEW v \in Names, RemoveVersion(m, v) PROVE RelayInv'
    BY <2>4, RemoveVersionOK
  <2> QED BY <1>3, <2>1, <2>2, <2>3, <2>4 DEF Monitor
<1>4. ASSUME NEW m \in Middles, NEW i \in need[m], Worker(m, i) PROVE RelayInv'
  <2>1. CASE FetchShard(m, i)
    BY <2>1, FetchShardOK
  <2>2. CASE GiveUp(m, i)
    BY <2>2, GiveUpOK
  <2>3. ASSUME NEW c \in Contents, FetchRefused(m, i, c) PROVE RelayInv'
    BY <2>3, FetchRefusedOK
  <2>4. CASE FileArrives(m, i) \/ FileFails(m, i)
    BY <2>4, FileArrivesOK, FileFailsOK
  <2> QED BY <1>4, <2>1, <2>2, <2>3, <2>4 DEF Worker
<1>5. ASSUME NEW m \in Middles, Fault(m) PROVE RelayInv'
  <2>1. CASE MirrorRaises(m) \/ EndRaises(m) \/ Restart(m)
    BY <2>1, MirrorRaisesOK, EndRaisesOK, RestartOK
  <2>2. ASSUME NEW i \in need[m], FetchRaises(m, i) PROVE RelayInv'
    BY <2>2, FetchRaisesOK
  <2>3. CASE FilesRaise(m) \/ FilesRemain(m) \/ StreamRaises(m)
    BY <2>3, FilesRaiseOK, FilesRemainOK, StreamRaisesOK
  <2> QED BY <1>5, <2>1, <2>2, <2>3 DEF Fault
<1>6. CASE Regular
  BY <1>2, <1>3, <1>4, <1>6 DEF Regular
<1> QED BY <1>1, <1>5, <1>6 DEF Next

(* Every reachable state of the relays satisfies RelayInv. *)
THEOREM RelayInvariant == Spec => []RelayInv
BY RelayInit, RelayNext, PTL DEF Spec

(* The relays' state has its type; need and failed are only used while the *)
(* shards of a version are streamed or fetched as files.                   *)
THEOREM RelayTypeCorrect == Spec => []TypeOK
<1>1. RelayInv => TypeOK
  BY DEF RelayInv
<1> QED BY <1>1, RelayInvariant, PTL

(* Relays of whole versions in memory: what distribution.txt names between *)
(* two cycles of _monitor_upstream is in the store with all its shards,    *)
(* whatever the store has evicted meanwhile.                               *)
THEOREM RelayListsAreServed == Spec => []RelayListsWhatItServes
<1>1. RelayInv => RelayListsWhatItServes
  <2> SUFFICES ASSUME RelayInv, InMemory, NEW m \in Middles, NEW v \in Names,
                      pc[m] = "idle", dist[m][v] # None
               PROVE  ServesAll(m, v)
    BY DEF RelayListsWhatItServes, InMemory
  <2>1. Good(m) /\ ~setup.streaming
    BY DEF RelayInv, InMemory
  <2>2. v \in Held(store[m])
    BY <2>1 DEF Good, ListOK
  <2>3. published[v] # None
    BY <2>1, <2>2 DEF Good, StoreOK
  <2>4. \A i \in AllShards(published[v]) : HasShard(store[m], v, i)
    BY <2>1, <2>2, HeldWhole
  <2> QED BY <2>3, <2>4 DEF ServesAll, Serves
<1> QED BY <1>1, RelayInvariant, PTL

(* Relays with a disk mirror: a version in processed_versions, which       *)
(* _process_version will not fetch again, is served as long as the origin  *)
(* offers it, through evictions, file errors and restarts.                 *)
THEOREM ProcessedVersionsAreServed == Spec => []ProcessedIsServed
<1>1. RelayInv => ProcessedIsServed
  <2> SUFFICES ASSUME RelayInv, Mirrored, NEW m \in Middles, NEW v \in processed[m],
                      Up(v) # None, NEW i \in Assigned(m, v, published[v])
               PROVE  Serves(m, v, i)
    BY DEF ProcessedIsServed, Mirrored
  <2>1. v \in Names
    BY DEF RelayInv, TypeOK
  <2>2. Kept(disk[m], store[m], v, i)
    BY DEF RelayInv, Good, FilesOK
  <2> QED BY <2>1, <2>2 DEF Kept, Serves, Held
<1> QED BY <1>1, RelayInvariant, PTL

-----------------------------------------------------------------------------
(* Which relays own a shard.  What the two passes of shard_owners select   *)
(* is proved by induction over the members ranked so far.                  *)

(* Induction over the natural numbers, for a set of them. *)
LEMMA EveryNumber ==
    ASSUME NEW T \in SUBSET Nat, 0 \in T, \A k \in T : k + 1 \in T
    PROVE  T = Nat
<1> DEFINE R == OpToRel(<, Nat)
           F == Nat \ T
<1> SUFFICES ASSUME F # {} PROVE FALSE
  OBVIOUS
<1>1. PICK x \in F : \A y \in F : ~(<<y, x>> \in R)
  BY WFMin, NatLessThanWellFounded
<1>2. x \in Nat /\ x # 0 /\ x - 1 \in Nat /\ x - 1 < x /\ (x - 1) + 1 = x
  OBVIOUS
<1>3. \A y \in F : ~(y < x)
  BY <1>1, <1>2 DEF OpToRel
<1>4. x - 1 \in T
  BY <1>2, <1>3
<1> QED BY <1>2, <1>4

(* f lists what a pass over ranked has selected after each member. *)
Selects(f, first, ranked, label, count) ==
    f = [k \in 0 .. Len(ranked) |->
            IF k = 0 THEN first ELSE Take(f[k - 1], ranked[k], label, count)]

(* The same, member by member, up to the n-th. *)
SelectsUpTo(f, first, ranked, label, count, n) ==
    /\ f = [k \in 0 .. n |-> f[k]]
    /\ f[0] = first
    /\ \A k \in 1 .. n : f[k] = Take(f[k - 1], ranked[k], label, count)

LEMMA SelectsEachMember ==
    ASSUME NEW f, NEW first, NEW ranked, NEW label, NEW count, Len(ranked) \in Nat
    PROVE  Selects(f, first, ranked, label, count)
              <=> SelectsUpTo(f, first, ranked, label, count, Len(ranked))
<1> DEFINE n == Len(ranked)
           t == [k \in 1 .. n |-> Take(f[k - 1], ranked[k], label, count)]
           g == [k \in 0 .. n |-> IF k = 0 THEN first
                                  ELSE Take(f[k - 1], ranked[k], label, count)]
<1>1. /\ DOMAIN g = 0 .. n /\ g[0] = first /\ g = [k \in 0 .. n |-> g[k]]
      /\ \A k \in 1 .. n : g[k] = Take(f[k - 1], ranked[k], label, count)
  OBVIOUS
<1> HIDE DEF g
<1>2. ASSUME f = g PROVE SelectsUpTo(f, first, ranked, label, count, n)
  BY <1>1, <1>2 DEF SelectsUpTo
<1>3. ASSUME SelectsUpTo(f, first, ranked, label, count, n) PROVE f = g
  <2>1. /\ f = [k \in 0 .. n |-> f[k]] /\ f[0] = first
        /\ \A k \in 1 .. n : f[k] = Take(f[k - 1], ranked[k], label, count)
    BY <1>3 DEF SelectsUpTo
  <2>2. \A k \in 0 .. n : k = 0 \/ k \in 1 .. n
    OBVIOUS
  <2>3. \A k \in 0 .. n : f[k] = g[k]
    BY <1>1, <2>1, <2>2
  <2> QED BY <1>1, <2>1, <2>3
<1> QED BY <1>2, <1>3 DEF Selects, g

LEMMA SelectionExists ==
    ASSUME NEW first, NEW ranked, NEW label, NEW count, NEW n \in Nat
    PROVE  \E f : SelectsUpTo(f, first, ranked, label, count, n)
<1> DEFINE Sel(f, m) == SelectsUpTo(f, first, ranked, label, count, m)
           T == {m \in Nat : \E f : Sel(f, m)}
<1>1. 0 \in T
  <2> DEFINE f == [k \in 0 .. 0 |-> first]
  <2>1. f = [k \in 0 .. 0 |-> f[k]] /\ f[0] = first
    OBVIOUS
  <2> HIDE DEF f
  <2>2. Sel(f, 0)
    BY <2>1 DEF SelectsUpTo
  <2> QED BY <2>2
<1>2. ASSUME NEW m \in T PROVE m + 1 \in T
  <2>1. PICK g : Sel(g, m)
    OBVIOUS
  <2> DEFINE e == Take(g[m], ranked[m + 1], label, count)
             f == [k \in 0 .. (m + 1) |-> IF k <= m THEN g[k] ELSE e]
  <2>2. /\ g[0] = first
        /\ \A k \in 1 .. m : g[k] = Take(g[k - 1], ranked[k], label, count)
    BY <2>1 DEF SelectsUpTo
  <2>3. f[0] = first /\ f[m] = g[m]
    BY <2>2
  <2>4. \A k \in 1 .. (m + 1) : f[k] = Take(f[k - 1], ranked[k], label, count)
    <3> TAKE k \in 1 .. (m + 1)
    <3>1. CASE k <= m
      <4>1. f[k] = g[k] /\ f[k - 1] = g[k - 1] /\ k \in 1 .. m
        BY <3>1
      <4> QED BY <2>2, <4>1
    <3>2. CASE k = m + 1
      <4>1. f[k] = e /\ f[k - 1] = g[m]
        BY <3>2
      <4> QED BY <3>2, <4>1
    <3> QED BY <3>1, <3>2
  <2>5. f = [k \in 0 .. (m + 1) |-> f[k]]
    OBVIOUS
  <2> HIDE DEF f
  <2>6. Sel(f, m + 1)
    BY <2>3, <2>4, <2>5 DEF SelectsUpTo
  <2> QED BY <2>6
<1> HIDE DEF Sel
<1>3. T = Nat
  BY <1>1, <1>2, EveryNumber
<1> QED BY <1>3 DEF Sel

(* A pass returns what it has selected after the last member. *)
LEMMA PassIs ==
    ASSUME NEW first, NEW ranked, NEW label, NEW count, Len(ranked) \in Nat
    PROVE  \E f : /\ SelectsUpTo(f, first, ranked, label, count, Len(ranked))
                  /\ Pass(first, ranked, label, count) = f[Len(ranked)]
<1>1. \E f : Selects(f, first, ranked, label, count)
  BY SelectionExists, SelectsEachMember
<1> DEFINE h == CHOOSE f : Selects(f, first, ranked, label, count)
<1>2. Selects(h, first, ranked, label, count)
  BY <1>1
<1>3. Pass(first, ranked, label, count) = h[Len(ranked)]
  BY DEF Pass, Selects
<1> HIDE DEF h
<1> QED BY <1>2, <1>3, SelectsEachMember

(* What a pass has selected after n members: what it began with, then      *)
(* members of other labels, until there are enough or every label is there.*)
Selection(s, first, ranked, label, count, n) ==
    /\ Len(first) <= Len(s) /\ Len(s) <= count
    /\ \A i \in 1 .. Len(first) : s[i] = first[i]
    /\ \A i, j \in 1 .. Len(s) :
          i < j /\ Len(first) < j => label[s[i]] # label[s[j]]
    /\ \/ Len(s) = count
       \/ \A h \in 1 .. n : \E i \in 1 .. Len(s) : label[s[i]] = label[ranked[h]]
    /\ n = 0 => Len(s) = Len(first)
    /\ Len(first) = 0 /\ count # 0 /\ n # 0 => Len(s) # 0 /\ s[1] = ranked[1]

LEMMA TakeOK ==
    ASSUME NEW M, NEW s \in Seq(M), NEW first \in Seq(M), NEW ranked \in Seq(M),
           NEW label, NEW count \in Nat, NEW n \in Nat, n + 1 \in 1 .. Len(ranked),
           Selection(s, first, ranked, label, count, n)
    PROVE  LET e == Take(s, ranked[n + 1], label, count)
           IN e \in Seq(M) /\ Selection(e, first, ranked, label, count, n + 1)
<1> DEFINE m == ranked[n + 1]
           e == Take(s, m, label, count)
<1> HIDE DEF m, e
<1>1. /\ Len(s) \in Nat /\ Len(first) \in Nat /\ DOMAIN s = 1 .. Len(s)
      /\ m \in M /\ m = ranked[n + 1] /\ n + 1 # 0
  BY DEF m
<1>2. \A h \in 1 .. (n + 1) : h \in 1 .. n \/ h = n + 1
  OBVIOUS
<1>3. /\ Len(first) <= Len(s) /\ Len(s) <= count
      /\ \A i \in 1 .. Len(first) : s[i] = first[i]
      /\ \A i, j \in 1 .. Len(s) :
            i < j /\ Len(first) < j => label[s[i]] # label[s[j]]
      /\ \/ Len(s) = count
         \/ \A h \in 1 .. n : \E i \in 1 .. Len(s) : label[s[i]] = label[ranked[h]]
      /\ n = 0 => Len(s) = Len(first)
      /\ Len(first) = 0 /\ count # 0 /\ n # 0 => Len(s) # 0 /\ s[1] = ranked[1]
  BY DEF Selection
<1>4. CASE Len(s) = count
  <2>1. e = s
    BY <1>4 DEF Take, e
  <2>2. Len(first) = 0 /\ count # 0 => Len(s) # 0 /\ s[1] = ranked[1]
    BY <1>1, <1>3, <1>4
  <2>3. Selection(s, first, ranked, label, count, n + 1)
    BY <1>1, <1>3, <1>4, <2>2 DEF Selection
  <2> QED BY <2>1, <2>3 DEF e, m
<1>5. CASE Len(s) # count /\ \E k \in DOMAIN s : label[s[k]] = label[m]
  <2>1. e = s
    BY <1>5 DEF Take, e
  <2>2. \A h \in 1 .. (n + 1) : \E i \in 1 .. Len(s) : label[s[i]] = label[ranked[h]]
    BY <1>1, <1>2, <1>3, <1>5
  <2>3. Len(s) # 0
    <3>1. PICK k \in DOMAIN s : label[s[k]] = label[m]
      BY <1>5
    <3>2. k \in 1 .. Len(s)
      BY <1>1, <3>1
    <3> QED BY <1>1, <3>2
  <2>4. Len(first) = 0 => n # 0
    BY <1>1, <1>3, <2>3
  <2>5. Len(first) = 0 /\ count # 0 => Len(s) # 0 /\ s[1] = ranked[1]
    BY <1>3, <2>3, <2>4
  <2>6. Selection(s, first, ranked, label, count, n + 1)
    BY <1>1, <1>3, <2>2, <2>5 DEF Selection
  <2> QED BY <2>1, <2>6 DEF e, m
<1>6. CASE Len(s) # count /\ ~\E k \in DOMAIN s : label[s[k]] = label[m]
  <2>1. e = Append(s, m)
    BY <1>6 DEF Take, e
  <2>2. /\ e \in Seq(M) /\ Len(e) = Len(s) + 1 /\ e[Len(s) + 1] = m
        /\ \A i \in 1 .. Len(s) : e[i] = s[i]
    BY <1>1, <2>1
  <2>3. /\ Len(first) <= Len(e) /\ Len(e) <= count
        /\ \A i \in 1 .. Len(first) : e[i] = first[i]
    <3>1. \A i \in 1 .. Len(first) : i \in 1 .. Len(s)
      <4>1. \A a, b \in Nat : a <= b => \A i \in 1 .. a : i \in 1 .. b
        OBVIOUS
      <4>2. Len(first) \in Nat /\ Len(s) \in Nat /\ Len(first) <= Len(s)
        BY <1>1, <1>3
      <4> QED BY <4>1, <4>2
    <3>2. \A i \in 1 .. Len(first) : e[i] = first[i]
      BY <1>3, <2>2, <3>1
    <3>3. Len(s) < count
      <4>1. Len(s) # count
        BY <1>6
      <4>2. Len(s) <= count
        BY <1>3
      <4>3. \A a, b \in Nat : a # b /\ a <= b => a < b
        OBVIOUS
      <4>4. Len(s) \in Nat
        BY <1>1
      <4> QED BY <4>1, <4>2, <4>3, <4>4
    <3>4. Len(first) <= Len(e) /\ Len(e) <= count
      <4>1. \A a, b, c \in Nat : a <= b /\ b < c => a <= b + 1 /\ b + 1 <= c
        OBVIOUS
      <4>2. Len(first) \in Nat /\ Len(s) \in Nat /\ Len(first) <= Len(s)
        BY <1>1, <1>3
      <4>3. Len(e) = Len(s) + 1
        BY <2>2
      <4> QED BY <3>3, <4>1, <4>2, <4>3
    <3> QED BY <3>2, <3>4
  <2>4. ASSUME NEW i \in 1 .. Len(e), NEW j \in 1 .. Len(e), i < j, Len(first) < j
        PROVE  label[e[i]] # label[e[j]]
    <3>1. i \in 1 .. Len(s) /\ e[i] = s[i]
      BY <1>1, <2>2, <2>4
    <3>2. CASE j \in 1 .. Len(s)
      <4>1. e[j] = s[j] /\ label[s[i]] # label[s[j]]
        BY <1>3, <2>2, <2>4, <3>1, <3>2
      <4> QED BY <3>1, <4>1
    <3>3. CASE j = Len(s) + 1
      <4>1. e[j] = m /\ label[s[i]] # label[m]
        BY <1>1, <1>6, <2>2, <3>1, <3>3
      <4> QED BY <3>1, <4>1
    <3> QED BY <1>1, <2>2, <3>2, <3>3
  <2>5. ASSUME NEW h \in 1 .. (n + 1)
        PROVE  \E i \in 1 .. Len(e) : label[e[i]] = label[ranked[h]]
    <3>1. CASE h = n + 1
      <4>1. Len(e) \in 1 .. Len(e) /\ e[Len(e)] = ranked[h]
        BY <1>1, <2>2, <3>1
      <4> QED BY <4>1
    <3>2. CASE h \in 1 .. n
      <4>1. PICK i \in 1 .. Len(s) : label[s[i]] = label[ranked[h]]
        BY <1>3, <1>6, <3>2
      <4>2. i \in 1 .. Len(e) /\ e[i] = s[i]
        BY <1>1, <2>2, <4>1
      <4> QED BY <4>1, <4>2
    <3> QED BY <1>2, <3>1, <3>2
  <2>6. Len(first) = 0 /\ count # 0 => Len(e) # 0 /\ e[1] = ranked[1]
    <3> SUFFICES ASSUME Len(first) = 0, count # 0
                 PROVE  Len(e) # 0 /\ e[1] = ranked[1]
      OBVIOUS
    <3>1. CASE n = 0
      <4>1. Len(s) = 0
        BY <1>3, <3>1
      <4>2. Len(e) = 1 /\ e[1] = m /\ n + 1 = 1
        BY <2>2, <3>1, <4>1
      <4> QED BY <1>1, <4>2
    <3>2. CASE n # 0
      <4>1. Len(s) # 0 /\ s[1] = ranked[1]
        BY <1>3, <3>2
      <4>2. 1 \in 1 .. Len(s)
        BY <1>1, <4>1
      <4>3. e[1] = s[1]
        BY <2>2, <4>2
      <4> QED BY <1>1, <2>2, <4>1, <4>3
    <3> QED BY <3>1, <3>2
  <2>7. Selection(e, first, ranked, label, count, n + 1)
    BY <1>1, <2>3, <2>4, <2>5, <2>6 DEF Selection
  <2> QED BY <2>2, <2>7 DEF e, m
<1> QED BY <1>4, <1>5, <1>6 DEF e, m

LEMMA PassOK ==
    ASSUME NEW M, NEW first \in Seq(M), NEW ranked \in Seq(M), NEW label,
           NEW count \in Nat, Len(first) <= count
    PROVE  LET s == Pass(first, ranked, label, count)
           IN s \in Seq(M) /\ Selection(s, first, ranked, label, count, Len(ranked))
<1> DEFINE N == Len(ranked)
<1>1. N \in Nat
  OBVIOUS
<1>2. PICK f : /\ SelectsUpTo(f, first, ranked, label, count, N)
               /\ Pass(first, ranked, label, count) = f[N]
  BY <1>1, PassIs
<1> DEFINE OK(k) == f[k] \in Seq(M) /\ Selection(f[k], first, ranked, label, count, k)
           T == {k \in Nat : k <= N => OK(k)}
<1>3. 0 \in T
  <2>1. f[0] = first
    BY <1>2 DEF SelectsUpTo
  <2>2. Selection(first, first, ranked, label, count, 0)
    BY DEF Selection
  <2> QED BY <2>1, <2>2
<1>4. ASSUME NEW k \in T PROVE k + 1 \in T
  <2> SUFFICES ASSUME k + 1 <= N PROVE OK(k + 1)
    OBVIOUS
  <2>1. OK(k) /\ k \in Nat /\ k + 1 \in 1 .. N
    BY <1>1
  <2>2. f[k + 1] = Take(f[k], ranked[k + 1], label, count)
    <3>1. k + 1 \in 1 .. N /\ (k + 1) - 1 = k
      BY <2>1
    <3> QED BY <1>2, <3>1 DEF SelectsUpTo
  <2> QED BY <2>1, <2>2, TakeOK
<1> HIDE DEF OK
<1>5. T = Nat
  BY <1>3, <1>4, EveryNumber
<1>6. OK(N)
  BY <1>1, <1>5
<1> QED BY <1>2, <1>6 DEF OK

LEMMA CountIs ==
    ASSUME NEW factor \in Nat, NEW n \in Nat
    PROVE  /\ Min({factor, n}) \in {factor, n}
           /\ Min({factor, n}) <= factor /\ Min({factor, n}) <= n
<1> DEFINE least == IF factor <= n THEN factor ELSE n
<1>1. least \in {factor, n} /\ \A y \in {factor, n} : least <= y
  OBVIOUS
<1> HIDE DEF least
<1>2. \E x \in {factor, n} : \A y \in {factor, n} : x <= y
  BY <1>1
<1> QED BY <1>2 DEF Min

(* Fewer places than members: one of the members has no place. *)
LEMMA OneIsLeftOut ==
    ASSUME NEW S, NEW ranked \in Seq(S), IsInjective(ranked), NEW s \in Seq(S),
           Len(s) < Len(ranked)
    PROVE  \E h \in 1 .. Len(ranked) : \A i \in 1 .. Len(s) : s[i] # ranked[h]
<1> SUFFICES ASSUME \A h \in 1 .. Len(ranked) : \E i \in 1 .. Len(s) : s[i] = ranked[h]
             PROVE  FALSE
  OBVIOUS
<1> DEFINE H == 1 .. Len(ranked)
           P == 1 .. Len(s)
           place == [h \in H |-> CHOOSE i \in P : s[i] = ranked[h]]
<1>1. \A h \in H : place[h] \in P /\ s[place[h]] = ranked[h]
  OBVIOUS
<1>2. place \in [H -> P]
  BY <1>1
<1>3. Len(s) \in Nat /\ Len(ranked) \in Nat
  OBVIOUS
<1>4. /\ IsFiniteSet(H) /\ Cardinality(H) = Len(ranked)
      /\ IsFiniteSet(P) /\ Cardinality(P) = Len(s)
  <2>1. \A k \in Nat : IsFiniteSet(1 .. k) /\ Cardinality(1 .. k) = k
    <3> TAKE k \in Nat
    <3>1. 1 \in Int /\ k \in Int
      OBVIOUS
    <3>2. /\ IsFiniteSet(1 .. k)
          /\ Cardinality(1 .. k) = IF 1 > k THEN 0 ELSE k - 1 + 1
      BY <3>1, FS_Interval, Zenon
    <3> QED BY <3>2
  <2> QED BY <1>3, <2>1
<1> HIDE DEF H, P, place
<1>5. PICK x \in H, y \in H : x # y /\ place[x] = place[y]
  BY <1>2, <1>4, FS_PigeonHole
<1>6. ranked[x] = ranked[y]
  BY <1>1, <1>5
<1>7. DOMAIN ranked = H
  BY DEF H
<1> QED BY <1>5, <1>6, <1>7 DEF IsInjective

(* No two of the owners o have the same failure domain, or every failure   *)
(* domain of the members has an owner.                                     *)
SpreadOver(o, members, domain) ==
    \/ \A i, j \in 1 .. Len(o) : i # j => domain[o[i]] # domain[o[j]]
    \/ \A m \in members : \E i \in 1 .. Len(o) : domain[o[i]] = domain[m]

(* shard_owners: the owners of a shard are as many members as are wanted   *)
(* and there are, all different, the one with the best score first, and    *)
(* spread over as many failure domains as there can be.                    *)
THEOREM OwnersAreSpread ==
    ASSUME NEW M, NEW ranked \in Seq(M), IsInjective(ranked), NEW domain,
           NEW factor \in Nat \ {0},
           NEW o, o = ShardOwners(ranked, domain, factor)
    PROVE  /\ o \in Seq(ToSet(ranked)) /\ IsInjective(o)
           /\ Len(o) = Min({factor, Len(ranked)})
           /\ ranked # << >> => o[1] = ranked[1]
           /\ SpreadOver(o, ToSet(ranked), domain)
<1> DEFINE S == ToSet(ranked)
           itself == [m \in S |-> m]
           N == Len(ranked)
           count == Min({factor, N})
           s == Spread(ranked, domain, count)
<1>1. N \in Nat /\ DOMAIN ranked = 1 .. N /\ ranked \in Seq(S)
  BY DEF ToSet
<1>2. \A m \in S : \E h \in 1 .. N : m = ranked[h]
  BY <1>1 DEF ToSet
<1>3. count \in Nat /\ count <= N /\ (N # 0 => count # 0)
  BY <1>1, CountIs
<1> HIDE DEF S, N, count
<1>4. s \in Seq(S) /\ Selection(s, << >>, ranked, domain, count, N)
  <2>1. << >> \in Seq(S) /\ Len(<< >>) <= count
    BY <1>3
  <2> QED BY <1>1, <1>3, <2>1, PassOK DEF Spread, N
<1> HIDE DEF s
<1>5. /\ Len(s) \in Nat /\ Len(s) <= count
      /\ \A i, j \in 1 .. Len(s) : i < j => domain[s[i]] # domain[s[j]]
      /\ \/ Len(s) = count
         \/ \A h \in 1 .. N : \E i \in 1 .. Len(s) : domain[s[i]] = domain[ranked[h]]
      /\ N # 0 => Len(s) # 0 /\ s[1] = ranked[1]
  <2>1. /\ Len(s) \in Nat /\ Len(<< >>) = 0
    BY <1>4
  <2>2. \A i, j \in 1 .. Len(s) : 0 < j
    BY <2>1
  <2> QED BY <1>3, <1>4, <2>1, <2>2 DEF Selection
<1>6. o \in Seq(S) /\ Selection(o, s, ranked, itself, count, N)
  <2>1. o = Pass(s, ranked, itself, count)
    BY DEF ShardOwners, Fill, s, S, N, count
  <2> HIDE DEF itself
  <2> QED BY <1>1, <1>3, <1>4, <1>5, <2>1, PassOK DEF N
<1> HIDE DEF itself
<1>7. /\ Len(o) \in Nat /\ Len(s) <= Len(o) /\ Len(o) <= count
      /\ \A i \in 1 .. Len(o) : o[i] \in S /\ itself[o[i]] = o[i]
      /\ \A h \in 1 .. N : itself[ranked[h]] = ranked[h]
  BY <1>1, <1>6 DEF Selection, itself
<1>8. \A i \in 1 .. Len(s) : o[i] = s[i]
  BY <1>6 DEF Selection
<1>9. \A i, j \in 1 .. Len(o) : i < j => o[i] # o[j]
  <2> TAKE i, j \in 1 .. Len(o)
  <2> HAVE i < j
  <2>1. CASE Len(s) < j
    BY <1>6, <1>7, <2>1 DEF Selection
  <2>2. CASE j <= Len(s)
    <3>1. i \in 1 .. Len(s) /\ j \in 1 .. Len(s)
      BY <1>5, <1>7, <2>2
    <3> QED BY <1>5, <1>8, <3>1
  <2> QED BY <1>5, <1>7, <2>1, <2>2
<1>10. IsInjective(o)
  <2>1. DOMAIN o = 1 .. Len(o)
    BY <1>6
  <2>2. \A i, j \in 1 .. Len(o) : i < j \/ j < i \/ i = j
    BY <1>7
  <2> QED BY <1>9, <2>1, <2>2 DEF IsInjective
<1>11. Len(o) = count
  <2> SUFFICES ASSUME Len(o) # count PROVE FALSE
    OBVIOUS
  <2>1. \A h \in 1 .. N : \E i \in 1 .. Len(o) : o[i] = ranked[h]
    <3>1. \A h \in 1 .. N : \E i \in 1 .. Len(o) : itself[o[i]] = itself[ranked[h]]
      BY <1>6 DEF Selection
    <3> QED BY <1>7, <3>1
  <2>2. Len(o) < N
    BY <1>1, <1>3, <1>7
  <2>3. \E h \in 1 .. Len(ranked) : \A i \in 1 .. Len(o) : o[i] # ranked[h]
    <3>1. Len(o) < Len(ranked) /\ IsInjective(ranked)
      BY <2>2 DEF N
    <3> QED BY <1>1, <1>6, <3>1, OneIsLeftOut, Zenon
  <2> QED BY <2>1, <2>3 DEF N
<1>12. ranked # << >> => o[1] = ranked[1]
  <2> HAVE ranked # << >>
  <2> N # 0
    BY DEF N
  <2>1. 1 \in 1 .. Len(s)
    BY <1>5
  <2> QED BY <1>5, <1>8, <2>1
<1>13. \/ \A i, j \in 1 .. Len(o) : i # j => domain[o[i]] # domain[o[j]]
       \/ \A m \in S : \E i \in 1 .. Len(o) : domain[o[i]] = domain[m]
  <2>1. CASE Len(s) = count
    <3>1. ASSUME NEW i \in 1 .. Len(o), NEW j \in 1 .. Len(o), i < j
          PROVE  domain[o[i]] # domain[o[j]]
      <4>1. i \in 1 .. Len(s) /\ j \in 1 .. Len(s)
        BY <1>11, <2>1
      <4> QED BY <1>5, <1>8, <3>1, <4>1
    <3>2. \A i, j \in 1 .. Len(o) : i # j => i < j \/ j < i
      BY <1>7
    <3> QED BY <3>1, <3>2
  <2>2. CASE \A h \in 1 .. N : \E i \in 1 .. Len(s) : domain[s[i]] = domain[ranked[h]]
    <3>1. \A i \in 1 .. Len(s) : i \in 1 .. Len(o) /\ o[i] = s[i]
      BY <1>5, <1>7, <1>8
    <3>2. ASSUME NEW m \in S PROVE \E i \in 1 .. Len(o) : domain[o[i]] = domain[m]
      BY <1>2, <2>2, <3>1
    <3> QED BY <3>2
  <2> QED BY <1>5, <2>1, <2>2
<1> QED BY <1>6, <1>10, <1>11, <1>12, <1>13 DEF S, N, count, SpreadOver

(* The owners of the shards of a version, with the constants of MiddleNode. *)
LEMMA RelayOwners ==
    ASSUME NEW v \in Names, NEW i \in DOMAIN Ranking[v], NEW o, o = Owners[v][i]
    PROVE  /\ o \in Seq(Middles) /\ Len(o) = Min({Factor, Len(Ranking[v][i])})
           /\ SpreadOver(o, Middles, Domain)
<1>1. ASSUME NEW ranked \in Seq(Middles), IsInjective(ranked),
             NEW factor \in Nat \ {0},
             NEW x, x = ShardOwners(ranked, Domain, factor)
      PROVE  /\ x \in Seq(ToSet(ranked)) /\ Len(x) = Min({factor, Len(ranked)})
             /\ SpreadOver(x, ToSet(ranked), Domain)
  BY <1>1, OwnersAreSpread, Zenon
<1>2. Factor \in Nat \ {0}
  BY FactorAssumption
<1>3. /\ Ranking[v][i] \in Seq(Middles) /\ IsInjective(Ranking[v][i])
      /\ ToSet(Ranking[v][i]) = Middles
  BY RankingAssumption
<1>4. o = ShardOwners(Ranking[v][i], Domain, Factor)
  BY DEF Owners
<1> QED BY <1>1, <1>2, <1>3, <1>4

(* Whichever relay is lost, every shard has an owner in a failure domain   *)
(* other than its own, with two owners and two domains to choose from.     *)
THEOREM ADomainMayBeLost ==
    ASSUME Factor >= 2, \E m, n \in Middles : Domain[m] # Domain[n],
           NEW v \in Names, NEW i \in DOMAIN Ranking[v], NEW lost \in Middles
    PROVE  \E m \in ToSet(Owners[v][i]) : m \in Middles /\ Domain[m] # Domain[lost]
<1> DEFINE ranked == Ranking[v][i]
           o == Owners[v][i]
<1>1. ranked \in Seq(Middles) /\ IsInjective(ranked) /\ ToSet(ranked) = Middles
  BY RankingAssumption
<1>2. PICK a, b \in Middles : Domain[a] # Domain[b]
  OBVIOUS
<1> HIDE DEF ranked, o
<1>3. Len(ranked) \in Nat /\ Len(ranked) >= 2
  <2>1. DOMAIN ranked = 1 .. Len(ranked) /\ Len(ranked) \in Nat
    BY <1>1
  <2>2. PICK x, y \in DOMAIN ranked : ranked[x] = a /\ ranked[y] = b
    BY <1>1, <1>2 DEF ToSet
  <2>3. x # y
    BY <1>2, <2>2
  <2> QED BY <2>1, <2>3
<1>4. Factor \in Nat \ {0}
  BY FactorAssumption
<1>5. /\ o \in Seq(Middles) /\ Len(o) = Min({Factor, Len(ranked)})
      /\ SpreadOver(o, Middles, Domain)
  BY RelayOwners DEF ranked, o
<1>6. Len(o) >= 2 /\ Len(o) \in Nat /\ DOMAIN o = 1 .. Len(o)
  BY <1>3, <1>4, <1>5, CountIs
<1>7. \A k \in 1 .. Len(o) : o[k] \in ToSet(o) /\ o[k] \in Middles
  BY <1>5, <1>6 DEF ToSet
<1>8. CASE \A k, l \in 1 .. Len(o) : k # l => Domain[o[k]] # Domain[o[l]]
  <2>1. 1 \in 1 .. Len(o) /\ 2 \in 1 .. Len(o) /\ 1 # 2
    BY <1>6
  <2>2. Domain[o[1]] # Domain[o[2]]
    BY <1>8, <2>1
  <2> QED BY <1>7, <2>1, <2>2 DEF o
<1>9. CASE \A m \in Middles : \E k \in 1 .. Len(o) : Domain[o[k]] = Domain[m]
  <2>1. PICK m \in Middles : Domain[m] # Domain[lost]
    BY <1>2
  <2>2. PICK k \in 1 .. Len(o) : Domain[o[k]] = Domain[m]
    BY <1>9
  <2> QED BY <1>7, <2>1, <2>2 DEF o
<1> QED BY <1>5, <1>8, <1>9 DEF SpreadOver

(* A version every relay has processed. *)
ProcessedByAll(v) == Up(v) # None /\ \A m \in Middles : v \in processed[m]

(* Whichever relay is lost, a relay of another failure domain serves every *)
(* shard of a version that all relays have processed.                      *)
OtherDomainsServe ==
    Mirrored =>
        \A v \in Names, lost \in Middles : ProcessedByAll(v) =>
            \A i \in AllShards(published[v]) :
                \E m \in Middles : Domain[m] # Domain[lost] /\ Serves(m, v, i)

(* Relays with a disk mirror keep what shard_owners promises through       *)
(* evictions, file errors and restarts, as long as the origin offers it.   *)
THEOREM ShardsOutliveADomain ==
    ASSUME Factor >= 2, \E m, n \in Middles : Domain[m] # Domain[n]
    PROVE  Spec => []OtherDomainsServe
<1>1. TypeOK /\ ProcessedIsServed => OtherDomainsServe
  <2> SUFFICES ASSUME TypeOK, ProcessedIsServed, Mirrored, NEW v \in Names,
                      NEW lost \in Middles, ProcessedByAll(v),
                      NEW i \in AllShards(published[v])
               PROVE  \E m \in Middles : Domain[m] # Domain[lost] /\ Serves(m, v, i)
    BY DEF OtherDomainsServe
  <2>1. Up(v) # None /\ \A m \in Middles : v \in processed[m]
    BY DEF ProcessedByAll
  <2>2. published[v] \in Contents
    BY <2>1 DEF TypeOK, Up
  <2>3. i \in DOMAIN Ranking[v]
    BY <2>2, RankedAssumption
  <2>4. PICK m \in ToSet(Owners[v][i]) : m \in Middles /\ Domain[m] # Domain[lost]
    BY <2>3, ADomainMayBeLost
  <2>5. i \in Assigned(m, v, published[v])
    BY <2>4 DEF Assigned
  <2>6. Serves(m, v, i)
    BY <2>1, <2>4, <2>5 DEF ProcessedIsServed, Mirrored
  <2> QED BY <2>4, <2>6
<1> QED BY <1>1, RelayTypeCorrect, ProcessedVersionsAreServed, PTL
=============================================================================
