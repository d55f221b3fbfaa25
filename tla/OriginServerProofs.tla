------------------------- MODULE OriginServerProofs -------------------------
(***************************************************************************)
(* Theorems about OriginServer for every set of contents, every capacity,  *)
(* every max_distribution_folders and every way to run the origin.         *)
(*                                                                         *)
(* The inductive invariant has four parts.  Shape: the types, and what a   *)
(* publication has set at each of its steps.  Numbers: the publication in  *)
(* progress has the highest number, and the directory of a number at least *)
(* as high as any that was ever listed survives every failure.             *)
(* KeptInMemory: what a memory-only origin without faults keeps at each    *)
(* step.  KeptOnDisk: the files of every listed version are complete when  *)
(* each publication writes them.                                           *)
(***************************************************************************)
EXTENDS OriginServer, StoreOpsProofs

Made == {v \in Names : disk[v].made}

InUse == Held(store) \cup Listed \cup Made

(* The list as it will be read once the write in progress, if any, ends. *)
Current == IF pub.at = "write" THEN pub.list ELSE dist

Shown == {v \in Names : Current[v] # None}

Publications == [at : Places, mode : setup.modes \cup {None},
                 version : Names \cup {None}, data : Contents \cup {None},
                 evicted : SUBSET Names, removed : SUBSET Names,
                 list : [Names -> Contents \cup {None}] \cup {None}]

Dirs == [made : BOOLEAN, manifest : BOOLEAN, data : Contents \cup {None},
         files : Nat]

PubShape ==
    /\ pub \in Publications
    /\ pub.at = "idle" => pub = Idle
    /\ pub.at # "idle" => /\ pub.version \in Names
                          /\ pub.data \in Contents
                          /\ pub.mode \in setup.modes
    /\ pub.at \in {"manifest", "mirror", "list"} => pub.removed = {}
    /\ pub.at = "manifest" => pub.mode # "legacy" /\ ~disk[pub.version].made
    /\ pub.at = "mirror" => pub.mode # "ram"
    /\ pub.at = "write" => /\ pub.list \in [Names -> Contents \cup {None}]
                           /\ Listed = {}
    /\ pub.at \in {"delist", "discard"} => pub.mode = "ram"

Shape ==
    /\ setup \in Setups
    /\ Consistent(store) /\ Exact(store)
    /\ \A v \in Held(store) : store.ver[v].data # None
    /\ disk \in [Names -> Dirs]
    /\ \A v \in Names : ~disk[v].made => disk[v] = NoDir
    /\ dist \in [Names -> Contents \cup {None}]
    /\ listedEver \subseteq Names
    /\ returned \subseteq listedEver
    /\ Listed \subseteq listedEver
    /\ PubShape

Numbers ==
    /\ \E b \in Nat : \A v \in InUse : v <= b
    /\ \A u \in listedEver : \E w \in Made : u <= w
    /\ pub.at # "idle" =>
          /\ \A u \in InUse \cup listedEver \cup Shown : u <= pub.version
          /\ pub.version \notin pub.evicted \cup pub.removed
          /\ pub.at # "manifest" => pub.version \in Made
          /\ Held(store) \cap pub.evicted = {}
          /\ Shown \cap pub.removed = {}
    /\ pub.at \in {"manifest", "mirror", "list", "write"} =>
          pub.version \notin listedEver
    /\ pub.at \in {"write", "delist", "discard", "retire"} =>
          pub.version \in Shown

(* What may be held or made without being listed. *)
Pending ==
    (IF pub.at \in {"manifest", "list"} THEN {pub.version} ELSE {})
        \cup (IF pub.at = "discard" THEN pub.evicted ELSE {})
        \cup pub.removed

KeptInMemory ==
    FaultFree /\ setup.modes = {"ram"} =>
        /\ Held(store) \cup Made \subseteq Shown \cup Pending
        /\ Cardinality(Shown) <= MaxFolders
        /\ \A v \in Shown :
              \/ v \in Held(store) /\ store.ver[v].data = Current[v]
              \/ v \in pub.evicted
        /\ pub.at \in {"manifest", "mirror", "list"} =>
              pub.version \in Held(store) /\ store.ver[pub.version].data = pub.data
        /\ pub.at \in {"discard", "retire"} => Shown \cap pub.evicted = {}

KeptOnDisk ==
    Durable =>
        /\ \A v \in Shown :
              /\ disk[v].data = Current[v]
              /\ disk[v].files = Shards(Current[v])
              /\ v \in Held(store) => store.ver[v].data = Current[v]
        /\ pub.at \in {"manifest", "mirror", "list"} /\ pub.version \in Held(store)
              => store.ver[pub.version].data = pub.data
        /\ pub.at \in {"mirror", "list"} => disk[pub.version].data = pub.data
        /\ pub.at = "list" => disk[pub.version].files = Shards(pub.data)

OriginInv == Shape /\ Numbers /\ NewestIsListed /\ KeptInMemory /\ KeptOnDisk

-----------------------------------------------------------------------------
(* Numbers *)

LEMMA NamesAreNumbers == \A v \in Names : v \in Nat
BY NamesAssumption

LEMMA MinOK ==
    ASSUME NEW S \in SUBSET Nat, S # {}
    PROVE  Min(S) \in S /\ \A y \in S : Min(S) <= y
<1> DEFINE R == OpToRel(<, Nat)
<1>1. PICK x \in S : \A y \in S : ~(<<y, x>> \in R)
  BY WFMin, NatLessThanWellFounded
<1>2. \A y \in S : ~(y < x)
  BY <1>1 DEF OpToRel
<1>3. \A y \in S : x <= y
  BY <1>2
<1> QED BY <1>3 DEF Min

LEMMA MaxOK ==
    ASSUME NEW S \in SUBSET Nat, S # {}, NEW b \in Nat, \A y \in S : y <= b
    PROVE  Max(S) \in S /\ \A y \in S : y <= Max(S)
<1> DEFINE T == {c \in Nat : \A y \in S : y <= c}
<1>1. T \in SUBSET Nat /\ T # {}
  OBVIOUS
<1>2. PICK x \in T : \A c \in T : x <= c
  BY <1>1, MinOK
<1>3. x \in S
  <2>1. SUFFICES ASSUME x \notin S PROVE FALSE
    OBVIOUS
  <2>2. \A y \in S : y <= x - 1 /\ x - 1 \in Nat
    BY <1>2, <2>1
  <2>3. x - 1 \in T
    BY <2>2
  <2> QED BY <1>2, <2>3
<1>4. \A y \in S : y <= x
  BY <1>2
<1>5. \E z \in S : \A y \in S : z >= y
  BY <1>2, <1>3, <1>4
<1>6. Max(S) \in S /\ \A y \in S : Max(S) >= y
  BY <1>5 DEF Max
<1> QED BY <1>6

(* A finite set of numbers has a part of any smaller size whose elements   *)
(* are lower than the others.                                              *)
LEMMA LowestExist ==
    ASSUME NEW S \in SUBSET Nat, NEW b \in Nat, \A u \in S : u <= b,
           NEW n \in 0 .. Cardinality(S)
    PROVE  \E low \in SUBSET S : /\ Cardinality(low) = n
                                 /\ \A v \in low, w \in S \ low : v < w
<1> DEFINE Below(x) == {u \in S : u < x}
           T == {x \in Nat : Cardinality(Below(x)) >= n}
<1>0. \A u \in S : u \in Nat /\ u <= b
  OBVIOUS
<1>1. IsFiniteSet(S) /\ Cardinality(S) \in Nat
  BY FS_BoundedSetOfNaturals, FS_CardinalityType
<1>2. ASSUME NEW x \in Nat
      PROVE  IsFiniteSet(Below(x)) /\ Cardinality(Below(x)) \in Nat
  BY <1>1, FS_Subset, FS_CardinalityType
<1>3. T \in SUBSET Nat /\ b + 1 \in T
  <2>1. \A u \in S : u < b + 1
    BY <1>0
  <2>2. Below(b + 1) = S
    BY <2>1
  <2> HIDE DEF Below
  <2>3. Cardinality(Below(b + 1)) >= n
    BY <2>2, <1>1
  <2> QED BY <2>3
<1>4. PICK x \in T : \A c \in T : x <= c
  BY <1>3, MinOK
<1>5. x \in Nat /\ Cardinality(Below(x)) >= n
  BY <1>4
<1>6. Cardinality(Below(x)) = n
  <2>1. CASE x = 0
    <3>1. \A u \in S : ~(u < 0)
      BY <1>0
    <3>2. Below(x) = {}
      BY <2>1, <3>1
    <3> QED BY <3>2, <1>1, <1>5, FS_EmptySet
  <2>2. CASE x # 0
    <3> DEFINE y == x - 1
    <3>1. y \in Nat /\ y < x
      BY <1>5, <2>2
    <3>2. Cardinality(Below(y)) < n
      <4>1. y \notin T
        BY <1>4, <1>5, <3>1
      <4>2. ~(Cardinality(Below(y)) >= n)
        BY <3>1, <4>1
      <4> QED BY <4>2, <3>1, <1>2, <1>1
    <3>3. Below(x) = IF y \in S THEN Below(y) \cup {y} ELSE Below(y)
      <4>1. \A u \in S : u < x <=> (u < y \/ u = y)
        BY <1>0, <1>5, <3>1
      <4>2. ASSUME NEW u PROVE u \in Below(x) <=> (u \in Below(y) \/ (u = y /\ y \in S))
        BY <4>1
      <4> HIDE DEF Below, y
      <4> QED BY <4>2
    <3>4. Cardinality(Below(x)) <= Cardinality(Below(y)) + 1
      <4>1. IsFiniteSet(Below(y)) /\ Cardinality(Below(y)) \in Nat
        BY <3>1, <1>2
      <4> HIDE DEF Below
      <4>2. /\ Cardinality(Below(y) \cup {y})
                  = IF y \in Below(y) THEN Cardinality(Below(y))
                                      ELSE Cardinality(Below(y)) + 1
        BY <4>1, FS_AddElement
      <4> QED BY <4>1, <4>2, <3>3
    <3>5. Cardinality(Below(x)) \in Nat /\ Cardinality(Below(y)) \in Nat
      BY <1>2, <1>5, <3>1
    <3> HIDE DEF Below, y
    <3> QED BY <1>1, <1>5, <3>2, <3>4, <3>5
  <2> QED BY <2>1, <2>2
<1>7. Below(x) \in SUBSET S /\ \A v \in Below(x), w \in S \ Below(x) : v < w
  BY <1>5
<1> QED BY <1>6, <1>7

(* update_distribution_file keeps the newest version, and no more than     *)
(* max_distribution_folders.                                               *)
LEMMA SurplusOK ==
    ASSUME NEW S \in SUBSET Nat, NEW x \in S, \A u \in S : u <= x
    PROVE  /\ Surplus(S) \subseteq S
           /\ x \notin Surplus(S)
           /\ Cardinality(S \ Surplus(S)) <= MaxFolders
<1> DEFINE n == Cardinality(S)
           k == IF n - MaxFolders > 0 THEN n - MaxFolders ELSE 0
           low == Surplus(S)
<1>1. IsFiniteSet(S) /\ n \in Nat
  BY FS_BoundedSetOfNaturals, FS_CardinalityType
<1>2. MaxFolders \in Nat \ {0}
  BY MaxFoldersAssumption
<1>3. Max({0, n - MaxFolders}) = k /\ k \in 0 .. n
  BY <1>1, <1>2 DEF Max
<1>4. /\ low \in SUBSET S
      /\ Cardinality(low) = k
      /\ \A v \in low, w \in S \ low : v < w
  <2>1. \E z \in SUBSET S : /\ Cardinality(z) = k
                           /\ \A v \in z, w \in S \ z : v < w
    BY <1>3, LowestExist
  <2> HIDE DEF k
  <2> QED BY <2>1, <1>3 DEF Surplus
<1> HIDE DEF low
<1>5. n > 0
  BY <1>1, FS_EmptySet
<1>6. k < n
  BY <1>1, <1>2, <1>5
<1>7. x \notin low
  <2> SUFFICES ASSUME x \in low PROVE FALSE
    OBVIOUS
  <2>1. \A w \in S \ low : x < w /\ w <= x /\ w \in Nat /\ x \in Nat
    BY <1>4
  <2>2. S \ low = {}
    BY <2>1
  <2>3. low = S
    BY <1>4, <2>2
  <2> QED BY <2>3, <1>1, <1>4, <1>6
<1>8. Cardinality(S \ low) = n - k
  <2>1. S \cap low = low
    BY <1>4
  <2>2. Cardinality(S \ low) = Cardinality(S) - Cardinality(S \cap low)
    BY <1>1, FS_Difference
  <2> QED BY <2>1, <2>2, <1>4
<1> QED BY <1>1, <1>2, <1>4, <1>7, <1>8 DEF low

(* A new version gets a number above all numbers in use. *)
LEMMA NextVersionOK ==
    ASSUME Shape, Numbers
    PROVE  NextVersion \in Nat /\ \A u \in InUse : u < NextVersion
<1> DEFINE S == Held(store) \cup Listed \cup {v \in Names : disk[v].made} \cup {0}
<1>1. PICK b \in Nat : \A v \in InUse : v <= b
  BY DEF Numbers
<1>2. S = InUse \cup {0}
  BY DEF InUse, Made
<1>3. InUse \subseteq Names
  BY DEF InUse, Made, Held, Listed
<1>5. NextVersion = Max(S) + 1
  BY DEF NextVersion
<1> HIDE DEF S
<1>4. S \in SUBSET Nat /\ S # {} /\ \A y \in S : y <= b
  <2>1. \A y \in S : y = 0 \/ (y \in InUse /\ y \in Names)
    BY <1>2, <1>3
  <2>2. \A y \in S : y \in Nat /\ y <= b
    BY <1>1, <2>1, NamesAreNumbers
  <2> QED BY <1>2, <2>2
<1>6. Max(S) \in S /\ \A y \in S : y <= Max(S)
  BY <1>4, MaxOK
<1>7. Max(S) \in Nat /\ \A u \in InUse : u \in Nat /\ u <= Max(S)
  BY <1>2, <1>4, <1>6
<1> QED BY <1>5, <1>7

-----------------------------------------------------------------------------
(* The actions *)

LEMMA InitOrigin == Init => OriginInv
<1> SUFFICES ASSUME Init PROVE OriginInv
  OBVIOUS
<1> USE DEF Init
<1>1. Listed = {} /\ Made = {} /\ Held(store) = {}
  BY DEF Listed, Made, Held, Unlisted, NoDir, EmptyStore
<1>2. pub.at = "idle" /\ pub.removed = {} /\ Current = dist /\ Shown = {}
  BY <1>1 DEF Idle, Current, Shown, Listed
<1>3. Consistent(store) /\ Exact(store)
  BY EmptyStoreOK
<1>4. PubShape
  BY <1>1 DEF PubShape, Publications, Idle, Places
<1>5. Shape
  <2>1. disk \in [Names -> Dirs] /\ \A v \in Names : disk[v] = NoDir
    BY DEF Dirs, NoDir
  <2>2. dist \in [Names -> Contents \cup {None}]
    BY DEF Unlisted
  <2> QED BY <1>1, <1>3, <1>4, <2>1, <2>2 DEF Shape
<1>6. Numbers
  <2>1. \A v \in InUse : v <= 0
    BY <1>1 DEF InUse
  <2> QED BY <1>2, <2>1 DEF Numbers
<1>7. NewestIsListed
  BY <1>1 DEF NewestIsListed
<1>8. KeptInMemory
  <2>1. Cardinality({}) = 0 /\ MaxFolders \in Nat
    BY FS_EmptySet, MaxFoldersAssumption
  <2> QED BY <1>1, <1>2, <2>1 DEF KeptInMemory
<1>9. KeptOnDisk
  BY <1>2 DEF KeptOnDisk
<1> QED BY <1>5, <1>6, <1>7, <1>8, <1>9 DEF OriginInv

(* Between list operations the list readers see is the file. *)
LEMMA ShownIsListed ==
    ASSUME pub.at # "write"
    PROVE  Current = dist /\ Shown = Listed
BY DEF Current, Shown, Listed

LEMMA WriteManifestOK ==
    ASSUME OriginInv, UNCHANGED setup, WriteManifest
    PROVE  OriginInv'
<1> DEFINE v == pub.version
<1>1. Shape /\ PubShape /\ Numbers
  BY DEF OriginInv, Shape
<1>2. /\ pub \in Publications /\ pub.at = "manifest" /\ v \in Names
      /\ pub.data \in Contents /\ pub.mode \in setup.modes
      /\ pub.mode # "legacy" /\ pub.removed = {} /\ ~disk[v].made
      /\ disk[v] = NoDir
  BY <1>1 DEF PubShape, Shape, WriteManifest
<1>2a. pub.mode \in {"ram", "mirror"}
  BY <1>1, <1>2, SetupsAssumption DEF Shape
<1>3. /\ pub'.at = IF pub.mode = "mirror" THEN "mirror" ELSE "list"
      /\ pub'.version = v /\ pub'.data = pub.data /\ pub'.mode = pub.mode
      /\ pub'.evicted = pub.evicted /\ pub'.removed = {}
      /\ pub' \in Publications'
  BY <1>2 DEF WriteManifest, Publications, Places
<1>4. /\ disk' = [disk EXCEPT ![v] = [made |-> TRUE, manifest |-> TRUE,
                        data |-> IF pub.mode = "mirror" THEN pub.data ELSE None,
                        files |-> 0]]
      /\ store' = store /\ dist' = dist /\ listedEver' = listedEver
      /\ returned' = returned
  BY <1>1, <1>2 DEF WriteManifest, Shape, Dirs, NoDir
<1>5. /\ Listed' = Listed /\ Made' = Made \cup {v}
      /\ Current = dist /\ Shown = Listed /\ Current' = dist /\ Shown' = Listed
  <2>1. Listed' = Listed
    BY <1>4 DEF Listed
  <2>2. Made' = Made \cup {v}
    BY <1>1, <1>2, <1>4 DEF Made, Shape
  <2>3. pub.at # "write" /\ pub'.at # "write"
    BY <1>2, <1>3
  <2> QED BY <1>4, <2>1, <2>2, <2>3 DEF Current, Shown, Listed
<1>6. PubShape'
  BY <1>2, <1>2a, <1>3 DEF PubShape
<1>7. Shape'
  <2>1. disk' \in [Names -> Dirs]
    BY <1>1, <1>2, <1>4 DEF Shape, Dirs
  <2>2. \A u \in Names : ~disk'[u].made => disk'[u] = NoDir
    BY <1>1, <1>2, <1>4 DEF Shape
  <2> QED BY <1>1, <1>4, <1>5, <1>6, <2>1, <2>2 DEF Shape
<1>8. Numbers'
  <2>1. InUse' \subseteq InUse \cup {v}
    BY <1>4, <1>5 DEF InUse
  <2>2. v \in Nat
    BY <1>2, NamesAreNumbers
  <2>3. \A u \in InUse' \cup listedEver' \cup Shown' : u <= v
    BY <1>1, <1>2, <1>4, <1>5, <2>1, <2>2 DEF Numbers
  <2>4. \A u \in listedEver' : \E w \in Made' : u <= w
    BY <1>1, <1>4, <1>5 DEF Numbers
  <2> QED BY <1>1, <1>2, <1>3, <1>4, <1>5, <2>2, <2>3, <2>4 DEF Numbers
<1>9. NewestIsListed'
  BY <1>4, <1>5 DEF OriginInv, NewestIsListed
<1>10. KeptInMemory'
  <2> SUFFICES ASSUME FaultFree, setup.modes = {"ram"}
               PROVE  KeptInMemory'
    BY DEF KeptInMemory, FaultFree
  <2>1. pub'.at = "list"
    BY <1>2, <1>3
  <2>2. Pending = {v} /\ Pending' = {v}
    BY <1>2, <1>3, <2>1 DEF Pending
  <2> QED BY <1>2, <1>3, <1>4, <1>5, <2>1, <2>2 DEF OriginInv, KeptInMemory
<1>11. KeptOnDisk'
  <2> SUFFICES ASSUME Durable
               PROVE  KeptOnDisk'
    BY DEF KeptOnDisk, Durable
  <2>1. pub'.at = "mirror" /\ pub.mode = "mirror"
    BY <1>2, <1>2a, <1>3 DEF Durable
  <2>2. v \notin Listed
    BY <1>1, <1>2 DEF Numbers, Shape
  <2>3. /\ disk'[v].data = pub.data
        /\ \A u \in Names \ {v} : disk'[u] = disk[u]
    BY <1>1, <1>2, <1>4, <2>1 DEF Shape
  <2>4. Listed \subseteq Names
    BY DEF Listed
  <2> QED BY <1>2, <1>3, <1>4, <1>5, <2>1, <2>2, <2>3, <2>4
          DEF OriginInv, KeptOnDisk
<1> QED BY <1>7, <1>8, <1>9, <1>10, <1>11 DEF OriginInv

LEMMA BroadcastBufferOK ==
    ASSUME OriginInv, UNCHANGED setup, NEW c \in Contents, NEW mode \in setup.modes,
           BroadcastBuffer(c, mode)
    PROVE  OriginInv'
<1> DEFINE v == NextVersion
           g == SumsOf([total |-> Size[c]], c)
           r == StoreComplete(store, v, c, c, ShardSize, g)
           t == Drop(store, v)
           k == EvictCount(t, Len(t.order), Size[c])
           O == Oldest(t, k)
<1>1. Shape /\ PubShape /\ Numbers
  BY DEF OriginInv, Shape
<1>2. /\ pub = Idle /\ v \in Names /\ mode # "legacy" /\ Size[c] <= Capacity
      /\ store' = r /\ disk' = disk /\ dist' = dist
      /\ listedEver' = listedEver /\ returned' = returned
  <2>1. Size[c] \in Nat /\ Capacity \in Nat
    BY SizeAssumption, CapacityAssumption
  <2> QED BY <2>1 DEF BroadcastBuffer, PutVerifiedError
<1>3. pub' = [Idle EXCEPT !.at = "manifest", !.mode = mode, !.version = v,
                          !.data = c, !.evicted = Held(store) \ Held(store')]
  BY DEF BroadcastBuffer
<1>4. v \in Nat /\ \A u \in InUse : u < v
  BY <1>1, NextVersionOK
<1> HIDE DEF v
<1>5. v \notin InUse
  BY <1>4
<1>6. Consistent(store) /\ Exact(store) /\ g \in Contents \cup {None}
  BY <1>1 DEF Shape, SumsOf
<1> HIDE DEF g
<1>7. Consistent(r) /\ Exact(r)
  BY <1>2, <1>6, StoreCompleteOK, ShardSizeAssumption
<1>8. /\ Held(r) = (Held(store) \ O) \cup {v}
      /\ O \subseteq Held(store) \ {v}
      /\ \A n \in Held(r) \ {v} : r.ver[n] = store.ver[n]
      /\ r.ver[v] = CompleteVersion(c, c, ShardSize, g)
  BY <1>2, <1>6, StoreCompleteShape, ShardSizeAssumption
<1>9. r.ver[v].data = c /\ c # None
  BY <1>8, NoneAssumption DEF CompleteVersion
<1> HIDE DEF r, O
<1>10. /\ Held(store') = (Held(store) \ O) \cup {v} /\ O \subseteq Held(store)
       /\ \A n \in Held(store') \ {v} : store'.ver[n] = store.ver[n]
       /\ store'.ver[v].data = c
       /\ Consistent(store') /\ Exact(store')
  BY <1>2, <1>7, <1>8, <1>9
<1>11. /\ pub'.at = "manifest" /\ pub'.version = v /\ pub'.data = c
       /\ pub'.mode = mode /\ pub'.evicted = Held(store) \ Held(store')
       /\ pub'.removed = {} /\ pub' \in Publications'
  <2>1. Held(store) \ Held(store') \in SUBSET Names
    BY DEF Held
  <2> QED BY <1>2, <1>3, <2>1 DEF Idle, Publications, Places
<1>12. /\ pub.at = "idle" /\ pub.evicted = {} /\ pub.removed = {}
       /\ Listed' = Listed /\ Made' = Made
       /\ Current = dist /\ Shown = Listed /\ Current' = dist /\ Shown' = Listed
  BY <1>2, <1>11 DEF Idle, Listed, Made, Current, Shown
<1>13. v \notin Listed /\ v \notin Made /\ v \notin Held(store)
  BY <1>5 DEF InUse
<1>14. Shape'
  <2>1. PubShape'
    BY <1>2, <1>11, <1>13 DEF PubShape, Made
  <2>2. \A u \in Held(store') : store'.ver[u].data # None
    BY <1>1, <1>9, <1>10 DEF Shape
  <2> QED BY <1>1, <1>2, <1>10, <1>12, <2>1, <2>2 DEF Shape
<1>15. Numbers'
  <2>1. \A u \in InUse' : u <= v
    <3>1. InUse' \subseteq InUse \cup {v}
      BY <1>10, <1>12 DEF InUse
    <3>2. InUse \subseteq Names
      BY DEF InUse, Made, Listed, Held
    <3>3. \A u \in InUse : u <= v
      BY <1>4, <3>2, NamesAreNumbers
    <3> QED BY <1>4, <3>1, <3>3
  <2>2. \A u \in listedEver : u < v
    <3> TAKE u \in listedEver
    <3>1. PICK w \in Made : u <= w
      BY <1>1 DEF Numbers
    <3>2. w < v /\ w \in Names /\ u \in Names
      BY <1>1, <1>4 DEF InUse, Made, Shape
    <3> QED BY <1>4, <3>1, <3>2, NamesAreNumbers
  <2>3. \A u \in listedEver : u <= v /\ u # v
    BY <1>1, <1>4, <2>2, NamesAreNumbers DEF Shape
  <2>4. Shown' \subseteq InUse'
    BY <1>12 DEF InUse
  <2>5. \A u \in listedEver' : \E w \in Made' : u <= w
    BY <1>1, <1>2, <1>12 DEF Numbers
  <2>6. \A u \in InUse' \cup listedEver' \cup Shown' : u <= v
    BY <1>2, <2>1, <2>3, <2>4
  <2>7. \E b \in Nat : \A u \in InUse' : u <= b
    BY <1>4, <2>1
  <2> QED BY <1>2, <1>10, <1>11, <2>3, <2>5, <2>6, <2>7 DEF Numbers
<1>16. NewestIsListed'
  BY <1>2, <1>12 DEF OriginInv, NewestIsListed
<1>17. KeptInMemory'
  <2> SUFFICES ASSUME FaultFree, setup.modes = {"ram"}
               PROVE  KeptInMemory'
    BY DEF KeptInMemory, FaultFree
  <2>1. Pending = {} /\ Pending' = {v}
    BY <1>11, <1>12 DEF Pending
  <2>2. /\ Held(store) \cup Made \subseteq Listed
        /\ Cardinality(Listed) <= MaxFolders
        /\ \A u \in Listed : u \in Held(store) /\ store.ver[u].data = dist[u]
    BY <1>12, <2>1 DEF OriginInv, KeptInMemory
  <2>3. Held(store') \cup Made' \subseteq Shown' \cup Pending'
    BY <1>10, <1>12, <2>1, <2>2
  <2>4. \A u \in Shown' : \/ u \in Held(store') /\ store'.ver[u].data = Current'[u]
                          \/ u \in pub'.evicted
    BY <1>10, <1>11, <1>12, <1>13, <2>2
  <2> QED BY <1>10, <1>11, <1>12, <2>2, <2>3, <2>4 DEF KeptInMemory
<1>18. KeptOnDisk'
  <2> SUFFICES ASSUME Durable
               PROVE  KeptOnDisk'
    BY DEF KeptOnDisk, Durable
  <2>1. \A u \in Listed : /\ disk[u].data = dist[u]
                          /\ disk[u].files = Shards(dist[u])
                          /\ u \in Held(store) => store.ver[u].data = dist[u]
    BY <1>12 DEF OriginInv, KeptOnDisk
  <2>2. \A u \in Listed : u \in Held(store') => store'.ver[u].data = dist[u]
    BY <1>10, <1>13, <2>1
  <2> QED BY <1>2, <1>10, <1>11, <1>12, <2>1, <2>2 DEF KeptOnDisk
<1> QED BY <1>14, <1>15, <1>16, <1>17, <1>18 DEF OriginInv

LEMMA BroadcastLegacyOK ==
    ASSUME OriginInv, UNCHANGED setup, NEW c \in Contents, BroadcastLegacy(c)
    PROVE  OriginInv'
<1> DEFINE v == NextVersion
<1>1. Shape /\ PubShape /\ Numbers
  BY DEF OriginInv, Shape
<1>2. /\ pub = Idle /\ v \in Names /\ "legacy" \in setup.modes
      /\ store' = store /\ dist' = dist
      /\ listedEver' = listedEver /\ returned' = returned
      /\ pub' = [Idle EXCEPT !.at = "mirror", !.mode = "legacy",
                             !.version = v, !.data = c]
      /\ disk' = [disk EXCEPT ![v].made = TRUE, ![v].data = c]
  BY DEF BroadcastLegacy
<1>3. v \in Nat /\ \A u \in InUse : u < v
  BY <1>1, NextVersionOK
<1> HIDE DEF v
<1>4. v \notin Listed /\ v \notin Made /\ v \notin Held(store)
  BY <1>3 DEF InUse
<1>5. /\ disk' \in [Names -> Dirs]
      /\ \A u \in Names \ {v} : disk'[u] = disk[u]
      /\ disk'[v].made /\ disk'[v].data = c
  <2>1. disk \in [Names -> Dirs] /\ v \in Names
    BY <1>1, <1>2 DEF Shape
  <2>2. disk' = [disk EXCEPT ![v].made = TRUE, ![v].data = c]
    BY <1>2
  <2> QED BY <2>1, <2>2 DEF Dirs
<1>6. /\ pub'.at = "mirror" /\ pub'.version = v /\ pub'.data = c
      /\ pub'.mode = "legacy" /\ pub'.evicted = {} /\ pub'.removed = {}
      /\ pub' \in Publications'
  BY <1>2 DEF Idle, Publications, Places
<1>7. /\ pub.at = "idle" /\ Listed' = Listed /\ Made' = Made \cup {v}
      /\ Current = dist /\ Shown = Listed /\ Current' = dist /\ Shown' = Listed
  <2>1. Made' = Made \cup {v}
    BY <1>1, <1>2, <1>5 DEF Made, Shape
  <2> QED BY <1>2, <1>6, <2>1 DEF Idle, Listed, Current, Shown
<1>8. Shape'
  <2>1. PubShape'
    BY <1>2, <1>6 DEF PubShape
  <2>2. disk' \in [Names -> Dirs]
    BY <1>5
  <2>3. \A u \in Names : ~disk'[u].made => disk'[u] = NoDir
    BY <1>1, <1>2, <1>5 DEF Shape
  <2> QED BY <1>1, <1>2, <1>7, <2>1, <2>2, <2>3 DEF Shape
<1>9. Numbers'
  <2>1. \A u \in InUse' : u <= v
    <3>1. InUse' \subseteq InUse \cup {v}
      BY <1>2, <1>7 DEF InUse
    <3>2. InUse \subseteq Names
      BY DEF InUse, Made, Listed, Held
    <3>3. \A u \in InUse : u <= v
      BY <1>3, <3>2, NamesAreNumbers
    <3> QED BY <1>3, <3>1, <3>3
  <2>2. \A u \in listedEver : u < v
    <3> TAKE u \in listedEver
    <3>1. PICK w \in Made : u <= w
      BY <1>1 DEF Numbers
    <3>2. w < v /\ w \in Names /\ u \in Names
      BY <1>1, <1>3 DEF InUse, Made, Shape
    <3> QED BY <1>3, <3>1, <3>2, NamesAreNumbers
  <2>3. \A u \in listedEver : u <= v /\ u # v
    BY <1>1, <1>3, <2>2, NamesAreNumbers DEF Shape
  <2>4. Shown' \subseteq InUse'
    BY <1>7 DEF InUse
  <2>5. \A u \in listedEver' : \E w \in Made' : u <= w
    BY <1>2, <1>7, <2>3
  <2>6. \A u \in InUse' \cup listedEver' \cup Shown' : u <= v
    BY <1>2, <2>1, <2>3, <2>4
  <2>7. \E b \in Nat : \A u \in InUse' : u <= b
    BY <1>3, <2>1
  <2> QED BY <1>2, <1>6, <1>7, <2>3, <2>5, <2>6, <2>7 DEF Numbers
<1>10. NewestIsListed'
  BY <1>2, <1>7 DEF OriginInv, NewestIsListed
<1>11. KeptInMemory'
  BY <1>2 DEF KeptInMemory, FaultFree
<1>12. KeptOnDisk'
  <2> SUFFICES ASSUME Durable
               PROVE  KeptOnDisk'
    BY DEF KeptOnDisk, Durable
  <2>1. /\ disk'[v].data = c
        /\ \A u \in Names \ {v} : disk'[u] = disk[u]
    BY <1>1, <1>2, <1>5 DEF Shape
  <2>2. \A u \in Listed : disk'[u] = disk[u]
    BY <1>4, <2>1 DEF Listed
  <2>3. /\ store' = store /\ dist' = dist /\ pub'.version \notin Held(store)
    BY <1>2, <1>4, <1>6
  <2>4. KeptOnDisk
    BY DEF OriginInv
  <2> QED BY <1>6, <1>7, <2>1, <2>2, <2>3, <2>4 DEF KeptOnDisk
<1> QED BY <1>8, <1>9, <1>10, <1>11, <1>12 DEF OriginInv

LEMMA WriteShardOK ==
    ASSUME OriginInv, UNCHANGED setup, WriteShard
    PROVE  OriginInv'
<1> DEFINE v == pub.version
<1>1. Shape /\ PubShape /\ Numbers
  BY DEF OriginInv, Shape
<1>2. /\ pub' = pub /\ store' = store /\ dist' = dist
      /\ listedEver' = listedEver /\ returned' = returned
      /\ pub.at = "mirror" /\ v \in Names /\ pub.mode # "ram"
      /\ pub.mode \in setup.modes
      /\ disk' = [disk EXCEPT ![v].files = @ + 1]
  BY <1>1 DEF WriteShard, PubShape
<1>3. /\ disk' \in [Names -> Dirs]
      /\ \A u \in Names \ {v} : disk'[u] = disk[u]
      /\ disk'[v].made = disk[v].made /\ disk'[v].data = disk[v].data
  BY <1>1, <1>2 DEF Shape, Dirs
<1>4. /\ Listed' = Listed /\ Made' = Made
      /\ Current = dist /\ Shown = Listed /\ Current' = dist /\ Shown' = Listed
  BY <1>2, <1>3 DEF Made, Listed, Current, Shown
<1>5. v \in Made /\ v \notin Listed
  BY <1>1, <1>2 DEF Numbers, Shape
<1>6. Shape'
  <2>1. PubShape'
    BY <1>1, <1>2, <1>4 DEF PubShape, Publications
  <2>2. \A u \in Names : ~disk'[u].made => disk'[u] = NoDir
    BY <1>1, <1>2, <1>3, <1>5 DEF Shape, Made
  <2> QED BY <1>1, <1>2, <1>3, <1>4, <2>1, <2>2 DEF Shape
<1>7. Numbers'
  <2>1. InUse' = InUse
    BY <1>2, <1>4 DEF InUse
  <2> QED BY <1>1, <1>2, <1>4, <2>1 DEF Numbers
<1>8. NewestIsListed'
  BY <1>2, <1>4 DEF OriginInv, NewestIsListed
<1>9. KeptInMemory'
  BY <1>2 DEF KeptInMemory, FaultFree
<1>10. KeptOnDisk'
  <2>1. Listed \subseteq Names
    BY DEF Listed
  <2> QED BY <1>2, <1>3, <1>4, <1>5, <2>1 DEF OriginInv, KeptOnDisk, Durable
<1> QED BY <1>6, <1>7, <1>8, <1>9, <1>10 DEF OriginInv

LEMMA ShardsWrittenOK ==
    ASSUME OriginInv, UNCHANGED setup, ShardsWritten
    PROVE  OriginInv'
<1>1. Shape /\ PubShape /\ Numbers
  BY DEF OriginInv, Shape
<1>2. /\ store' = store /\ dist' = dist /\ disk' = disk
      /\ listedEver' = listedEver /\ returned' = returned
      /\ pub.at = "mirror" /\ pub.mode # "ram" /\ pub.mode \in setup.modes
      /\ disk[pub.version].files = Shards(pub.data)
  BY <1>1 DEF ShardsWritten, PubShape
<1>3. /\ pub'.at = "list" /\ pub'.version = pub.version /\ pub'.data = pub.data
      /\ pub'.mode = pub.mode /\ pub'.evicted = pub.evicted
      /\ pub'.removed = pub.removed /\ pub' \in Publications'
  BY <1>1 DEF ShardsWritten, PubShape, Publications, Places
<1>4. /\ Listed' = Listed /\ Made' = Made
      /\ Current = dist /\ Shown = Listed /\ Current' = dist /\ Shown' = Listed
  BY <1>2, <1>3 DEF Made, Listed, Current, Shown
<1>5. Shape'
  <2>1. PubShape'
    BY <1>1, <1>2, <1>3 DEF PubShape
  <2> QED BY <1>1, <1>2, <1>4, <2>1 DEF Shape
<1>6. Numbers'
  <2>1. InUse' = InUse
    BY <1>2, <1>4 DEF InUse
  <2> QED BY <1>1, <1>2, <1>3, <1>4, <2>1 DEF Numbers
<1>7. NewestIsListed'
  BY <1>2, <1>4 DEF OriginInv, NewestIsListed
<1>8. KeptInMemory'
  BY <1>2 DEF KeptInMemory, FaultFree
<1>9. KeptOnDisk'
  BY <1>2, <1>3, <1>4 DEF OriginInv, KeptOnDisk, Durable
<1> QED BY <1>5, <1>6, <1>7, <1>8, <1>9 DEF OriginInv

LEMMA OpenListOK ==
    ASSUME OriginInv, UNCHANGED setup, OpenList
    PROVE  OriginInv'
<1> DEFINE v == pub.version
           L == Listed \cup {v}
           low == Surplus(L)
           new == [dist EXCEPT ![v] = pub.data]
<1>1. Shape /\ PubShape /\ Numbers
  BY DEF OriginInv, Shape
<1>2. /\ pub.at = "list" /\ v \in Names /\ pub.data \in Contents
      /\ pub.mode \in setup.modes /\ pub.removed = {}
      /\ pub \in Publications
      /\ store' = store /\ disk' = disk /\ dist' = Unlisted
      /\ listedEver' = listedEver /\ returned' = returned
      /\ dist \in [Names -> Contents \cup {None}]
  BY <1>1 DEF OpenList, PubShape, Shape
<1>3. pub' = [pub EXCEPT !.at = "write", !.removed = low,
                         !.list = [u \in Names |->
                                     IF u \in low THEN None ELSE new[u]]]
  BY DEF OpenList
<1>4. L \subseteq Names /\ v \in L /\ pub.data # None
  BY <1>2, NoneAssumption DEF Listed
<1>5. low \subseteq L /\ v \notin low /\ Cardinality(L \ low) <= MaxFolders
  <2>1. L \in SUBSET Nat
    BY <1>4, NamesAreNumbers
  <2>2. Listed \subseteq InUse
    BY DEF InUse
  <2>3. \A u \in L : u <= v
    BY <1>1, <1>2, <2>2, NamesAreNumbers DEF Numbers
  <2> HIDE DEF L
  <2> QED BY <1>4, <2>1, <2>3, SurplusOK
<1> HIDE DEF low
<1>6. /\ pub'.at = "write" /\ pub'.version = v /\ pub'.data = pub.data
      /\ pub'.mode = pub.mode /\ pub'.evicted = pub.evicted
      /\ pub'.removed = low
      /\ pub'.list = [u \in Names |-> IF u \in low THEN None ELSE new[u]]
  BY <1>2, <1>3 DEF Publications
<1>7. pub'.list \in [Names -> Contents \cup {None}] /\ pub' \in Publications'
  <2>1. pub'.list \in [Names -> Contents \cup {None}]
    BY <1>2, <1>6
  <2>2. low \in SUBSET Names
    BY <1>4, <1>5
  <2>3. pub' = [pub EXCEPT !.at = "write", !.removed = low, !.list = pub'.list]
    BY <1>3, <1>6
  <2> HIDE DEF L
  <2>4. setup' = setup
    OBVIOUS
  <2> QED BY <1>2, <2>1, <2>2, <2>3, <2>4 DEF Publications, Places
<1>8. /\ Listed' = {} /\ Made' = Made
      /\ Current = dist /\ Shown = Listed
      /\ Current' = pub'.list /\ Shown' = L \ low
      /\ Current'[v] = pub.data
      /\ \A u \in Shown' \ {v} : u \in Listed /\ Current'[u] = dist[u]
  <2>1. Listed' = {}
    BY <1>2 DEF Listed, Unlisted
  <2>2. Made' = Made /\ Current = dist /\ Shown = Listed /\ Current' = pub'.list
    BY <1>2, <1>6 DEF Made, Listed, Current, Shown
  <2>3. \A u \in Names : Current'[u] = IF u \in low THEN None
                                       ELSE IF u = v THEN pub.data ELSE dist[u]
    BY <1>2, <1>6, <2>2
  <2>4. Shown' = {u \in Names : Current'[u] # None}
    BY DEF Shown
  <2>5. Shown' = L \ low
    BY <1>2, <1>4, <1>5, <2>3, <2>4 DEF Listed
  <2> QED BY <1>2, <1>4, <1>5, <2>1, <2>2, <2>3, <2>5
<1>9. Shape'
  <2>1. PubShape'
    BY <1>2, <1>6, <1>7, <1>8 DEF PubShape
  <2>2. dist' \in [Names -> Contents \cup {None}]
    BY <1>2 DEF Unlisted
  <2> QED BY <1>1, <1>2, <1>8, <2>1, <2>2 DEF Shape
<1>10. Numbers'
  <2>1. InUse' \subseteq InUse /\ Listed \subseteq InUse
    BY <1>2, <1>8 DEF InUse
  <2>2. v \in Nat
    BY <1>2, NamesAreNumbers
  <2>3. \A u \in InUse' \cup listedEver' \cup Shown' : u <= v
    BY <1>1, <1>2, <1>8, <2>1, <2>2 DEF Numbers
  <2>4. v \notin pub'.evicted \cup pub'.removed /\ v \in Made' /\ v \in Shown'
    BY <1>1, <1>2, <1>4, <1>5, <1>6, <1>8 DEF Numbers
  <2>5. Held(store') \cap pub'.evicted = {} /\ Shown' \cap pub'.removed = {}
    BY <1>1, <1>2, <1>6, <1>8 DEF Numbers
  <2>6. v \notin listedEver'
    BY <1>1, <1>2 DEF Numbers
  <2>7. \A u \in listedEver' : \E w \in Made' : u <= w
    BY <1>1, <1>2, <1>8 DEF Numbers
  <2> HIDE DEF L
  <2> QED BY <1>6, <2>2, <2>3, <2>4, <2>5, <2>6, <2>7 DEF Numbers
<1>11. NewestIsListed'
  BY <1>8 DEF NewestIsListed
<1>12. KeptInMemory'
  <2> SUFFICES ASSUME FaultFree, setup.modes = {"ram"}
               PROVE  KeptInMemory'
    BY DEF KeptInMemory, FaultFree
  <2>1. Pending = {v} /\ Pending' = low
    BY <1>2, <1>6 DEF Pending
  <2>2. /\ Held(store) \cup Made \subseteq Listed \cup {v}
        /\ \A u \in Listed : \/ u \in Held(store) /\ store.ver[u].data = dist[u]
                             \/ u \in pub.evicted
        /\ v \in Held(store) /\ store.ver[v].data = pub.data
    BY <1>2, <1>8, <2>1 DEF OriginInv, KeptInMemory
  <2>3. Held(store') \cup Made' \subseteq Shown' \cup Pending'
    BY <1>2, <1>8, <2>1, <2>2
  <2>4. Cardinality(Shown') <= MaxFolders
    BY <1>5, <1>8
  <2>5. \A u \in Shown' : \/ u \in Held(store') /\ store'.ver[u].data = Current'[u]
                          \/ u \in pub'.evicted
    BY <1>2, <1>6, <1>8, <2>2
  <2> QED BY <1>6, <2>3, <2>4, <2>5 DEF KeptInMemory
<1>13. KeptOnDisk'
  <2> SUFFICES ASSUME Durable
               PROVE  KeptOnDisk'
    BY DEF KeptOnDisk, Durable
  <2>1. /\ \A u \in Listed : /\ disk[u].data = dist[u]
                             /\ disk[u].files = Shards(dist[u])
                             /\ u \in Held(store) => store.ver[u].data = dist[u]
        /\ v \in Held(store) => store.ver[v].data = pub.data
        /\ disk[v].data = pub.data /\ disk[v].files = Shards(pub.data)
    BY <1>2, <1>8 DEF OriginInv, KeptOnDisk
  <2>2. \A u \in Shown' : /\ disk'[u].data = Current'[u]
                          /\ disk'[u].files = Shards(Current'[u])
                          /\ u \in Held(store') => store'.ver[u].data = Current'[u]
    BY <1>2, <1>8, <2>1
  <2> QED BY <1>6, <2>2 DEF KeptOnDisk
<1> QED BY <1>9, <1>10, <1>11, <1>12, <1>13 DEF OriginInv

LEMMA WriteListOK ==
    ASSUME OriginInv, UNCHANGED setup, WriteList
    PROVE  OriginInv'
<1> DEFINE v == pub.version
<1>1. Shape /\ PubShape /\ Numbers
  BY DEF OriginInv, Shape
<1>2. /\ pub.at = "write" /\ v \in Names /\ pub.data \in Contents
      /\ pub.mode \in setup.modes /\ pub \in Publications
      /\ pub.list \in [Names -> Contents \cup {None}]
      /\ store' = store /\ disk' = disk /\ dist' = pub.list
      /\ returned' = returned
      /\ listedEver' = listedEver \cup Listed'
  BY <1>1 DEF WriteList, PubShape, Listed
<1>3. /\ pub'.at = IF pub.mode = "ram" THEN "delist" ELSE "retire"
      /\ pub'.version = v /\ pub'.data = pub.data
      /\ pub'.mode = pub.mode /\ pub'.evicted = pub.evicted
      /\ pub'.removed = pub.removed /\ pub' \in Publications'
  BY <1>2 DEF WriteList, Publications, Places
<1>4. /\ Listed' = Shown /\ Made' = Made /\ Shown' = Shown /\ Current' = Current
  BY <1>2, <1>3 DEF Made, Listed, Current, Shown
<1>5. v \in Shown /\ v \in Made /\ v \in Nat /\ v \notin listedEver
      /\ \A u \in InUse \cup listedEver \cup Shown : u <= v
  BY <1>1, <1>2, NamesAreNumbers DEF Numbers
<1>6. Shape'
  <2>1. PubShape'
    BY <1>2, <1>3 DEF PubShape
  <2>2. Shown \subseteq Names
    BY DEF Shown
  <2> QED BY <1>1, <1>2, <1>4, <2>1, <2>2 DEF Shape
<1>7. Numbers'
  <2>1. InUse' \subseteq InUse \cup Shown
    BY <1>2, <1>4 DEF InUse
  <2>2. \A u \in InUse' \cup listedEver' \cup Shown' : u <= v
    BY <1>2, <1>4, <1>5, <2>1
  <2>3. \A u \in listedEver' : \E w \in Made' : u <= w
    BY <1>4, <1>5, <2>2
  <2>4. /\ v \notin pub'.evicted \cup pub'.removed
        /\ Held(store') \cap pub'.evicted = {} /\ Shown' \cap pub'.removed = {}
    BY <1>1, <1>2, <1>3, <1>4 DEF Numbers
  <2> QED BY <1>3, <1>4, <1>5, <2>2, <2>3, <2>4 DEF Numbers
<1>8. NewestIsListed'
  BY <1>1, <1>2, <1>4, <1>5 DEF Shape, NewestIsListed
<1>9. KeptInMemory'
  <2>1. Pending' = Pending
    BY <1>2, <1>3 DEF Pending
  <2>2. FaultFree' = FaultFree /\ setup' = setup
    BY DEF FaultFree
  <2>3. setup.modes = {"ram"} => pub'.at = "delist"
    BY <1>2, <1>3
  <2> QED BY <1>2, <1>3, <1>4, <2>1, <2>2, <2>3 DEF OriginInv, KeptInMemory
<1>10. KeptOnDisk'
  <2>1. Durable' = Durable /\ pub'.at \notin {"manifest", "mirror", "list"}
    BY <1>3 DEF Durable
  <2> QED BY <1>2, <1>4, <2>1 DEF OriginInv, KeptOnDisk
<1> QED BY <1>6, <1>7, <1>8, <1>9, <1>10 DEF OriginInv

LEMMA DelistOK ==
    ASSUME OriginInv, UNCHANGED setup, Delist
    PROVE  OriginInv'
<1> DEFINE v == pub.version
<1>1. Shape /\ PubShape /\ Numbers
  BY DEF OriginInv, Shape
<1>2. /\ pub.at = "delist" /\ v \in Names /\ pub.data \in Contents
      /\ pub.mode = "ram" /\ pub.mode \in setup.modes /\ pub \in Publications
      /\ store' = store /\ disk' = disk
      /\ dist' = [u \in Names |-> IF u \in pub.evicted THEN None ELSE dist[u]]
      /\ listedEver' = listedEver /\ returned' = returned
  BY <1>1 DEF Delist, PubShape
<1>3. /\ pub'.at = "discard" /\ pub'.version = v /\ pub'.data = pub.data
      /\ pub'.mode = "ram" /\ pub'.evicted = pub.evicted
      /\ pub'.removed = pub.removed /\ pub' \in Publications'
  BY <1>2 DEF Delist, Publications, Places
<1>4. /\ Listed' = Listed \ pub.evicted /\ Made' = Made
      /\ Shown = Listed /\ Current = dist /\ Shown' = Listed' /\ Current' = dist'
  BY <1>2, <1>3 DEF Made, Listed, Current, Shown
<1>5. /\ v \in Listed' /\ v \in Made /\ v \in Nat
      /\ \A u \in InUse \cup listedEver \cup Shown : u <= v
  BY <1>1, <1>2, <1>4, NamesAreNumbers DEF Numbers
<1>6. Shape'
  <2>1. PubShape'
    BY <1>2, <1>3 DEF PubShape
  <2>2. dist' \in [Names -> Contents \cup {None}]
    BY <1>1, <1>2 DEF Shape
  <2> QED BY <1>1, <1>2, <1>4, <2>1, <2>2 DEF Shape
<1>7. Numbers'
  <2>1. InUse' \subseteq InUse
    BY <1>2, <1>4 DEF InUse
  <2>2. \A u \in InUse' \cup listedEver' \cup Shown' : u <= v
    BY <1>2, <1>4, <1>5, <2>1
  <2>3. \A u \in listedEver' : \E w \in Made' : u <= w
    BY <1>4, <1>5, <2>2
  <2>4. /\ v \notin pub'.evicted \cup pub'.removed
        /\ Held(store') \cap pub'.evicted = {} /\ Shown' \cap pub'.removed = {}
    BY <1>1, <1>2, <1>3, <1>4 DEF Numbers
  <2> QED BY <1>3, <1>4, <1>5, <2>2, <2>3, <2>4 DEF Numbers
<1>8. NewestIsListed'
  BY <1>1, <1>2, <1>5 DEF Shape, NewestIsListed
<1>9. KeptInMemory'
  <2> SUFFICES ASSUME FaultFree, setup.modes = {"ram"}
               PROVE  KeptInMemory'
    BY DEF KeptInMemory, FaultFree
  <2>1. Pending = pub.removed /\ Pending' = pub.removed \cup pub.evicted
    BY <1>2, <1>3 DEF Pending
  <2>2. /\ Held(store) \cup Made \subseteq Listed \cup pub.removed
        /\ Cardinality(Listed) <= MaxFolders
        /\ \A u \in Listed : \/ u \in Held(store) /\ store.ver[u].data = dist[u]
                             \/ u \in pub.evicted
    BY <1>4, <2>1 DEF OriginInv, KeptInMemory
  <2>3. Cardinality(Listed') <= MaxFolders
    <3>1. Listed \in SUBSET Nat /\ \A u \in Listed : u <= v
      BY <1>4, <1>5, NamesAreNumbers DEF Listed
    <3>2. IsFiniteSet(Listed)
      BY <1>5, <3>1, FS_BoundedSetOfNaturals
    <3>3. Listed' \in SUBSET Listed
      BY <1>4
    <3> DEFINE A == Listed
               B == Listed'
    <3>4. IsFiniteSet(A) /\ B \in SUBSET A
      BY <3>2, <3>3
    <3> HIDE DEF A, B
    <3>5. /\ Cardinality(B) <= Cardinality(A) /\ IsFiniteSet(B)
          /\ Cardinality(A) \in Nat /\ Cardinality(B) \in Nat
      BY <3>4, FS_Subset, FS_CardinalityType
    <3>6. MaxFolders \in Nat /\ Cardinality(A) <= MaxFolders
      BY <2>2, MaxFoldersAssumption DEF A
    <3>7. Cardinality(B) <= MaxFolders
      BY <3>5, <3>6
    <3> QED BY <3>7 DEF B
  <2>4. Held(store') \cup Made' \subseteq Shown' \cup Pending'
    BY <1>2, <1>4, <2>1, <2>2
  <2>5. \A u \in Shown' : u \in Held(store') /\ store'.ver[u].data = Current'[u]
    BY <1>2, <1>4, <2>2 DEF Listed
  <2> QED BY <1>3, <1>4, <2>3, <2>4, <2>5 DEF KeptInMemory
<1>10. KeptOnDisk'
  BY <1>2 DEF KeptOnDisk, Durable
<1> QED BY <1>6, <1>7, <1>8, <1>9, <1>10 DEF OriginInv

LEMMA DiscardOK ==
    ASSUME OriginInv, UNCHANGED setup, Discard
    PROVE  OriginInv'
<1> DEFINE v == pub.version
<1>1. Shape /\ PubShape /\ Numbers
  BY DEF OriginInv, Shape
<1>2. /\ pub.at = "discard" /\ v \in Names /\ pub.data \in Contents
      /\ pub.mode = "ram" /\ pub.mode \in setup.modes /\ pub \in Publications
      /\ store' = store /\ dist' = dist
      /\ listedEver' = listedEver /\ returned' = returned
  BY <1>1 DEF Discard, PubShape
<1>3. /\ pub'.at = "retire" /\ pub'.version = v /\ pub'.data = pub.data
      /\ pub'.mode = "ram" /\ pub'.evicted = pub.evicted
      /\ pub'.removed = pub.removed /\ pub' \in Publications'
  BY <1>2 DEF Discard, Publications, Places
<1>4. PICK left \in SUBSET (IF setup.errors THEN pub.evicted ELSE {}) :
         disk' = [u \in Names |->
                    IF u \in pub.evicted \ left THEN NoDir ELSE disk[u]]
  BY DEF Discard
<1>5. /\ Listed' = Listed /\ Made' = Made \ (pub.evicted \ left)
      /\ Shown = Listed /\ Current = dist /\ Shown' = Listed /\ Current' = dist
  <2>1. Made' = Made \ (pub.evicted \ left)
    BY <1>4 DEF Made, NoDir
  <2> QED BY <1>2, <1>3, <2>1 DEF Listed, Current, Shown
<1>6. /\ v \in Listed /\ v \in Made' /\ v \in Nat
      /\ \A u \in InUse \cup listedEver \cup Shown : u <= v
  BY <1>1, <1>2, <1>5, NamesAreNumbers DEF Numbers
<1>7. Shape'
  <2>1. PubShape'
    BY <1>2, <1>3 DEF PubShape
  <2>2. disk' \in [Names -> Dirs]
    BY <1>1, <1>4 DEF Shape, Dirs, NoDir
  <2>3. \A u \in Names : ~disk'[u].made => disk'[u] = NoDir
    BY <1>1, <1>4 DEF Shape
  <2> QED BY <1>1, <1>2, <1>5, <2>1, <2>2, <2>3 DEF Shape
<1>8. Numbers'
  <2>1. InUse' \subseteq InUse
    BY <1>2, <1>5 DEF InUse
  <2>2. \A u \in InUse' \cup listedEver' \cup Shown' : u <= v
    BY <1>2, <1>5, <1>6, <2>1
  <2>3. \A u \in listedEver' : \E w \in Made' : u <= w
    BY <1>6, <2>2
  <2>4. /\ v \notin pub'.evicted \cup pub'.removed
        /\ Held(store') \cap pub'.evicted = {} /\ Shown' \cap pub'.removed = {}
    BY <1>1, <1>2, <1>3, <1>5 DEF Numbers
  <2> QED BY <1>3, <1>5, <1>6, <2>2, <2>3, <2>4 DEF Numbers
<1>9. NewestIsListed'
  BY <1>2, <1>5 DEF OriginInv, NewestIsListed
<1>10. KeptInMemory'
  <2> SUFFICES ASSUME FaultFree, setup.modes = {"ram"}
               PROVE  KeptInMemory'
    BY DEF KeptInMemory, FaultFree
  <2>1. left = {}
    BY DEF FaultFree
  <2>2. Pending = pub.removed \cup pub.evicted /\ Pending' = pub.removed
    BY <1>2, <1>3 DEF Pending
  <2>3. /\ Held(store) \cup Made \subseteq Listed \cup Pending
        /\ Cardinality(Listed) <= MaxFolders
        /\ \A u \in Listed : \/ u \in Held(store) /\ store.ver[u].data = dist[u]
                             \/ u \in pub.evicted
        /\ Listed \cap pub.evicted = {}
    BY <1>2, <1>5 DEF OriginInv, KeptInMemory
  <2>4. Held(store) \cap pub.evicted = {}
    BY <1>1, <1>2 DEF Numbers
  <2>5. Held(store') \cup Made' \subseteq Shown' \cup Pending'
    BY <1>2, <1>5, <2>1, <2>2, <2>3, <2>4
  <2> QED BY <1>2, <1>3, <1>5, <2>3, <2>5 DEF KeptInMemory
<1>11. KeptOnDisk'
  BY <1>2 DEF KeptOnDisk, Durable
<1> QED BY <1>7, <1>8, <1>9, <1>10, <1>11 DEF OriginInv

LEMMA RetireOK ==
    ASSUME OriginInv, UNCHANGED setup, Retire
    PROVE  OriginInv'
<1> DEFINE v == pub.version
           x == Min(pub.removed)
<1>1. Shape /\ PubShape /\ Numbers
  BY DEF OriginInv, Shape
<1>2. /\ pub.at = "retire" /\ v \in Names /\ pub.data \in Contents
      /\ pub.mode \in setup.modes /\ pub \in Publications
      /\ pub.removed \in SUBSET Names /\ pub.removed # {}
      /\ store' = Drop(store, x) /\ dist' = dist
      /\ disk' = [disk EXCEPT ![x] = NoDir]
      /\ listedEver' = listedEver /\ returned' = returned
      /\ disk \in [Names -> Dirs]
  BY <1>1 DEF Retire, PubShape, Publications, Shape
<1>3. pub' = [pub EXCEPT !.removed = @ \ {x}]
  BY DEF Retire
<1>4. x \in pub.removed
  <2>1. pub.removed \in SUBSET Nat
    BY <1>2, NamesAreNumbers
  <2> QED BY <1>2, <2>1, MinOK
<1> HIDE DEF x
<1>5. /\ pub'.at = "retire" /\ pub'.version = v /\ pub'.data = pub.data
      /\ pub'.mode = pub.mode /\ pub'.evicted = pub.evicted
      /\ pub'.removed = pub.removed \ {x} /\ pub' \in Publications'
  BY <1>2, <1>3 DEF Publications, Places
<1>6. /\ Consistent(store') /\ Exact(store')
      /\ Held(store') = Held(store) \ {x}
      /\ \A n \in Held(store') : store'.ver[n] = store.ver[n]
  BY <1>1, <1>2, <1>4, DropOK DEF Shape
<1>7. /\ Listed' = Listed /\ Made' = Made \ {x}
      /\ Shown = Listed /\ Current = dist /\ Shown' = Listed /\ Current' = dist
  <2>1. Made' = Made \ {x}
    BY <1>2, <1>4 DEF Made, NoDir
  <2> QED BY <1>2, <1>5, <2>1 DEF Listed, Current, Shown
<1>8. /\ v \in Listed /\ v \in Made' /\ v \in Nat /\ x \notin Listed
      /\ \A u \in InUse \cup listedEver \cup Shown : u <= v
  BY <1>1, <1>2, <1>4, <1>7, NamesAreNumbers DEF Numbers
<1>9. Shape'
  <2>1. PubShape'
    BY <1>2, <1>5 DEF PubShape
  <2>2. disk' \in [Names -> Dirs]
    BY <1>2 DEF Dirs, NoDir
  <2>3. \A u \in Names : ~disk'[u].made => disk'[u] = NoDir
    BY <1>1, <1>2 DEF Shape
  <2>4. \A u \in Held(store') : store'.ver[u].data # None
    BY <1>1, <1>6 DEF Shape
  <2> QED BY <1>1, <1>2, <1>6, <1>7, <2>1, <2>2, <2>3, <2>4 DEF Shape
<1>10. Numbers'
  <2>1. InUse' \subseteq InUse
    BY <1>6, <1>7 DEF InUse
  <2>2. \A u \in InUse' \cup listedEver' \cup Shown' : u <= v
    BY <1>2, <1>7, <1>8, <2>1
  <2>3. \A u \in listedEver' : \E w \in Made' : u <= w
    BY <1>8, <2>2
  <2>4. /\ v \notin pub'.evicted \cup pub'.removed
        /\ Held(store') \cap pub'.evicted = {} /\ Shown' \cap pub'.removed = {}
    BY <1>1, <1>2, <1>5, <1>6, <1>7 DEF Numbers
  <2> QED BY <1>5, <1>7, <1>8, <2>2, <2>3, <2>4 DEF Numbers
<1>11. NewestIsListed'
  BY <1>2, <1>7 DEF OriginInv, NewestIsListed
<1>12. KeptInMemory'
  <2> SUFFICES ASSUME FaultFree, setup.modes = {"ram"}
               PROVE  KeptInMemory'
    BY DEF KeptInMemory, FaultFree
  <2>1. Pending = pub.removed /\ Pending' = pub.removed \ {x}
    BY <1>2, <1>5 DEF Pending
  <2>2. /\ Held(store) \cup Made \subseteq Listed \cup pub.removed
        /\ Cardinality(Listed) <= MaxFolders
        /\ \A u \in Listed : \/ u \in Held(store) /\ store.ver[u].data = dist[u]
                             \/ u \in pub.evicted
        /\ Listed \cap pub.evicted = {}
    BY <1>2, <1>7, <2>1 DEF OriginInv, KeptInMemory
  <2>3. Held(store') \cup Made' \subseteq Shown' \cup Pending'
    BY <1>6, <1>7, <2>1, <2>2
  <2>4. \A u \in Shown' : u \in Held(store') /\ store'.ver[u].data = Current'[u]
    BY <1>6, <1>7, <1>8, <2>2
  <2> QED BY <1>5, <1>7, <2>2, <2>3, <2>4 DEF KeptInMemory
<1>13. KeptOnDisk'
  <2> SUFFICES ASSUME Durable
               PROVE  KeptOnDisk'
    BY DEF KeptOnDisk, Durable
  <2>1. \A u \in Listed : disk'[u] = disk[u]
    BY <1>2, <1>8 DEF Listed
  <2>2. \A u \in Listed : /\ disk[u].data = dist[u]
                          /\ disk[u].files = Shards(dist[u])
                          /\ u \in Held(store) => store.ver[u].data = dist[u]
    BY <1>7 DEF OriginInv, KeptOnDisk
  <2> QED BY <1>5, <1>6, <1>7, <2>1, <2>2 DEF KeptOnDisk
<1> QED BY <1>9, <1>10, <1>11, <1>12, <1>13 DEF OriginInv

LEMMA ReturnOK ==
    ASSUME OriginInv, UNCHANGED setup, Return
    PROVE  OriginInv'
<1> DEFINE v == pub.version
<1>1. Shape /\ PubShape /\ Numbers
  BY DEF OriginInv, Shape
<1>2. /\ pub.at = "retire" /\ v \in Names /\ pub.removed = {}
      /\ store' = store /\ disk' = disk /\ dist' = dist
      /\ listedEver' = listedEver /\ returned' = returned \cup {v}
      /\ pub' = Idle
  BY <1>1 DEF Return, PubShape
<1>3. /\ pub'.at = "idle" /\ pub'.evicted = {} /\ pub'.removed = {}
      /\ pub' \in Publications'
  BY <1>2 DEF Idle, Publications, Places
<1>4. /\ Listed' = Listed /\ Made' = Made
      /\ Shown = Listed /\ Current = dist /\ Shown' = Listed /\ Current' = dist
  BY <1>2, <1>3 DEF Made, Listed, Current, Shown
<1>5. v \in Listed /\ v \in Nat
  BY <1>1, <1>2, <1>4, NamesAreNumbers DEF Numbers
<1>6. Shape'
  <2>1. PubShape'
    BY <1>2, <1>3 DEF PubShape
  <2> QED BY <1>1, <1>2, <1>4, <1>5, <2>1 DEF Shape
<1>7. Numbers'
  <2>1. InUse' = InUse
    BY <1>2, <1>4 DEF InUse
  <2> QED BY <1>1, <1>2, <1>3, <1>4, <2>1 DEF Numbers
<1>8. NewestIsListed'
  BY <1>2, <1>4, <1>5 DEF OriginInv, NewestIsListed
<1>9. KeptInMemory'
  <2> SUFFICES ASSUME FaultFree, setup.modes = {"ram"}
               PROVE  KeptInMemory'
    BY DEF KeptInMemory, FaultFree
  <2>1. Pending = {} /\ Pending' = {}
    BY <1>2, <1>3 DEF Pending
  <2> QED BY <1>2, <1>3, <1>4, <2>1 DEF OriginInv, KeptInMemory
<1>10. KeptOnDisk'
  BY <1>2, <1>3, <1>4 DEF OriginInv, KeptOnDisk, Durable
<1> QED BY <1>6, <1>7, <1>8, <1>9, <1>10 DEF OriginInv

(* A publication that stops between two of its steps, with its process     *)
(* (Restart) or without (Raise): what the list names is still there.       *)
LEMMA StopOK ==
    ASSUME OriginInv, UNCHANGED <<setup, dist, listedEver, returned>>, pub' = Idle,
           setup.errors \/ setup.crashes,
           Consistent(store'), Exact(store'), Held(store') \subseteq Held(store),
           \A n \in Held(store') : store'.ver[n] = store.ver[n],
           disk' \in [Names -> Dirs],
           \A u \in Names : ~disk'[u].made => disk'[u] = NoDir,
           Made \subseteq Made', \E b \in Nat : \A u \in Made' : u <= b,
           \A u \in Listed : disk'[u] = disk[u]
    PROVE  OriginInv'
<1>1. Shape /\ PubShape /\ Numbers
  BY DEF OriginInv, Shape
<1>2. /\ pub'.at = "idle" /\ pub'.evicted = {} /\ pub'.removed = {}
      /\ pub' \in Publications'
  BY DEF Idle, Publications, Places
<1>3. Listed' = Listed /\ Shown' = Listed /\ Current' = dist
  BY <1>2 DEF Listed, Current, Shown
<1>4. Shape'
  <2>1. PubShape'
    BY <1>2 DEF PubShape
  <2>2. \A u \in Held(store') : store'.ver[u].data # None
    BY <1>1 DEF Shape
  <2> QED BY <1>1, <1>3, <2>1, <2>2 DEF Shape
<1>5. Numbers'
  <2>1. PICK b \in Nat : \A u \in Made' : u <= b
    OBVIOUS
  <2>2. PICK c \in Nat : \A u \in InUse : u <= c
    BY <1>1 DEF Numbers
  <2>3. \A u \in InUse' : u \in Nat /\ u <= b + c
    <3>1. \A u \in InUse' : u \in Made' \/ u \in InUse
      BY <1>3 DEF InUse
    <3>2. \A u \in InUse' : u \in Nat
      BY NamesAreNumbers DEF InUse, Held, Listed, Made
    <3> QED BY <2>1, <2>2, <3>1, <3>2
  <2>4. \A u \in listedEver' : \E w \in Made' : u <= w
    BY <1>1 DEF Numbers
  <2>5. b + c \in Nat
    OBVIOUS
  <2> QED BY <1>2, <2>3, <2>4, <2>5 DEF Numbers
<1>6. NewestIsListed'
  BY <1>3 DEF OriginInv, NewestIsListed
<1>7. KeptInMemory'
  BY DEF KeptInMemory, FaultFree
<1>8. KeptOnDisk'
  <2> SUFFICES ASSUME Durable
               PROVE  KeptOnDisk'
    BY DEF KeptOnDisk, Durable
  <2>1. Listed = {} \/ (Shown = Listed /\ Current = dist)
    BY <1>1 DEF PubShape, Shown, Current, Listed
  <2>2. \A u \in Listed : /\ disk[u].data = dist[u]
                          /\ disk[u].files = Shards(dist[u])
                          /\ u \in Held(store) => store.ver[u].data = dist[u]
    BY <2>1 DEF OriginInv, KeptOnDisk
  <2> QED BY <1>2, <1>3, <2>2 DEF KeptOnDisk
<1> QED BY <1>4, <1>5, <1>6, <1>7, <1>8 DEF OriginInv

LEMMA RaiseOK ==
    ASSUME OriginInv, UNCHANGED setup, Raise
    PROVE  OriginInv'
<1> DEFINE v == pub.version
           x == Min(pub.removed)
<1>1. Shape /\ PubShape /\ Numbers
  BY DEF OriginInv, Shape
<1>2. /\ setup.errors /\ pub' = Idle /\ pub.at # "idle"
      /\ UNCHANGED <<setup, dist, listedEver, returned>>
      /\ disk \in [Names -> Dirs] /\ pub.removed \in SUBSET Names
      /\ v \in Names
      /\ Consistent(store) /\ Exact(store)
  BY <1>1 DEF Raise, Shape, PubShape, Publications
<1>3. \A u \in Names : ~disk[u].made => disk[u] = NoDir
  BY <1>1 DEF Shape
<1>4. \E b \in Nat : \A u \in Made : u <= b
  BY <1>1 DEF Numbers, InUse
<1>5. CASE UNCHANGED <<store, disk>>
  <2>1. Made' = Made
    BY <1>5 DEF Made
  <2> QED BY <1>2, <1>3, <1>4, <1>5, <2>1, StopOK
<1>6. CASE /\ pub.at = "manifest"
           /\ disk' = [disk EXCEPT ![v].made = TRUE]
           /\ UNCHANGED store
  <2>1. /\ disk' \in [Names -> Dirs] /\ disk'[v].made
        /\ \A u \in Names \ {v} : disk'[u] = disk[u]
    BY <1>2, <1>6 DEF Dirs
  <2>2. Made' = Made \cup {v}
    BY <1>2, <2>1 DEF Made
  <2>3. \A u \in Made' : u <= v
    BY <1>1, <1>2, <2>2, NamesAreNumbers DEF Numbers, InUse
  <2>4. v \notin Listed /\ v \in Nat
    BY <1>1, <1>2, <1>6, NamesAreNumbers DEF Numbers, Shape
  <2>5. \A u \in Listed : disk'[u] = disk[u]
    BY <2>1, <2>4 DEF Listed
  <2>6. \A u \in Names : ~disk'[u].made => disk'[u] = NoDir
    BY <1>3, <2>1
  <2> QED BY <1>2, <1>6, <2>1, <2>2, <2>3, <2>4, <2>5, <2>6, StopOK
<1>7. CASE /\ pub.at = "retire" /\ pub.removed # {}
           /\ store' = Drop(store, x)
           /\ disk' = [disk EXCEPT ![x].files = 0, ![x].manifest = FALSE]
  <2>1. x \in pub.removed
    <3>1. pub.removed \in SUBSET Nat
      BY <1>2, NamesAreNumbers
    <3> QED BY <1>7, <3>1, MinOK
  <2> HIDE DEF x
  <2>2. x \in Names
    BY <1>2, <2>1
  <2>3. /\ disk' \in [Names -> Dirs] /\ disk'[x].made = disk[x].made
        /\ \A u \in Names \ {x} : disk'[u] = disk[u]
        /\ disk'[x].data = disk[x].data
        /\ disk'[x].files = 0 /\ disk'[x].manifest = FALSE
    <3>1. disk \in [Names -> Dirs]
      BY <1>2
    <3>2. disk' = [disk EXCEPT ![x].files = 0, ![x].manifest = FALSE]
      BY <1>7
    <3> QED BY <2>2, <3>1, <3>2 DEF Dirs
  <2>4. Made' = Made
    BY <2>2, <2>3 DEF Made
  <2>5. x \notin Listed
    <3>1. Shown = Listed /\ Shown \cap pub.removed = {}
      BY <1>1, <1>7, ShownIsListed DEF Numbers
    <3> QED BY <2>1, <3>1
  <2>6. \A u \in Listed : disk'[u] = disk[u]
    BY <2>3, <2>5 DEF Listed
  <2>7. \A u \in Names : ~disk'[u].made => disk'[u] = NoDir
    <3>1. ASSUME ~disk'[x].made PROVE disk'[x] = NoDir
      <4>1. disk[x] = NoDir
        BY <1>3, <2>2, <2>3, <3>1
      <4>2. disk'[x].made = FALSE /\ disk'[x].data = None
        BY <2>3, <4>1 DEF NoDir
      <4>3. disk'[x] \in Dirs
        BY <2>2, <2>3
      <4> QED BY <2>3, <4>2, <4>3 DEF Dirs, NoDir
    <3> QED BY <1>3, <2>3, <3>1
  <2>8. /\ Consistent(store') /\ Exact(store')
        /\ Held(store') \subseteq Held(store)
        /\ \A n \in Held(store') : store'.ver[n] = store.ver[n]
    BY <1>2, <1>7, <2>2, DropOK
  <2> QED BY <1>2, <1>4, <2>3, <2>4, <2>6, <2>7, <2>8, StopOK
<1> QED BY <1>5, <1>6, <1>7 DEF Raise

LEMMA RestartOK ==
    ASSUME OriginInv, UNCHANGED setup, Restart
    PROVE  OriginInv'
<1>1. Shape /\ Numbers
  BY DEF OriginInv
<1>2. /\ setup.crashes /\ pub' = Idle /\ store' = EmptyStore /\ disk' = disk
      /\ UNCHANGED <<setup, dist, listedEver, returned>>
  BY DEF Restart
<1>3. Held(store') = {} /\ Consistent(store') /\ Exact(store')
  BY <1>2, EmptyStoreOK DEF Held, EmptyStore
<1>4. Made' = Made
  BY <1>2 DEF Made
<1>5. \E b \in Nat : \A u \in Made : u <= b
  BY <1>1 DEF Numbers, InUse
<1>6. /\ disk' \in [Names -> Dirs]
      /\ \A u \in Names : ~disk'[u].made => disk'[u] = NoDir
  BY <1>1, <1>2 DEF Shape
<1> QED BY <1>2, <1>3, <1>4, <1>5, <1>6, StopOK

LEMMA NextOrigin == OriginInv /\ [Next]_vars => OriginInv'
<1> SUFFICES ASSUME OriginInv, [Next]_vars PROVE OriginInv'
  OBVIOUS
<1>1. CASE UNCHANGED vars
  <2>1. /\ Listed' = Listed /\ Made' = Made /\ Current' = Current
        /\ Shown' = Shown /\ InUse' = InUse /\ Pending' = Pending
        /\ Publications' = Publications
        /\ FaultFree' = FaultFree /\ Durable' = Durable
    BY <1>1 DEF vars, Listed, Made, Current, Shown, InUse, Pending, Publications,
                FaultFree, Durable
  <2>2. Shape'
    BY <1>1, <2>1 DEF vars, OriginInv, Shape, PubShape
  <2>3. Numbers' /\ NewestIsListed'
    BY <1>1, <2>1 DEF vars, OriginInv, Numbers, NewestIsListed
  <2>4. KeptInMemory' /\ KeptOnDisk'
    BY <1>1, <2>1 DEF vars, OriginInv, KeptInMemory, KeptOnDisk
  <2> QED BY <2>2, <2>3, <2>4 DEF OriginInv
<1>2. ASSUME NEW c \in Contents, BroadcastLegacy(c), UNCHANGED setup
      PROVE  OriginInv'
  BY <1>2, BroadcastLegacyOK
<1>3. ASSUME NEW c \in Contents, NEW mode \in setup.modes,
             BroadcastBuffer(c, mode), UNCHANGED setup
      PROVE  OriginInv'
  BY <1>3, BroadcastBufferOK
<1> QED BY <1>1, <1>2, <1>3, WriteManifestOK, WriteShardOK, ShardsWrittenOK,
           OpenListOK, WriteListOK, DelistOK, DiscardOK, RetireOK, ReturnOK,
           RaiseOK, RestartOK
        DEF Next

-----------------------------------------------------------------------------
(* Every reachable state satisfies the inductive invariant. *)
THEOREM OriginInvariant == Spec => []OriginInv
BY InitOrigin, NextOrigin, PTL DEF Spec

(* The state of the origin keeps its type; in particular the store never   *)
(* counts more than ram_cache_bytes, whatever is published, evicted or     *)
(* retired.                                                                *)
THEOREM OriginTypeCorrect == Spec => []TypeOK
<1>1. OriginInv => TypeOK
  <2> SUFFICES ASSUME OriginInv PROVE TypeOK
    OBVIOUS
  <2>1. Shape
    BY DEF OriginInv
  <2>2. store.used \in 0 .. Capacity
    <3>1. store.used = Cardinality(AllCells(store)) /\ store.used <= Capacity
      BY <2>1 DEF Shape, Exact
    <3>2. Cardinality(AllCells(store)) \in Nat
      BY <2>1, FS_CardinalityType DEF Shape, Consistent
    <3> QED BY <3>1, <3>2, CapacityAssumption
  <2>3. store \in [order : Seq(Names), ver : [Names -> StoredVersion \cup {None}],
                   used : 0 .. Capacity]
    BY <2>1, <2>2 DEF Shape, Consistent, Keys, Stores
  <2> QED BY <2>1, <2>3 DEF Shape, PubShape, Publications, Dirs, TypeOK
<1> QED BY <1>1, OriginInvariant, PTL

(* _next_version never gives a number that readers have seen, across       *)
(* failed publications and restarts that lose the store and the list.      *)
THEOREM NumbersAreNeverReused == Spec => []NumbersAreFresh
<1>1. OriginInv => NumbersAreFresh
  BY DEF OriginInv, Numbers, NumbersAreFresh
<1> QED BY <1>1, OriginInvariant, PTL

(* A list that is not empty names the newest published version. *)
THEOREM ListsAreCurrent == Spec => []NewestIsListed
<1>1. OriginInv => NewestIsListed
  BY DEF OriginInv
<1> QED BY <1>1, OriginInvariant, PTL

(* A listed version can be downloaded with the digest the list gives:      *)
(* across failures and restarts when every publication writes its files,   *)
(* without faults when the origin is memory-only.                          *)
THEOREM ListedVersionsAreServable == Spec => []ListedIsServable
<1>1. OriginInv => ListedIsServable
  <2> SUFFICES ASSUME OriginInv, Durable \/ (FaultFree /\ setup.modes = {"ram"}),
                      NEW v \in Listed
               PROVE  Servable(v) \/ (pub.mode = "ram" /\ v \in pub.evicted)
    BY DEF ListedIsServable
  <2>1. Shape /\ PubShape /\ v \in Names /\ dist[v] # None
    BY DEF OriginInv, Shape, Listed
  <2>2. Shown = Listed /\ Current = dist
    BY <2>1, ShownIsListed DEF PubShape
  <2>3. ASSUME v \in Held(store), store.ver[v].data = dist[v] PROVE Servable(v)
    BY <2>1, <2>3
       DEF Held, Servable, ServedFromStore, Served, IsComplete
  <2>4. CASE Durable
    <3>1. /\ disk[v].data = dist[v] /\ disk[v].files = Shards(dist[v])
          /\ v \in Held(store) => store.ver[v].data = dist[v]
      BY <2>2, <2>4 DEF OriginInv, KeptOnDisk
    <3>2. ASSUME v \notin Held(store) PROVE Servable(v)
      BY <2>1, <3>1, <3>2
         DEF Held, Servable, ServedFromStore, ServedFromDisk, Served
    <3> QED BY <2>3, <3>1, <3>2
  <2>5. CASE FaultFree /\ setup.modes = {"ram"}
    <3>1. \/ v \in Held(store) /\ store.ver[v].data = dist[v]
          \/ v \in pub.evicted
      BY <2>2, <2>5 DEF OriginInv, KeptInMemory
    <3>2. v \in pub.evicted => pub.mode = "ram"
      BY <2>1, <2>5 DEF PubShape, Idle
    <3> QED BY <2>3, <3>1, <3>2
  <2> QED BY <2>4, <2>5
<1> QED BY <1>1, OriginInvariant, PTL

(* A memory-only origin without faults keeps nothing that is not listed,   *)
(* and lists no more than max_distribution_folders versions.               *)
THEOREM NothingStaysBehind == Spec => []NothingIsLeftOver
<1>1. OriginInv => NothingIsLeftOver
  <2> SUFFICES ASSUME OriginInv, FaultFree, pub = Idle, setup.modes = {"ram"}
               PROVE  /\ Held(store) \cup Made \subseteq Listed
                      /\ Cardinality(Listed) <= MaxFolders
    BY DEF NothingIsLeftOver, Made
  <2>1. Shown = Listed /\ Pending = {}
    BY ShownIsListed DEF Idle, Pending
  <2> QED BY <2>1 DEF OriginInv, KeptInMemory
<1> QED BY <1>1, OriginInvariant, PTL
=============================================================================
