--------------------------- MODULE StoreOpsProofs ---------------------------
(***************************************************************************)
(* Lemmas about the methods of CheckpointStore (litecast/store.py) as      *)
(* functions on store values, for every set of names, every content and    *)
(* every capacity: what each of them keeps, and what it does to the        *)
(* account of the bytes and to the order of the versions.                  *)
(*                                                                         *)
(* Consistent is the invariant of a store: the type, with the OrderedDict's*)
(* keys the held versions, the retained cells finite and their number      *)
(* bounded by both _size and the capacity.  Exact adds what holds when no  *)
(* caller puts a shard into a version that is held complete.               *)
(***************************************************************************)
EXTENDS StoreOps, FiniteSetTheorems, WellFoundedInduction, TLAPS

VersionOK(v) ==
    /\ v.shards \subseteq 0 .. (ShardCount(v.meta) - 1)
    /\ v.data # None => v.meta.total = Size[v.data]

Keys(s) ==
    /\ s \in Stores
    /\ Oldest(s, Len(s.order)) = Held(s)
    /\ \A j, k \in 1 .. Len(s.order) : s.order[j] = s.order[k] => j = k
    /\ \A n \in Held(s) : VersionOK(s.ver[n])

AllCells(s) == Retained(s, Held(s))

Consistent(s) ==
    /\ Keys(s)
    /\ IsFiniteSet(AllCells(s))
    /\ Cardinality(AllCells(s)) <= s.used
    /\ Cardinality(AllCells(s)) <= Capacity

Exact(s) ==
    /\ \A n \in Held(s) : s.ver[n].data # None => s.ver[n].shards = {}
    /\ s.used = Cardinality(AllCells(s))
    /\ s.used <= Capacity

-----------------------------------------------------------------------------
(* The least number of versions to pop exists: the loops terminate. *)
LEMMA EvictCountExists ==
    ASSUME NEW s, NEW limit \in Nat, NEW extra
    PROVE  LET k == EvictCount(s, limit, extra)
           IN /\ k \in 0 .. limit
              /\ k = limit \/ Fits(s, k, extra)
              /\ \A j \in 0 .. (k - 1) : ~Fits(s, j, extra)
<1> DEFINE T == {k \in 0 .. limit : k = limit \/ Fits(s, k, extra)}
           R == OpToRel(<, Nat)
<1>1. PICK x \in T : \A y \in T : ~(<<y, x>> \in R)
  <2>1. limit \in T /\ T \subseteq Nat
    OBVIOUS
  <2> QED BY <2>1, WFMin, NatLessThanWellFounded
<1>2. \A y \in T : ~(y < x)
  BY <1>1, x \in Nat, T \subseteq Nat DEF OpToRel
<1>3. /\ x = limit \/ Fits(s, x, extra)
      /\ \A j \in 0 .. (x - 1) : ~Fits(s, j, extra)
  BY <1>2
<1> QED BY <1>3 DEF EvictCount

(* A version's counted bytes are among the retained ones. *)
LEMMA CountedIsRetained ==
    ASSUME NEW s, NEW S
    PROVE  Counted(s, S) \subseteq Retained(s, S)
BY DEF Counted, Retained, CountedCells, RetainedCells

(* Without shards beside a complete buffer the two coincide. *)
LEMMA CountedEqualsRetained ==
    ASSUME NEW s, NEW S,
           \A n \in S : s.ver[n].data # None => s.ver[n].shards = {}
    PROVE  Counted(s, S) = Retained(s, S)
<1>1. ASSUME NEW n \in S PROVE CountedCells(s.ver[n]) = RetainedCells(s.ver[n])
  BY <1>1 DEF CountedCells, RetainedCells, DataCells, ShardsCells
<1> QED BY <1>1 DEF Counted, Retained

(* The cells of different versions are disjoint. *)
LEMMA RetainedSplit ==
    ASSUME NEW s, NEW S, NEW T \in SUBSET S
    PROVE  /\ Retained(s, S \ T) = Retained(s, S) \ Retained(s, T)
           /\ Retained(s, T) \subseteq Retained(s, S)
BY DEF Retained

(* What giving back the bytes of a set S of versions does to the account. *)
LEMMA GiveBack ==
    ASSUME NEW s, Consistent(s), NEW S \in SUBSET Held(s)
    PROVE  /\ IsFiniteSet(Retained(s, Held(s) \ S))
           /\ Cardinality(Counted(s, S)) \in Nat
           /\ Cardinality(Retained(s, Held(s) \ S))
                 <= s.used - Cardinality(Counted(s, S))
           /\ Cardinality(Retained(s, Held(s) \ S)) <= Capacity
           /\ Exact(s) => Cardinality(Retained(s, Held(s) \ S))
                             = s.used - Cardinality(Counted(s, S))
<1> DEFINE A == AllCells(s)
           B == Retained(s, S)
           C == Counted(s, S)
<1>1. /\ Retained(s, Held(s) \ S) = A \ B
      /\ B \subseteq A
      /\ C \subseteq B
  BY RetainedSplit, CountedIsRetained DEF AllCells
<1>2. IsFiniteSet(A) /\ Cardinality(A) \in Nat
  BY FS_CardinalityType DEF Consistent
<1>3. /\ IsFiniteSet(B) /\ Cardinality(B) \in Nat
      /\ IsFiniteSet(C) /\ Cardinality(C) \in Nat
      /\ Cardinality(C) <= Cardinality(B)
  BY <1>1, <1>2, FS_Subset, FS_CardinalityType
<1>4. /\ IsFiniteSet(A \ B)
      /\ Cardinality(A \ B) = Cardinality(A) - Cardinality(B)
  <2>1. A \cap B = B
    BY <1>1
  <2> QED BY <2>1, <1>2, FS_Difference
<1>5. s.used \in Int /\ Capacity \in Nat
  BY CapacityAssumption DEF Consistent, Keys, Stores
<1>6. Exact(s) => B = C
  BY CountedEqualsRetained DEF Exact
<1>7. Cardinality(A) <= s.used /\ Cardinality(A) <= Capacity
  BY DEF Consistent
<1>8. Exact(s) => s.used = Cardinality(A)
  BY DEF Exact
<1> HIDE DEF A, B, C
<1>9. /\ Cardinality(A \ B) <= s.used - Cardinality(C)
      /\ Cardinality(A \ B) <= Capacity
  BY <1>2, <1>3, <1>4, <1>5, <1>7
<1>10. Exact(s) => Cardinality(A \ B) = s.used - Cardinality(C)
  BY <1>2, <1>3, <1>4, <1>5, <1>6, <1>8
<1> QED BY <1>1, <1>3, <1>4, <1>9, <1>10 DEF A, B, C

-----------------------------------------------------------------------------
(* Popping the k oldest versions keeps the store consistent. *)
LEMMA EvictOldestOK ==
    ASSUME NEW s, Consistent(s), NEW k \in 0 .. Len(s.order)
    PROVE  LET e == EvictOldest(s, k)
           IN /\ Consistent(e)
              /\ Exact(s) => Exact(e)
              /\ Held(e) = Held(s) \ Oldest(s, k)
              /\ \A n \in Held(e) : e.ver[n] = s.ver[n]
              /\ k = Len(s.order) => AllCells(e) = {}
<1> DEFINE e == EvictOldest(s, k)
           S == Oldest(s, k)
           n0 == Len(s.order)
<1>1. /\ s \in Stores /\ s.order \in Seq(Names) /\ n0 \in Nat
      /\ Oldest(s, n0) = Held(s)
      /\ \A i, j \in 1 .. n0 : s.order[i] = s.order[j] => i = j
      /\ \A n \in Held(s) : VersionOK(s.ver[n])
      /\ s.used \in Int
      /\ s.ver \in [Names -> StoredVersion \cup {None}]
  BY DEF Consistent, Keys, Stores
<1>2. S \subseteq Held(s)
  BY <1>1 DEF Oldest
<1>3. Held(e) = Held(s) \ S
  BY DEF Held, EvictOldest
<1>4. \A n \in Held(e) : e.ver[n] = s.ver[n]
  BY <1>3 DEF Held, EvictOldest
<1>5. AllCells(e) = Retained(s, Held(s) \ S)
  BY <1>3, <1>4 DEF AllCells, Retained
<1>6. /\ Len(e.order) = n0 - k
      /\ \A i \in 1 .. (n0 - k) : e.order[i] = s.order[i + k]
      /\ e.order \in Seq(Names)
  BY <1>1 DEF EvictOldest
<1>7. Keys(e)
  <2>1. e \in Stores
    <3>1. e.used \in Int
      <4>1. Cardinality(Counted(s, S)) \in Nat
        BY <1>2, GiveBack
      <4>2. e.used = s.used - Cardinality(Counted(s, S))
        BY DEF EvictOldest
      <4> QED BY <1>1, <4>1, <4>2
    <3>2. e.ver \in [Names -> StoredVersion \cup {None}]
      BY <1>1 DEF EvictOldest
    <3> QED BY <1>6, <3>1, <3>2 DEF Stores, EvictOldest
  <2>2. Oldest(e, Len(e.order)) = Held(e)
    <3>1. ASSUME NEW n \in Held(s) \ S PROVE n \in Oldest(e, n0 - k)
      <4>1. PICK j \in 1 .. n0 : s.order[j] = n
        BY <1>1, <3>1 DEF Oldest
      <4>2. j \notin 1 .. k
        BY <4>1, <3>1 DEF Oldest
      <4>3. j - k \in 1 .. (n0 - k) /\ (j - k) + k = j
        BY <4>1, <4>2, <1>1
      <4> QED BY <4>1, <4>3, <1>6 DEF Oldest
    <3>2. ASSUME NEW i \in 1 .. (n0 - k) PROVE s.order[i + k] \in Held(s) \ S
      <4>1. i + k \in 1 .. n0 /\ i + k \notin 1 .. k
        BY <1>1
      <4> QED BY <4>1, <1>1 DEF Oldest
    <3> QED BY <3>1, <3>2, <1>3, <1>6 DEF Oldest
  <2>3. \A i, j \in 1 .. Len(e.order) : e.order[i] = e.order[j] => i = j
    <3>1. ASSUME NEW i \in 1 .. (n0 - k), NEW j \in 1 .. (n0 - k),
                 s.order[i + k] = s.order[j + k]
          PROVE  i = j
      BY <3>1, <1>1
    <3> QED BY <3>1, <1>6
  <2> QED BY <2>1, <2>2, <2>3, <1>1, <1>3, <1>4 DEF Keys
<1>8. e.used = s.used - Cardinality(Counted(s, S))
  BY DEF EvictOldest
<1>9. Consistent(e)
  BY <1>2, <1>5, <1>7, <1>8, GiveBack DEF Consistent
<1>10. ASSUME Exact(s) PROVE Exact(e)
  <2>1. e.used = Cardinality(AllCells(e))
    BY <1>2, <1>5, <1>8, <1>10, GiveBack
  <2>2. e.used <= Capacity
    BY <2>1, <1>9 DEF Consistent
  <2> QED BY <2>1, <2>2, <1>3, <1>4, <1>10 DEF Exact
<1>11. k = n0 => AllCells(e) = {}
  BY <1>1, <1>5 DEF Retained
<1> QED BY <1>3, <1>4, <1>9, <1>10, <1>11

(* Tagging the elements of a finite set does not change their number. *)
LEMMA TaggedCardinality ==
    ASSUME NEW e, NEW S, IsFiniteSet(S)
    PROVE  IsFiniteSet({e} \X S) /\ Cardinality({e} \X S) = Cardinality(S)
<1>1. IsFiniteSet({e}) /\ Cardinality({e}) = 1
  BY FS_Singleton
<1>2. /\ IsFiniteSet({e} \X S)
      /\ Cardinality({e} \X S) = Cardinality({e}) * Cardinality(S)
  BY <1>1, FS_Product
<1>3. Cardinality(S) \in Nat
  BY FS_CardinalityType
<1> QED BY <1>1, <1>2, <1>3

(* One version's stored_bytes is the number of its counted cells. *)
LEMMA StoredBytesIsCounted ==
    ASSUME NEW s, Consistent(s), NEW name \in Held(s)
    PROVE  StoredBytes(s.ver[name]) = Cardinality(Counted(s, {name}))
<1> DEFINE C == CountedCells(s.ver[name])
<1>1. Counted(s, {name}) = {name} \X C
  BY DEF Counted
<1>2. IsFiniteSet({name} \X C)
  <2>1. {name} \in SUBSET Held(s)
    OBVIOUS
  <2>2. Retained(s, {name}) \subseteq AllCells(s)
    BY <2>1, RetainedSplit DEF AllCells
  <2>3. {name} \X C \subseteq AllCells(s)
    BY <1>1, <2>2, CountedIsRetained
  <2> QED BY <2>3, FS_Subset DEF Consistent
<1>3. IsFiniteSet(C)
  <2> DEFINE f == [c \in C |-> <<name, c>>]
  <2>1. f \in Injection(C, {name} \X C)
    BY DEF Injection, IsInjective
  <2> QED BY <2>1, <1>2, FS_Injection
<1>4. Cardinality({name} \X C) = Cardinality(C)
  BY <1>3, TaggedCardinality
<1>5. s.ver[name] # None
  BY DEF Held
<1> QED BY <1>1, <1>4, <1>5 DEF StoredBytes

(* Popping one version by name keeps the store consistent. *)
LEMMA DropOK ==
    ASSUME NEW s, Consistent(s), NEW name \in Names
    PROVE  LET d == Drop(s, name)
           IN /\ Consistent(d)
              /\ Exact(s) => Exact(d)
              /\ Held(d) = Held(s) \ {name}
              /\ \A n \in Held(d) : d.ver[n] = s.ver[n]
<1> DEFINE d == Drop(s, name)
           n0 == Len(s.order)
           p == Position(s, name)
<1>1. /\ s \in Stores /\ s.order \in Seq(Names) /\ n0 \in Nat
      /\ Oldest(s, n0) = Held(s)
      /\ \A i, j \in 1 .. n0 : s.order[i] = s.order[j] => i = j
      /\ \A n \in Held(s) : VersionOK(s.ver[n])
      /\ s.used \in Int
      /\ s.ver \in [Names -> StoredVersion \cup {None}]
  BY DEF Consistent, Keys, Stores
<1>2. CASE s.ver[name] = None
  <2>1. d = s /\ name \notin Held(s)
    BY <1>2 DEF Drop, Held
  <2> QED BY <2>1
<1>3. CASE s.ver[name] # None
  <2>1. name \in Held(s)
    BY <1>3 DEF Held
  <2>2. p \in 1 .. n0 /\ s.order[p] = name
    <3>1. \E j \in 1 .. n0 : s.order[j] = name
      BY <1>1, <2>1 DEF Oldest
    <3> QED BY <3>1 DEF Position
  <2>3. d = [order |-> Without(s.order, p),
             ver |-> [s.ver EXCEPT ![name] = None],
             used |-> s.used - StoredBytes(s.ver[name])]
    BY <1>3 DEF Drop
  <2>4. d.ver = [s.ver EXCEPT ![name] = None]
    BY <2>3
  <2>5. Held(d) = Held(s) \ {name} /\ \A n \in Held(d) : d.ver[n] = s.ver[n]
    BY <1>1, <2>4 DEF Held
  <2>6. d.used = s.used - Cardinality(Counted(s, {name}))
    BY <2>1, <2>3, StoredBytesIsCounted
  <2>7. {name} \in SUBSET Held(s)
    BY <2>1
  <2>8. AllCells(d) = Retained(s, Held(s) \ {name})
    BY <2>5 DEF AllCells, Retained
  <2> DEFINE q == Without(s.order, p)
  <2>9. /\ q \in Seq(Names)
        /\ Len(q) = n0 - 1
        /\ \A i \in 1 .. (n0 - 1) : q[i] = s.order[IF i < p THEN i ELSE i + 1]
    <3>1. n0 - 1 \in Nat
      BY <1>1, <2>2
    <3>2. ASSUME NEW i \in 1 .. (n0 - 1)
          PROVE  s.order[IF i < p THEN i ELSE i + 1] \in Names
      BY <1>1, <2>2
    <3> QED BY <3>1, <3>2 DEF Without
  <2>10. d.order = q
    BY <2>3
  <2> HIDE DEF q
  <2>11. Keys(d)
    <3>1. d \in Stores
      <4>1. d.used \in Int
        <5>1. Cardinality(Counted(s, {name})) \in Nat
          BY <2>7, GiveBack
        <5> QED BY <1>1, <2>6, <5>1
      <4>2. d.ver \in [Names -> StoredVersion \cup {None}]
        BY <1>1, <2>4
      <4> QED BY <2>3, <2>9, <2>10, <4>1, <4>2 DEF Stores
    <3>2. Oldest(d, Len(d.order)) = Held(d)
      <4>1. ASSUME NEW n \in Held(s) \ {name} PROVE n \in Oldest(d, n0 - 1)
        <5>1. PICK j \in 1 .. n0 : s.order[j] = n
          BY <1>1, <4>1 DEF Oldest
        <5>2. j # p
          BY <5>1, <4>1, <2>2
        <5>3. CASE j < p
          BY <5>1, <5>3, <2>2, <2>9, <2>10, <1>1 DEF Oldest
        <5>4. CASE j > p
          <6>1. j - 1 \in 1 .. (n0 - 1) /\ ~(j - 1 < p) /\ (j - 1) + 1 = j
            BY <5>1, <5>4, <2>2, <1>1
          <6>2. q[j - 1] = s.order[j]
            BY <6>1, <2>9
          <6> QED BY <5>1, <6>1, <6>2, <2>10 DEF Oldest
        <5> QED BY <5>2, <5>3, <5>4, <2>2
      <4>2. ASSUME NEW i \in 1 .. (n0 - 1) PROVE q[i] \in Held(s) \ {name}
        <5> DEFINE j == IF i < p THEN i ELSE i + 1
        <5>1. j \in 1 .. n0 /\ j # p
          BY <1>1, <2>2
        <5>2. q[i] = s.order[j]
          BY <2>9
        <5> QED BY <5>1, <5>2, <1>1, <2>2 DEF Oldest
      <4> QED BY <4>1, <4>2, <2>5, <2>9, <2>10 DEF Oldest
    <3>3. \A i, j \in 1 .. Len(d.order) : d.order[i] = d.order[j] => i = j
      <4>1. ASSUME NEW i \in 1 .. (n0 - 1), NEW j \in 1 .. (n0 - 1), q[i] = q[j]
            PROVE  i = j
        <5> DEFINE f(h) == IF h < p THEN h ELSE h + 1
        <5>1. f(i) \in 1 .. n0 /\ f(j) \in 1 .. n0
          BY <1>1, <2>2
        <5>2. q[i] = s.order[f(i)] /\ q[j] = s.order[f(j)]
          BY <2>9
        <5>3. f(i) = f(j)
          BY <5>1, <5>2, <4>1, <1>1
        <5> QED BY <5>3, <2>2, <1>1
      <4> QED BY <4>1, <2>9, <2>10
    <3> QED BY <3>1, <3>2, <3>3, <1>1, <2>5 DEF Keys
  <2>12. Consistent(d)
    BY <2>6, <2>7, <2>8, <2>11, GiveBack DEF Consistent
  <2>13. ASSUME Exact(s) PROVE Exact(d)
    <3>1. d.used = Cardinality(AllCells(d))
      BY <2>6, <2>7, <2>8, <2>13, GiveBack
    <3>2. d.used <= Capacity
      BY <3>1, <2>12 DEF Consistent
    <3> QED BY <3>1, <3>2, <2>5, <2>13 DEF Exact
  <2> QED BY <2>5, <2>12, <2>13
<1> QED BY <1>2, <1>3

-----------------------------------------------------------------------------
(* Multiplication by a natural number is monotone. *)
LEMMA MulMonotone ==
    ASSUME NEW x \in Nat, NEW y \in Nat, x <= y, NEW z \in Nat
    PROVE  x * z <= y * z
OBVIOUS

(* Every shard a manifest names has at least one byte. *)
LEMMA ShardLengthPositive ==
    ASSUME NEW m \in Metadata, NEW i \in 0 .. (ShardCount(m) - 1)
    PROVE  ShardLength(m, i) \in Nat \ {0}
<1> DEFINE z == m.shard
           q == (m.total + z - 1) \div z
<1>1. z \in Nat \ {0} /\ m.total \in Nat
  BY ShardSizesAssumption DEF Metadata
<1>2. q \in Nat /\ q * z <= m.total + z - 1
  BY <1>1
<1>3. i \in Nat /\ i + 1 <= q
  BY <1>2 DEF ShardCount
<1> HIDE DEF q, z
<1>4. (i + 1) * z <= q * z
  BY <1>1, <1>2, <1>3, MulMonotone
<1>5. (i + 1) * z = i * z + z /\ i * z \in Nat
  BY <1>1, <1>3
<1>6. m.total - i * z > 0
  BY <1>1, <1>2, <1>3, <1>4, <1>5, q * z \in Int
<1> QED BY <1>1, <1>5, <1>6 DEF ShardLength, z

(* The cells of one chunk of one version, counted. *)
LEMMA ChunkCells ==
    ASSUME NEW l \in Nat, NEW I, I = 0 .. (l - 1),
           NEW g, NEW J, J = {g} \X I, NEW e, NEW X, X = {e} \X J
    PROVE  IsFiniteSet(X) /\ Cardinality(X) = l
<1>1. IsFiniteSet(I) /\ Cardinality(I) = l
  <2>1. /\ IsFiniteSet(I)
        /\ Cardinality(I) = IF 0 > l - 1 THEN 0 ELSE (l - 1) - 0 + 1
    <3>1. 0 \in Int /\ l - 1 \in Int
      OBVIOUS
    <3> QED BY <3>1, FS_Interval
  <2> QED BY <2>1
<1>2. IsFiniteSet(J) /\ Cardinality(J) = l
  BY <1>1, TaggedCardinality
<1>3. X = {e} \X J
  OBVIOUS
<1> QED BY ONLY <1>2, <1>3, TaggedCardinality

(* Inserting a version that is not held, as the newest one. *)
LEMMA InsertOK ==
    ASSUME NEW s, Keys(s), NEW name \in Names \ Held(s),
           NEW v \in StoredVersion, VersionOK(v),
           NEW t \in Stores, t.order = Append(s.order, name),
           t.ver = [s.ver EXCEPT ![name] = v]
    PROVE  /\ Keys(t)
           /\ Held(t) = Held(s) \cup {name}
           /\ \A n \in Held(s) : t.ver[n] = s.ver[n]
           /\ AllCells(t) = AllCells(s) \cup ({name} \X RetainedCells(v))
           /\ AllCells(s) \cap ({name} \X RetainedCells(v)) = {}
<1> DEFINE n0 == Len(s.order)
<1>1. /\ s.order \in Seq(Names) /\ n0 \in Nat
      /\ Oldest(s, n0) = Held(s)
      /\ \A i, j \in 1 .. n0 : s.order[i] = s.order[j] => i = j
      /\ \A n \in Held(s) : VersionOK(s.ver[n])
      /\ s.ver \in [Names -> StoredVersion \cup {None}]
  BY DEF Keys, Stores
<1>3. v # None
  BY NoneAssumption
<1>4. /\ Held(t) = Held(s) \cup {name}
      /\ \A n \in Held(s) : t.ver[n] = s.ver[n]
      /\ t.ver[name] = v
  BY <1>1, <1>3 DEF Held
<1>5. /\ Len(t.order) = n0 + 1 /\ t.order \in Seq(Names)
      /\ t.order[n0 + 1] = name
      /\ \A i \in 1 .. n0 : t.order[i] = s.order[i]
  BY <1>1
<1>7. \A i \in 1 .. n0 : s.order[i] \in Held(s)
  BY <1>1 DEF Oldest
<1>8. Oldest(t, n0 + 1) = Held(t)
  <2>1. ASSUME NEW i \in 1 .. (n0 + 1) PROVE t.order[i] \in Held(t)
    <3>1. i \in 1 .. n0 \/ i = n0 + 1
      BY <1>1
    <3> QED BY <3>1, <1>4, <1>5, <1>7
  <2>2. ASSUME NEW n \in Held(s) PROVE n \in Oldest(t, n0 + 1)
    <3>1. PICK i \in 1 .. n0 : s.order[i] = n
      BY <1>1, <2>2 DEF Oldest
    <3>2. i \in 1 .. (n0 + 1) /\ t.order[i] = n
      BY <1>1, <1>5, <3>1
    <3> QED BY <3>2 DEF Oldest
  <2>3. name \in Oldest(t, n0 + 1)
    BY <1>1, <1>5 DEF Oldest
  <2> QED BY <2>1, <2>2, <2>3, <1>4 DEF Oldest
<1>9. ASSUME NEW i \in 1 .. (n0 + 1), NEW j \in 1 .. (n0 + 1),
             t.order[i] = t.order[j]
      PROVE  i = j
  <2>1. (i \in 1 .. n0 \/ i = n0 + 1) /\ (j \in 1 .. n0 \/ j = n0 + 1)
    BY <1>1
  <2> QED BY <2>1, <1>1, <1>5, <1>7, <1>9
<1>10. Keys(t)
  <2>1. \A n \in Held(t) : VersionOK(t.ver[n])
    BY <1>1, <1>4
  <2>2. Oldest(t, Len(t.order)) = Held(t)
    BY <1>5, <1>8
  <2>3. \A i, j \in 1 .. Len(t.order) : t.order[i] = t.order[j] => i = j
    BY <1>5, <1>9
  <2> QED BY <2>1, <2>2, <2>3 DEF Keys
<1>11. AllCells(t) = AllCells(s) \cup ({name} \X RetainedCells(v))
  <2>1. Retained(t, Held(s)) = Retained(s, Held(s))
    BY <1>4 DEF Retained
  <2>2. Retained(t, Held(s) \cup {name})
           = Retained(t, Held(s)) \cup ({name} \X RetainedCells(v))
    BY <1>4 DEF Retained
  <2> QED BY <2>1, <2>2, <1>4 DEF AllCells
<1>12. AllCells(s) \cap ({name} \X RetainedCells(v)) = {}
  BY DEF AllCells, Retained
<1> QED BY <1>4, <1>10, <1>11, <1>12

(* A set of new cells added to a consistent store's cells. *)
LEMMA AddCells ==
    ASSUME NEW A, IsFiniteSet(A), NEW X, IsFiniteSet(X), A \cap X = {}
    PROVE  /\ IsFiniteSet(A \cup X)
           /\ Cardinality(A \cup X) = Cardinality(A) + Cardinality(X)
           /\ Cardinality(A) \in Nat
<1>1. /\ IsFiniteSet(A \cup X)
      /\ Cardinality(A \cup X)
            = Cardinality(A) + Cardinality(X) - Cardinality(A \cap X)
  BY FS_Union
<1>2. Cardinality(A \cap X) = 0
  BY FS_EmptySet
<1>3. Cardinality(A) \in Nat /\ Cardinality(X) \in Nat
  BY FS_CardinalityType
<1> QED BY <1>1, <1>2, <1>3

-----------------------------------------------------------------------------
(* _store_complete, after the oversize check of put and put_verified. *)
LEMMA StoreCompleteOK ==
    ASSUME NEW s, Consistent(s), NEW name \in Names, NEW data \in Contents,
           Size[data] <= Capacity, NEW sum \in Contents,
           NEW shard \in ShardSizes, NEW sums \in Contents \cup {None}
    PROVE  LET r == StoreComplete(s, name, sum, data, shard, sums)
           IN Consistent(r) /\ (Exact(s) => Exact(r))
<1> DEFINE d == Drop(s, name)
           k == EvictCount(d, Len(d.order), Size[data])
           e == EvictOldest(d, k)
           m == [sum |-> sum, total |-> Size[data], shard |-> shard]
           v == [meta |-> m, data |-> data, shards |-> {}, sums |-> sums]
           r == StoreComplete(s, name, sum, data, shard, sums)
<1>1. /\ r.order = Append(e.order, name)
      /\ r.ver = [e.ver EXCEPT ![name] = v]
      /\ r.used = e.used + Size[data]
  BY DEF StoreComplete, Insert
<1>1a. r = [order |-> r.order, ver |-> r.ver, used |-> r.used]
  BY DEF StoreComplete, Insert
<1>2. /\ Size[data] \in Nat /\ Capacity \in Nat
      /\ v \in StoredVersion /\ v.shards = {} /\ v.data = data
      /\ VersionOK(v)
  BY SizeAssumption, CapacityAssumption DEF StoredVersion, Metadata, VersionOK
<1>3. {name} \X RetainedCells(v) = {name} \X ({-1} \X (0 .. (Size[data] - 1)))
  <2>1. data # None
    BY NoneAssumption
  <2> QED BY <2>1, <1>2 DEF RetainedCells, DataCells, ShardsCells
<1> HIDE DEF d, r, v, m
<1>4. /\ Consistent(d) /\ (Exact(s) => Exact(d))
      /\ Held(d) = Held(s) \ {name}
  BY DropOK DEF d
<1>5. Len(d.order) \in Nat
  BY <1>4 DEF Consistent, Keys, Stores
<1>6. /\ k \in 0 .. Len(d.order)
      /\ k = Len(d.order) \/ Fits(d, k, Size[data])
  BY <1>5, EvictCountExists
<1> HIDE DEF k
<1>7. /\ Consistent(e) /\ (Exact(d) => Exact(e))
      /\ Held(e) = Held(d) \ Oldest(d, k)
      /\ k = Len(d.order) => AllCells(e) = {}
  BY <1>4, <1>6, EvictOldestOK
<1>8. k = Len(d.order) \/ e.used + Size[data] <= Capacity
  BY <1>6 DEF Fits, EvictOldest
<1> HIDE DEF e
<1>9. name \in Names \ Held(e)
  BY <1>4, <1>7
<1>10. /\ e.used \in Int /\ e.order \in Seq(Names)
       /\ e.ver \in [Names -> StoredVersion \cup {None}]
       /\ Keys(e) /\ IsFiniteSet(AllCells(e))
       /\ Cardinality(AllCells(e)) <= e.used
  BY <1>7 DEF Consistent, Keys, Stores
<1>11. r \in Stores
  <2>1. r.order \in Seq(Names)
    BY <1>1, <1>10
  <2>2. r.ver \in [Names -> StoredVersion \cup {None}]
    BY <1>1, <1>2, <1>10
  <2>3. r.used \in Int
    BY <1>1, <1>2, <1>10
  <2> HIDE DEF r
  <2> QED BY <1>1a, <2>1, <2>2, <2>3 DEF Stores
<1> DEFINE X == {name} \X RetainedCells(v)
<1>12. /\ Keys(r) /\ Held(r) = Held(e) \cup {name}
       /\ \A n \in Held(e) : r.ver[n] = e.ver[n]
       /\ AllCells(r) = AllCells(e) \cup X
       /\ AllCells(e) \cap X = {}
  <2>1. Keys(e) /\ v \in StoredVersion /\ VersionOK(v)
    BY <1>2, <1>10
  <2>2. r.order = Append(e.order, name) /\ r.ver = [e.ver EXCEPT ![name] = v]
    BY <1>1
  <2> QED BY <2>1, <2>2, <1>9, <1>11, InsertOK
<1>13. IsFiniteSet(X) /\ Cardinality(X) = Size[data]
  <2> DEFINE h == -1
             I == 0 .. (Size[data] - 1)
             J == {h} \X I
  <2>1. X = {name} \X J /\ J = {h} \X I /\ I = 0 .. (Size[data] - 1)
    BY <1>3
  <2>2. Size[data] \in Nat
    BY <1>2
  <2> HIDE DEF h, I, J, X
  <2> QED BY <2>1, <2>2, ChunkCells
<1> HIDE DEF X
<1>14. /\ IsFiniteSet(AllCells(r))
       /\ Cardinality(AllCells(r)) = Cardinality(AllCells(e)) + Size[data]
       /\ Cardinality(AllCells(e)) \in Nat
  <2>1. IsFiniteSet(AllCells(e))
    BY <1>10
  <2>2. AllCells(e) \cap X = {}
    BY <1>12
  <2>3. /\ IsFiniteSet(AllCells(e) \cup X)
        /\ Cardinality(AllCells(e) \cup X)
              = Cardinality(AllCells(e)) + Cardinality(X)
        /\ Cardinality(AllCells(e)) \in Nat
    BY <2>1, <2>2, <1>13, AddCells
  <2> QED BY <2>3, <1>12, <1>13
<1>15. Cardinality(AllCells(r)) <= Capacity
  <2>1. CASE k = Len(d.order)
    <3>1. Cardinality(AllCells(e)) = 0
      BY <1>7, <2>1, FS_EmptySet
    <3> QED BY <3>1, <1>2, <1>14
  <2>2. CASE e.used + Size[data] <= Capacity
    BY <2>2, <1>2, <1>10, <1>14
  <2> QED BY <2>1, <2>2, <1>8
<1>16. Cardinality(AllCells(r)) <= r.used
  BY <1>1, <1>2, <1>10, <1>14
<1>17. Consistent(r)
  BY <1>12, <1>14, <1>15, <1>16 DEF Consistent
<1>18. ASSUME Exact(s) PROVE Exact(r)
  <2>1. Exact(e)
    BY <1>4, <1>7, <1>18
  <2>2. r.used = Cardinality(AllCells(r))
    BY <1>1, <1>14, <2>1 DEF Exact
  <2>3. r.used <= Capacity
    BY <2>2, <1>15
  <2>4. r.ver[name].shards = {}
    BY <1>1, <1>2, <1>10
  <2>5. \A n \in Held(r) : r.ver[n].data # None => r.ver[n].shards = {}
    BY <2>1, <2>4, <1>12 DEF Exact
  <2> QED BY <2>2, <2>3, <2>5 DEF Exact
<1> QED BY <1>17, <1>18 DEF r

(* Changing a held version in place: keys, order and other versions stay. *)
LEMMA UpdateOK ==
    ASSUME NEW s, Keys(s), NEW name \in Held(s),
           NEW v \in StoredVersion, VersionOK(v),
           NEW u, NEW t \in Stores, t = Update(s, name, v, u)
    PROVE  /\ Keys(t) /\ Held(t) = Held(s)
           /\ t.ver[name] = v
           /\ \A n \in Held(s) \ {name} : t.ver[n] = s.ver[n]
<1>0. t.order = s.order /\ t.ver = [s.ver EXCEPT ![name] = v]
  BY DEF Update
<1>1. /\ Oldest(s, Len(s.order)) = Held(s)
      /\ \A i, j \in 1 .. Len(s.order) : s.order[i] = s.order[j] => i = j
      /\ \A n \in Held(s) : VersionOK(s.ver[n])
      /\ s.ver \in [Names -> StoredVersion \cup {None}]
  BY DEF Keys, Stores
<1>2. v # None /\ name \in Names
  BY NoneAssumption DEF Held
<1>3. /\ Held(t) = Held(s)
      /\ t.ver[name] = v
      /\ \A n \in Held(s) \ {name} : t.ver[n] = s.ver[n]
  BY <1>0, <1>1, <1>2 DEF Held
<1>4. Oldest(t, Len(t.order)) = Held(t)
  BY <1>0, <1>1, <1>3 DEF Oldest
<1>5. Keys(t)
  <2>1. \A n \in Held(t) : VersionOK(t.ver[n])
    BY <1>1, <1>3
  <2>2. \A i, j \in 1 .. Len(t.order) : t.order[i] = t.order[j] => i = j
    BY <1>0, <1>1
  <2> QED BY <2>1, <2>2, <1>4 DEF Keys
<1> QED BY <1>3, <1>5

(* The cells of a set of versions, one of them set apart. *)
LEMMA CellsApart ==
    ASSUME NEW s, NEW S, NEW name \in S
    PROVE  Retained(s, S) = Retained(s, S \ {name})
                              \cup ({name} \X RetainedCells(s.ver[name]))
BY DEF Retained

(* The cells of versions that two stores hold alike. *)
LEMMA CellsAgree ==
    ASSUME NEW s, NEW t, NEW S, \A n \in S : t.ver[n] = s.ver[n]
    PROVE  Retained(t, S) = Retained(s, S)
BY DEF Retained

(* begin_version registers a version, or digests, without storing a byte. *)
LEMMA BeginVersionOK ==
    ASSUME NEW s, Consistent(s), NEW name \in Names, NEW m \in Metadata,
           NEW sums \in Contents \cup {None}
    PROVE  LET r == BeginVersion(s, name, m, sums)
           IN Consistent(r) /\ (Exact(s) => Exact(r))
<1> DEFINE r == BeginVersion(s, name, m, sums)
<1>1. /\ s \in Stores /\ Keys(s) /\ s.order \in Seq(Names) /\ s.used \in Int
      /\ s.ver \in [Names -> StoredVersion \cup {None}]
      /\ IsFiniteSet(AllCells(s))
  BY DEF Consistent, Keys, Stores
<1>2. CASE s.ver[name] # None
  <2> DEFINE w == s.ver[name]
             v == [meta |-> w.meta, data |-> w.data,
                   shards |-> w.shards, sums |-> sums]
  <2>1. name \in Held(s) /\ w \in StoredVersion /\ VersionOK(w)
    BY <1>1, <1>2 DEF Held, Keys
  <2>2. /\ v \in StoredVersion /\ v.meta = w.meta /\ v.data = w.data
        /\ v.shards = w.shards
    BY <2>1 DEF StoredVersion
  <2>3. VersionOK(v) /\ RetainedCells(v) = RetainedCells(w)
    BY <2>1, <2>2 DEF VersionOK, RetainedCells, DataCells, ShardsCells
  <2>4. r = Update(s, name, v, s.used) /\ r.used = s.used
    BY <1>2 DEF BeginVersion, Update
  <2>4a. r \in Stores
    BY <1>1, <1>2, <2>2 DEF BeginVersion, Update, Stores
  <2> HIDE DEF r, v, w
  <2>5. /\ Keys(r) /\ Held(r) = Held(s)
        /\ r.ver[name] = v
        /\ \A n \in Held(s) \ {name} : r.ver[n] = s.ver[n]
    <3>1. Keys(s) /\ v \in StoredVersion /\ VersionOK(v)
      BY <1>1, <2>2, <2>3
    <3> QED BY <3>1, <2>1, <2>4, <2>4a, UpdateOK
  <2>6. AllCells(r) = AllCells(s)
    <3>1. Retained(r, Held(s) \ {name}) = Retained(s, Held(s) \ {name})
      BY <2>5, CellsAgree
    <3>2. RetainedCells(r.ver[name]) = RetainedCells(s.ver[name])
      BY <2>3, <2>5 DEF w
    <3>3. /\ AllCells(r) = Retained(r, Held(s) \ {name})
                              \cup ({name} \X RetainedCells(r.ver[name]))
          /\ AllCells(s) = Retained(s, Held(s) \ {name})
                              \cup ({name} \X RetainedCells(s.ver[name]))
      BY <2>1, <2>5, CellsApart DEF AllCells
    <3> QED BY ONLY <3>1, <3>2, <3>3
  <2>7. Consistent(r)
    BY <2>4, <2>5, <2>6 DEF Consistent
  <2>8. ASSUME Exact(s) PROVE Exact(r)
    <3>1. \A n \in Held(r) : r.ver[n].data # None => r.ver[n].shards = {}
      BY <2>1, <2>2, <2>5, <2>8 DEF Exact, w
    <3> QED BY <3>1, <2>4, <2>6, <2>8 DEF Exact
  <2> QED BY <2>7, <2>8 DEF r
<1>3. CASE s.ver[name] = None
  <2> DEFINE v == [meta |-> m, data |-> None, shards |-> {}, sums |-> sums]
             X == {name} \X RetainedCells(v)
  <2>1. name \in Names \ Held(s)
    BY <1>3 DEF Held
  <2>2. v \in StoredVersion /\ VersionOK(v) /\ RetainedCells(v) = {}
    BY DEF StoredVersion, VersionOK, RetainedCells, DataCells, ShardsCells
  <2>3. /\ r.order = Append(s.order, name) /\ r.used = s.used
        /\ r.ver = [s.ver EXCEPT ![name] = v]
    BY <1>3 DEF BeginVersion, Insert
  <2>3a. r \in Stores
    BY <1>1, <1>3, <2>2 DEF BeginVersion, Insert, Stores
  <2>4. v.data = None
    OBVIOUS
  <2> HIDE DEF r, v
  <2>5. /\ Keys(r) /\ Held(r) = Held(s) \cup {name}
        /\ \A n \in Held(s) : r.ver[n] = s.ver[n]
        /\ AllCells(r) = AllCells(s) \cup X
    <3>1. Keys(s) /\ v \in StoredVersion /\ VersionOK(v)
      BY <1>1, <2>2
    <3>2. r.order = Append(s.order, name) /\ r.ver = [s.ver EXCEPT ![name] = v]
      BY <2>3
    <3> QED BY <3>1, <3>2, <2>1, <2>3a, InsertOK
  <2>6. AllCells(r) = AllCells(s)
    BY <2>2, <2>5
  <2>7. Consistent(r)
    BY <2>3, <2>5, <2>6 DEF Consistent
  <2>8. ASSUME Exact(s) PROVE Exact(r)
    <3>1. r.ver[name].data = None
      BY <1>1, <2>1, <2>3, <2>4
    <3>2. \A n \in Held(r) : r.ver[n].data # None => r.ver[n].shards = {}
      BY <3>1, <2>5, <2>8 DEF Exact
    <3> QED BY <3>2, <2>3, <2>6, <2>8 DEF Exact
  <2> QED BY <2>7, <2>8 DEF r
<1> QED BY <1>2, <1>3

(* _put_shard, successful or not: the victims go, the shard is counted. *)
LEMMA PutShardOK ==
    ASSUME NEW s, Consistent(s), NEW name \in Names, NEW i \in Int,
           NEW bytes \in Contents
    PROVE  LET r == PutShard(s, name, i, bytes)
           IN /\ Consistent(r)
              /\ Exact(s) /\ Get(s, name) = None => Exact(r)
<1> DEFINE r == PutShard(s, name, i, bytes)
<1>1. CASE PutShardCheck(s, name, i, bytes) # "ok"
  BY <1>1 DEF PutShard
<1>2. CASE PutShardCheck(s, name, i, bytes) = "ok"
  <2> DEFINE w == s.ver[name]
             p == Position(s, name)
             a == Additional(s, name, i)
             k == EvictCount(s, p - 1, a)
             e == EvictOldest(s, k)
             v == [meta |-> w.meta, data |-> w.data,
                   shards |-> w.shards \cup {i}, sums |-> w.sums]
             B == {name} \X ShardCells(w.meta, i)
             A == AllCells(e)
  <2>1. w # None /\ i \in 0 .. (ShardCount(w.meta) - 1)
    BY <1>2 DEF PutShardCheck
  <2>2. /\ Keys(s) /\ s.order \in Seq(Names) /\ Len(s.order) \in Nat
        /\ Oldest(s, Len(s.order)) = Held(s)
        /\ \A g, h \in 1 .. Len(s.order) : s.order[g] = s.order[h] => g = h
        /\ s.ver \in [Names -> StoredVersion \cup {None}]
    BY DEF Consistent, Keys, Stores
  <2>3. /\ name \in Held(s) /\ w \in StoredVersion /\ VersionOK(w)
        /\ w.meta \in Metadata
    BY <2>1, <2>2 DEF Held, Keys, StoredVersion
  <2>4. p \in 1 .. Len(s.order) /\ s.order[p] = name
    <3>1. \E j \in 1 .. Len(s.order) : s.order[j] = name
      BY <2>2, <2>3 DEF Oldest
    <3> QED BY <3>1 DEF Position
  <2>5. ShardLength(w.meta, i) \in Nat
    BY <2>1, <2>3, ShardLengthPositive
  <2>6. a \in Nat /\ a = IF i \in w.shards THEN 0 ELSE ShardLength(w.meta, i)
    BY <2>5 DEF Additional
  <2> HIDE DEF a, p
  <2>7. k \in 0 .. (p - 1)
    <3>1. p - 1 \in Nat
      BY <2>2, <2>4
    <3> QED BY <3>1, EvictCountExists
  <2> HIDE DEF k
  <2>8. k \in 0 .. Len(s.order) /\ name \notin Oldest(s, k)
    <3>1. k \in 0 .. Len(s.order)
      BY <2>2, <2>4, <2>7
    <3>2. ASSUME NEW j \in 1 .. k PROVE s.order[j] # name
      BY <2>2, <2>4, <2>7
    <3> QED BY <3>1, <3>2 DEF Oldest
  <2>9. /\ Consistent(e) /\ (Exact(s) => Exact(e))
        /\ Held(e) = Held(s) \ Oldest(s, k)
        /\ \A n \in Held(e) : e.ver[n] = s.ver[n]
    BY <2>8, EvictOldestOK
  <2>10. name \in Held(e) /\ e.ver[name] = w
    BY <2>3, <2>8, <2>9
  <2>11. PutShardEvicted(s, name, i) = e
    BY DEF PutShardEvicted, e, k, p, a
  <2>12. r = IF e.used + a > Capacity THEN e ELSE Update(e, name, v, e.used + a)
    BY <1>2, <2>11 DEF PutShard, a
  <2> HIDE DEF e, r
  <2>13. CASE e.used + a > Capacity
    BY <2>9, <2>12, <2>13 DEF r
  <2>14. CASE ~(e.used + a > Capacity)
    <3>1. /\ Keys(e) /\ e.order \in Seq(Names) /\ e.used \in Int
          /\ e.ver \in [Names -> StoredVersion \cup {None}]
          /\ IsFiniteSet(A) /\ Cardinality(A) <= e.used
      BY <2>9 DEF Consistent, Keys, Stores
    <3>2. v \in StoredVersion /\ VersionOK(v)
      <4>1. i \in Nat /\ w.shards \subseteq Nat
        BY <2>1, <2>3 DEF StoredVersion
      <4> QED BY <2>1, <2>3, <4>1 DEF StoredVersion, VersionOK
    <3>3. r.used = e.used + a
      BY <2>12, <2>14 DEF Update
    <3>4. r \in Stores
      BY <2>6, <2>12, <2>14, <3>1, <3>2 DEF Update, Stores
    <3>5. ShardsCells(v) = ShardsCells(w) \cup ShardCells(w.meta, i)
      BY DEF ShardsCells
    <3>6. RetainedCells(v) = RetainedCells(w) \cup ShardCells(w.meta, i)
      BY <3>5 DEF RetainedCells, DataCells
    <3> HIDE DEF v
    <3>7. /\ Keys(r) /\ Held(r) = Held(e)
          /\ r.ver[name] = v
          /\ \A n \in Held(e) \ {name} : r.ver[n] = e.ver[n]
      <4>1. r = Update(e, name, v, e.used + a) /\ Keys(e)
        BY <2>12, <2>14, <3>1
      <4> QED BY <4>1, <2>10, <3>2, <3>4, UpdateOK
    <3>8a. A = Retained(e, Held(e) \ {name}) \cup ({name} \X RetainedCells(w))
      BY <2>10, CellsApart DEF AllCells
    <3>8b. AllCells(r)
              = Retained(e, Held(e) \ {name}) \cup ({name} \X RetainedCells(v))
      <4>1. Retained(r, Held(e) \ {name}) = Retained(e, Held(e) \ {name})
        BY <3>7, CellsAgree
      <4> QED BY <4>1, <2>10, <3>7, CellsApart DEF AllCells
    <3>8. AllCells(r) = A \cup B
      BY <3>6, <3>8a, <3>8b
    <3>9. IsFiniteSet(B) /\ Cardinality(B) = ShardLength(w.meta, i)
      <4> DEFINE l == ShardLength(w.meta, i)
                 I == 0 .. (l - 1)
                 J == {i} \X I
      <4>1. B = {name} \X J /\ J = {i} \X I /\ I = 0 .. (l - 1)
        BY DEF ShardCells
      <4>2. l \in Nat
        BY <2>5
      <4> HIDE DEF B, J, I, l
      <4>3. IsFiniteSet(B) /\ Cardinality(B) = l
        BY <4>1, <4>2, ChunkCells
      <4> QED BY <4>3 DEF l
    <3>10. /\ IsFiniteSet(AllCells(r))
           /\ Cardinality(AllCells(r)) <= Cardinality(A) + a
           /\ Cardinality(AllCells(r)) \in Nat /\ Cardinality(A) \in Nat
           /\ w.data = None => Cardinality(AllCells(r)) = Cardinality(A) + a
      <4>1. CASE i \in w.shards
        <5>1. B \subseteq A
          <6>1. ShardCells(w.meta, i) \subseteq RetainedCells(w)
            BY <4>1 DEF RetainedCells, ShardsCells
          <6> QED BY <6>1, <3>8a
        <5>2. AllCells(r) = A /\ a = 0
          BY <5>1, <4>1, <2>6, <3>8
        <5> QED BY <5>2, <3>1, FS_CardinalityType
      <4>2. CASE i \notin w.shards
        <5>1. B \cap A = {}
          <6>1. ShardCells(w.meta, i) \cap RetainedCells(w) = {}
            BY <4>2, <2>1 DEF RetainedCells, DataCells, ShardsCells, ShardCells
          <6>2. B \cap Retained(e, Held(e) \ {name}) = {}
            BY DEF Retained
          <6> QED BY <6>1, <6>2, <3>8a
        <5>2. /\ IsFiniteSet(A \cup B)
              /\ Cardinality(A \cup B) = Cardinality(A) + Cardinality(B)
              /\ Cardinality(A) \in Nat
          <6> HIDE DEF A, B
          <6>1. A \cap B = {}
            BY <5>1
          <6> QED BY <6>1, <3>1, <3>9, AddCells
        <5> QED BY <5>2, <4>2, <2>5, <2>6, <3>8, <3>9
      <4> QED BY <4>1, <4>2
    <3> HIDE DEF A, B
    <3>11. e.used + a <= Capacity /\ Capacity \in Nat
      BY <2>6, <2>14, <3>1, CapacityAssumption
    <3>12. Consistent(r)
      <4>1. /\ Cardinality(AllCells(r)) <= r.used
            /\ Cardinality(AllCells(r)) <= Capacity
        BY <2>6, <3>1, <3>3, <3>10, <3>11
      <4> QED BY <4>1, <3>7, <3>10 DEF Consistent
    <3>13. ASSUME Exact(s), Get(s, name) = None PROVE Exact(r)
      <4>1. w.data = None
        BY <2>1, <3>13 DEF Get
      <4>2. e.used = Cardinality(A)
        BY <2>9, <3>13 DEF Exact, A
      <4>3. r.used = Cardinality(AllCells(r)) /\ r.used <= Capacity
        BY <4>1, <4>2, <3>3, <3>10, <3>11
      <4>4. v.data = None
        BY <4>1 DEF v
      <4>5. \A n \in Held(r) : r.ver[n].data # None => r.ver[n].shards = {}
        BY <4>4, <2>9, <3>7, <3>13 DEF Exact
      <4> QED BY <4>3, <4>5 DEF Exact
    <3> QED BY <3>12, <3>13 DEF r
  <2> QED BY <2>13, <2>14
<1> QED BY <1>1, <1>2 DEF PutShardCheck

-----------------------------------------------------------------------------
(* The empty store of __init__ and of clear. *)
LEMMA EmptyStoreOK == Consistent(EmptyStore) /\ Exact(EmptyStore)
<1>1. /\ EmptyStore.order = << >> /\ EmptyStore.used = 0
      /\ EmptyStore.ver = [n \in Names |-> None]
  BY DEF EmptyStore
<1>2. EmptyStore \in Stores
  BY DEF EmptyStore, Stores
<1>3. Held(EmptyStore) = {}
  BY <1>1 DEF Held
<1>4. Oldest(EmptyStore, Len(EmptyStore.order)) = {}
  BY <1>1 DEF Oldest
<1>5. Keys(EmptyStore)
  BY <1>1, <1>2, <1>3, <1>4 DEF Keys
<1>6. AllCells(EmptyStore) = {}
  BY <1>3 DEF AllCells, Retained
<1>7. IsFiniteSet({}) /\ Cardinality({}) = 0
  BY FS_EmptySet
<1> QED BY <1>1, <1>3, <1>5, <1>6, <1>7, CapacityAssumption DEF Consistent, Exact

-----------------------------------------------------------------------------
(* The order of the versions *)

(* Version m was entered before version n. *)
Before(s, m, n) ==
    \E j, k \in 1 .. Len(s.order) : j < k /\ s.order[j] = m /\ s.order[k] = n

(* A held version has one place in the order. *)
LEMMA PositionOK ==
    ASSUME NEW s, Keys(s), NEW n \in Held(s)
    PROVE  /\ Position(s, n) \in 1 .. Len(s.order)
           /\ s.order[Position(s, n)] = n
           /\ \A j \in 1 .. Len(s.order) : s.order[j] = n => j = Position(s, n)
<1>1. /\ Oldest(s, Len(s.order)) = Held(s)
      /\ \A i, j \in 1 .. Len(s.order) : s.order[i] = s.order[j] => i = j
  BY DEF Keys
<1>2. \E j \in 1 .. Len(s.order) : s.order[j] = n
  BY <1>1 DEF Oldest
<1>3. Position(s, n) \in 1 .. Len(s.order) /\ s.order[Position(s, n)] = n
  BY <1>2 DEF Position
<1> QED BY <1>1, <1>3

LEMMA OrderIsHeld ==
    ASSUME NEW s, Keys(s)
    PROVE  /\ Len(s.order) \in Nat
           /\ \A j \in 1 .. Len(s.order) : s.order[j] \in Held(s)
<1>1. s.order \in Seq(Names) /\ Oldest(s, Len(s.order)) = Held(s)
  BY DEF Keys, Stores
<1>2. Len(s.order) \in Nat
  BY <1>1
<1> QED BY <1>1, <1>2 DEF Oldest

LEMMA BeforeIsPosition ==
    ASSUME NEW s, Keys(s), NEW m \in Held(s), NEW n \in Held(s)
    PROVE  Before(s, m, n) <=> Position(s, m) < Position(s, n)
BY PositionOK DEF Before

(* Entered versions stand in one row. *)
LEMMA BeforeIsTotal ==
    ASSUME NEW s, Keys(s), NEW m \in Held(s), NEW n \in Held(s), m # n
    PROVE  Before(s, m, n) \/ Before(s, n, m)
<1>1. /\ Position(s, m) \in Int /\ Position(s, n) \in Int
      /\ Position(s, m) # Position(s, n)
  BY PositionOK, OrderIsHeld
<1> QED BY <1>1, BeforeIsPosition

(* Popping the oldest versions: the victims are a prefix of the row, and   *)
(* those that stay keep their order.                                       *)
LEMMA EvictKeepsOrder ==
    ASSUME NEW s, Keys(s), NEW k \in 0 .. Len(s.order), NEW m, NEW n
    PROVE  /\ Before(EvictOldest(s, k), m, n) => Before(s, m, n)
           /\ Before(s, m, n) /\ n \in Oldest(s, k) => m \in Oldest(s, k)
<1> DEFINE e == EvictOldest(s, k)
           n0 == Len(s.order)
<1>1. s.order \in Seq(Names) /\ n0 \in Nat
  BY DEF Keys, Stores
<1>2. /\ Len(e.order) = n0 - k
      /\ \A i \in 1 .. (n0 - k) : e.order[i] = s.order[i + k]
  BY <1>1 DEF EvictOldest
<1>3. ASSUME Before(e, m, n) PROVE Before(s, m, n)
  <2>1. PICK i, j \in 1 .. (n0 - k) : /\ i < j /\ e.order[i] = m
                                       /\ e.order[j] = n
    BY <1>2, <1>3 DEF Before
  <2>2. /\ i + k \in 1 .. n0 /\ j + k \in 1 .. n0 /\ i + k < j + k
        /\ s.order[i + k] = m /\ s.order[j + k] = n
    BY <1>1, <1>2, <2>1
  <2> QED BY <2>2 DEF Before
<1>4. ASSUME Before(s, m, n), n \in Oldest(s, k) PROVE m \in Oldest(s, k)
  <2>1. PICK i, j \in 1 .. n0 : i < j /\ s.order[i] = m /\ s.order[j] = n
    BY <1>4 DEF Before
  <2>2. PICK h \in 1 .. k : s.order[h] = n
    BY <1>4 DEF Oldest
  <2>3. h \in 1 .. n0 /\ h = j
    BY <1>1, <2>1, <2>2 DEF Keys
  <2>4. i \in 1 .. k
    BY <1>1, <2>1, <2>2, <2>3
  <2> QED BY <2>1, <2>4 DEF Oldest
<1> QED BY <1>3, <1>4

(* Popping one version leaves the order of the others alone. *)
LEMMA DropKeepsOrder ==
    ASSUME NEW s, Keys(s), NEW name \in Names, NEW m, NEW n,
           m # name, n # name
    PROVE  Before(Drop(s, name), m, n) <=> Before(s, m, n)
<1> DEFINE d == Drop(s, name)
           n0 == Len(s.order)
           p == Position(s, name)
<1>1. CASE s.ver[name] = None
  BY <1>1 DEF Drop
<1>2. CASE s.ver[name] # None
  <2>1. name \in Held(s)
    BY <1>2 DEF Held
  <2>2. p \in 1 .. n0 /\ s.order[p] = name /\ n0 \in Nat
    BY <2>1, PositionOK, OrderIsHeld
  <2>3. d.order = Without(s.order, p)
    BY <1>2 DEF Drop
  <2> HIDE DEF p, d
  <2>4. /\ Len(d.order) = n0 - 1
        /\ \A i \in 1 .. (n0 - 1) :
              d.order[i] = s.order[IF i < p THEN i ELSE i + 1]
    BY <2>2, <2>3 DEF Without
  <2>5. ASSUME Before(d, m, n) PROVE Before(s, m, n)
    <3>1. PICK i, j \in 1 .. (n0 - 1) : /\ i < j /\ d.order[i] = m
                                         /\ d.order[j] = n
      BY <2>4, <2>5 DEF Before
    <3> DEFINE f(h) == IF h < p THEN h ELSE h + 1
    <3>2. f(i) \in 1 .. n0 /\ f(j) \in 1 .. n0 /\ f(i) < f(j)
      BY <2>2, <3>1
    <3>3. s.order[f(i)] = m /\ s.order[f(j)] = n
      BY <2>4, <3>1
    <3> HIDE DEF f
    <3> QED BY <3>2, <3>3 DEF Before
  <2>6. ASSUME Before(s, m, n) PROVE Before(d, m, n)
    <3>1. PICK i, j \in 1 .. n0 : i < j /\ s.order[i] = m /\ s.order[j] = n
      BY <2>6 DEF Before
    <3>2. i # p /\ j # p
      BY <2>2, <3>1
    <3> DEFINE f(h) == IF h < p THEN h ELSE h - 1
    <3>3. f(i) \in 1 .. (n0 - 1) /\ f(j) \in 1 .. (n0 - 1) /\ f(i) < f(j)
      BY <2>2, <3>1, <3>2
    <3>4. /\ (IF f(i) < p THEN f(i) ELSE f(i) + 1) = i
          /\ (IF f(j) < p THEN f(j) ELSE f(j) + 1) = j
      BY <2>2, <3>1, <3>2
    <3> HIDE DEF f
    <3>5. d.order[f(i)] = m /\ d.order[f(j)] = n
      BY <2>4, <3>1, <3>3, <3>4
    <3> QED BY <2>4, <3>3, <3>5 DEF Before
  <2> QED BY <2>5, <2>6 DEF d
<1> QED BY <1>1, <1>2

(* Entering a version last leaves the order of the others alone. *)
LEMMA InsertKeepsOrder ==
    ASSUME NEW s, Keys(s), NEW t, NEW name \in Names,
           t.order = Append(s.order, name), NEW m, NEW n,
           m # name, n # name, Before(t, m, n)
    PROVE  Before(s, m, n)
<1> DEFINE n0 == Len(s.order)
<1>1. s.order \in Seq(Names) /\ n0 \in Nat
  BY DEF Keys, Stores
<1>2. /\ Len(t.order) = n0 + 1
      /\ t.order[n0 + 1] = name
      /\ \A i \in 1 .. n0 : t.order[i] = s.order[i]
  BY <1>1
<1>3. PICK i, j \in 1 .. (n0 + 1) : i < j /\ t.order[i] = m /\ t.order[j] = n
  BY <1>2 DEF Before
<1>4. i \in 1 .. n0 /\ j \in 1 .. n0
  BY <1>1, <1>2, <1>3
<1> QED BY <1>2, <1>3, <1>4 DEF Before

(* The bytes given back grow by the next victim's stored_bytes. *)
LEMMA CountedStep ==
    ASSUME NEW s, Consistent(s), NEW k \in 1 .. Len(s.order)
    PROVE  /\ Cardinality(Counted(s, Oldest(s, k)))
                = Cardinality(Counted(s, Oldest(s, k - 1)))
                    + StoredBytes(s.ver[s.order[k]])
           /\ Cardinality(Counted(s, Oldest(s, k - 1))) \in Nat
           /\ StoredBytes(s.ver[s.order[k]]) \in Nat
<1> DEFINE x == s.order[k]
           A == Counted(s, Oldest(s, k - 1))
           X == Counted(s, {x})
<1>1. /\ Keys(s) /\ Len(s.order) \in Nat
      /\ \A j \in 1 .. Len(s.order) : s.order[j] \in Held(s)
      /\ \A i, j \in 1 .. Len(s.order) : s.order[i] = s.order[j] => i = j
  BY OrderIsHeld DEF Consistent, Keys
<1>2. Oldest(s, k) = Oldest(s, k - 1) \cup {x}
  <2>1. 1 .. k = (1 .. (k - 1)) \cup {k}
    BY <1>1
  <2> QED BY <2>1 DEF Oldest
<1>3. x \notin Oldest(s, k - 1)
  <2>1. ASSUME NEW j \in 1 .. (k - 1) PROVE s.order[j] # x
    BY <1>1
  <2> QED BY <2>1 DEF Oldest
<1>4. Oldest(s, k - 1) \in SUBSET Held(s) /\ x \in Held(s)
  <2>1. \A j \in 1 .. (k - 1) : j \in 1 .. Len(s.order)
    BY <1>1
  <2> QED BY <1>1, <2>1 DEF Oldest
<1>5. Counted(s, Oldest(s, k)) = A \cup X /\ A \cap X = {}
  BY <1>2, <1>3 DEF Counted
<1>6. IsFiniteSet(A) /\ IsFiniteSet(X)
  <2>1. ASSUME NEW S \in SUBSET Held(s) PROVE IsFiniteSet(Counted(s, S))
    <3>1. Counted(s, S) \subseteq AllCells(s)
      BY CountedIsRetained, RetainedSplit DEF AllCells
    <3> QED BY <3>1, FS_Subset DEF Consistent
  <2> QED BY <2>1, <1>4
<1>7. StoredBytes(s.ver[x]) = Cardinality(X)
  BY <1>4, StoredBytesIsCounted
<1> HIDE DEF A, X
<1>8. /\ Cardinality(A \cup X) = Cardinality(A) + Cardinality(X)
      /\ Cardinality(A) \in Nat /\ Cardinality(X) \in Nat
  BY <1>5, <1>6, AddCells, FS_CardinalityType
<1> QED BY <1>5, <1>7, <1>8 DEF A

(* With its youngest victim kept the loop would have left too little room. *)
LEMMA EvictionNeeded ==
    ASSUME NEW s, Consistent(s), NEW limit \in 0 .. Len(s.order),
           NEW extra \in Nat, EvictCount(s, limit, extra) >= 1
    PROVE  LET k == EvictCount(s, limit, extra)
           IN EvictOldest(s, k).used + extra + StoredBytes(s.ver[s.order[k]])
                > Capacity
<1> DEFINE k == EvictCount(s, limit, extra)
<1>1. Len(s.order) \in Nat /\ s.used \in Int /\ Capacity \in Nat
  BY OrderIsHeld, CapacityAssumption DEF Consistent, Keys, Stores
<1>2. k \in 0 .. limit /\ \A j \in 0 .. (k - 1) : ~Fits(s, j, extra)
  BY <1>1, EvictCountExists
<1>3. k >= 1
  OBVIOUS
<1> HIDE DEF k
<1>4. k \in 1 .. Len(s.order) /\ k - 1 \in 0 .. (k - 1)
  BY <1>1, <1>2, <1>3
<1>5. ~(s.used - Cardinality(Counted(s, Oldest(s, k - 1))) + extra <= Capacity)
  BY <1>2, <1>4 DEF Fits
<1>6. EvictOldest(s, k).used = s.used - Cardinality(Counted(s, Oldest(s, k)))
  BY DEF EvictOldest
<1>7. EvictOldest(s, k).used + extra + StoredBytes(s.ver[s.order[k]]) > Capacity
  BY <1>1, <1>4, <1>5, <1>6, CountedStep
<1> QED BY <1>7 DEF k

-----------------------------------------------------------------------------
(* The version that put enters. *)
CompleteVersion(sum, data, shard, sums) ==
    [meta |-> [sum |-> sum, total |-> Size[data], shard |-> shard],
     data |-> data, shards |-> {}, sums |-> sums]

(* What a complete version put into the store does to the other versions. *)
LEMMA StoreCompleteShape ==
    ASSUME NEW s, Consistent(s), NEW name \in Names, NEW data \in Contents,
           NEW sum \in Contents, NEW shard \in ShardSizes,
           NEW sums \in Contents \cup {None}
    PROVE  LET t == Drop(s, name)
               k == EvictCount(t, Len(t.order), Size[data])
               r == StoreComplete(s, name, sum, data, shard, sums)
           IN /\ k \in 0 .. Len(t.order)
              /\ Held(r) = (Held(s) \ Oldest(t, k)) \cup {name}
              /\ Oldest(t, k) \subseteq Held(s) \ {name}
              /\ \A n \in Held(r) \ {name} : r.ver[n] = s.ver[n]
              /\ r.ver[name] = CompleteVersion(sum, data, shard, sums)
              /\ r.order = Append(EvictOldest(t, k).order, name)
              /\ r.used = EvictOldest(t, k).used + Size[data]
<1> DEFINE t == Drop(s, name)
           k == EvictCount(t, Len(t.order), Size[data])
           e == EvictOldest(t, k)
           m == [sum |-> sum, total |-> Size[data], shard |-> shard]
           v == [meta |-> m, data |-> data, shards |-> {}, sums |-> sums]
           r == StoreComplete(s, name, sum, data, shard, sums)
<1>1. /\ r.order = Append(e.order, name)
      /\ r.ver = [e.ver EXCEPT ![name] = v]
      /\ r.used = e.used + Size[data]
  BY DEF StoreComplete, Insert
<1>2. v \in StoredVersion
  BY SizeAssumption DEF StoredVersion, Metadata
<1>3. v # None
  BY <1>2, NoneAssumption
<1> HIDE DEF t, r, v, m
<1>4. /\ Consistent(t) /\ Held(t) = Held(s) \ {name}
      /\ \A n \in Held(t) : t.ver[n] = s.ver[n]
  BY DropOK DEF t
<1>5. Keys(t) /\ Len(t.order) \in Nat
  BY <1>4, OrderIsHeld DEF Consistent
<1>6. k \in 0 .. Len(t.order)
  BY <1>5, EvictCountExists
<1> HIDE DEF k
<1>7. /\ Consistent(e) /\ Held(e) = Held(t) \ Oldest(t, k)
      /\ \A n \in Held(e) : e.ver[n] = t.ver[n]
  BY <1>4, <1>6, EvictOldestOK
<1> HIDE DEF e
<1>8. e.ver \in [Names -> StoredVersion \cup {None}]
  BY <1>7 DEF Consistent, Keys, Stores
<1>9. r.ver[name] = v /\ \A n \in Names \ {name} : r.ver[n] = e.ver[n]
  BY <1>1, <1>8
<1>10. Held(r) = Held(e) \cup {name}
  BY <1>3, <1>9 DEF Held
<1>11. Oldest(t, k) \subseteq Held(t)
  <2>1. \A j \in 1 .. k : j \in 1 .. Len(t.order)
    BY <1>5, <1>6
  <2> QED BY <2>1, <1>5, OrderIsHeld DEF Oldest
<1>12. \A n \in Held(r) \ {name} : r.ver[n] = s.ver[n]
  BY <1>4, <1>7, <1>9, <1>10 DEF Held
<1>13. name \notin Oldest(t, k)
  BY <1>4, <1>11
<1>14. Held(r) = (Held(s) \ Oldest(t, k)) \cup {name}
  BY <1>4, <1>7, <1>10, <1>13
<1> QED BY <1>1, <1>4, <1>6, <1>9, <1>11, <1>12, <1>14
       DEF t, k, e, r, v, m, CompleteVersion

(* What a shard put into the store does to the other versions. *)
LEMMA PutShardShape ==
    ASSUME NEW s, Consistent(s), NEW name \in Names, NEW i \in Int,
           NEW bytes \in Contents, PutShardCheck(s, name, i, bytes) = "ok"
    PROVE  LET p == Position(s, name)
               k == EvictCount(s, p - 1, Additional(s, name, i))
               e == EvictOldest(s, k)
               r == PutShard(s, name, i, bytes)
           IN /\ name \in Held(s)
              /\ p - 1 \in 0 .. Len(s.order)
              /\ k \in 0 .. (p - 1)
              /\ Additional(s, name, i) \in Nat
              /\ Held(r) = Held(s) \ Oldest(s, k)
              /\ name \notin Oldest(s, k)
              /\ \A n \in Held(r) \ {name} : r.ver[n] = s.ver[n]
              /\ r.order = e.order
              /\ e.used \in Int
              /\ \/ /\ e.used + Additional(s, name, i) > Capacity
                    /\ r = e /\ r.ver[name] = s.ver[name]
                    /\ k = p - 1
                 \/ /\ e.used + Additional(s, name, i) <= Capacity
                    /\ r.used = e.used + Additional(s, name, i)
<1> DEFINE p == Position(s, name)
           a == Additional(s, name, i)
           k == EvictCount(s, p - 1, a)
           e == EvictOldest(s, k)
           w == s.ver[name]
           v == [meta |-> w.meta, data |-> w.data,
                 shards |-> w.shards \cup {i}, sums |-> w.sums]
           r == PutShard(s, name, i, bytes)
<1>1. w # None /\ i \in 0 .. (ShardCount(w.meta) - 1)
  BY DEF PutShardCheck
<1>2. /\ Keys(s) /\ Len(s.order) \in Nat /\ name \in Held(s)
      /\ w \in StoredVersion /\ w.meta \in Metadata
  BY <1>1, OrderIsHeld DEF Consistent, Keys, Stores, Held, StoredVersion
<1>3. p \in 1 .. Len(s.order) /\ s.order[p] = name
  BY <1>2, PositionOK
<1>4. a \in Nat
  BY <1>1, <1>2, ShardLengthPositive DEF Additional
<1> HIDE DEF p, a
<1>5. /\ p - 1 \in Nat /\ p - 1 \in 0 .. Len(s.order)
      /\ k \in 0 .. (p - 1)
      /\ k = p - 1 \/ Fits(s, k, a)
  <2>1. p - 1 \in Nat /\ p - 1 \in 0 .. Len(s.order)
    BY <1>2, <1>3
  <2> QED BY <2>1, EvictCountExists
<1> HIDE DEF k
<1>6. k \in 0 .. Len(s.order) /\ name \notin Oldest(s, k)
  <2>1. k \in 0 .. Len(s.order)
    BY <1>2, <1>3, <1>5
  <2>2. ASSUME NEW j \in 1 .. k PROVE s.order[j] # name
    BY <1>2, <1>3, <1>5 DEF Keys
  <2> QED BY <2>1, <2>2 DEF Oldest
<1>7. /\ Consistent(e) /\ Held(e) = Held(s) \ Oldest(s, k)
      /\ \A n \in Held(e) : e.ver[n] = s.ver[n]
  BY <1>6, EvictOldestOK
<1>8. PutShardEvicted(s, name, i) = e
  BY DEF PutShardEvicted, e, k, p, a
<1>9. r = IF e.used + a > Capacity THEN e ELSE Update(e, name, v, e.used + a)
  BY <1>8 DEF PutShard, a
<1>10. k = p - 1 \/ e.used + a <= Capacity
  BY <1>5 DEF Fits, EvictOldest
<1>11. v # None
  <2>1. i \in Nat /\ w.shards \subseteq Nat
    BY <1>1, <1>2 DEF StoredVersion
  <2>2. v \in StoredVersion
    BY <1>2, <2>1 DEF StoredVersion
  <2> QED BY <2>2, NoneAssumption
<1> HIDE DEF e, r, v
<1>12. /\ e.used \in Int /\ Capacity \in Nat
       /\ e.ver \in [Names -> StoredVersion \cup {None}]
  BY <1>7, CapacityAssumption DEF Consistent, Keys, Stores
<1>13. CASE e.used + a > Capacity
  BY <1>2, <1>4, <1>5, <1>6, <1>7, <1>9, <1>10, <1>12, <1>13 DEF r, e, k, p, a
<1>14. CASE ~(e.used + a > Capacity)
  <2>1. /\ r.order = e.order /\ r.used = e.used + a
        /\ r.ver = [e.ver EXCEPT ![name] = v]
    BY <1>9, <1>14 DEF Update
  <2>2. r.ver[name] = v /\ \A n \in Names \ {name} : r.ver[n] = e.ver[n]
    BY <1>12, <2>1
  <2>3. Held(r) = Held(e)
    BY <1>2, <1>6, <1>7, <1>11, <2>2 DEF Held
  <2>4. \A n \in Held(r) \ {name} : r.ver[n] = s.ver[n]
    BY <1>7, <2>2, <2>3 DEF Held
  <2>5. e.used + a <= Capacity
    BY <1>4, <1>12, <1>14
  <2> QED BY <1>2, <1>4, <1>5, <1>6, <1>7, <1>12, <2>1, <2>3, <2>4, <2>5
          DEF r, e, k, p, a
<1> QED BY <1>13, <1>14
=============================================================================
