---------------------------- MODULE RelayProofs -----------------------------
(***************************************************************************)
(* Theorems about the relay (litecast/registry/middle.py): one session of  *)
(* it with the publishers of its run (RelaySession), and the supervisor    *)
(* that keeps a session for every subscribed run (Subscriptions), for any  *)
(* number of publishers, bundles, versions and runs, any surroundings and  *)
(* any contents of the subscription file.                                  *)
(*                                                                         *)
(* For a session the inductive invariant is SessionInv: everything that is *)
(* registered belongs to the publisher it names; a MiddleNode has one      *)
(* publisher upstream and holds that publisher's bytes under that          *)
(* publisher's numbers; and a number that was verified means the advertised*)
(* bundle at that publisher, which never takes it back.                    *)
(*                                                                         *)
(* For the supervisor it is SubsInv: a run has a task exactly while it is  *)
(* in the dictionary or is waited for, the runs still to detach are those  *)
(* that the accepted snapshot lacks, and that snapshot is one the file has *)
(* contained.                                                              *)
(***************************************************************************)
EXTENDS RelaySession, Subscriptions, FiniteSetTheorems, TLAPS

-----------------------------------------------------------------------------
(* The session *)

(* What a publisher broadcasts, and what is registered for it, is its own. *)
Sourced ==
    /\ \A o \in Owners : \A v \in 1 .. Len(origin[o]) : origin[o][v] \in world.bundles[o]
    /\ \A r \in records \cup seen : r.digest \in world.bundles[r.owner]

(* The MiddleNode holds bytes of the origin of o under o's own numbers. *)
CacheOf(o) ==
    /\ cache.from = {world.address[o]}
    /\ \A v \in Versions :
          cache.held[v] # None => v <= Len(origin[o]) /\ cache.held[v] = origin[o][v]

SingleSource == cache # None => \E o \in Owners : CacheOf(o)

(* d is what an upstream of the MiddleNode broadcast as version v. *)
Means(v, d) ==
    \E o \in Owners : /\ cache.from = {world.address[o]}
                      /\ v \in 1 .. Len(origin[o]) /\ origin[o][v] = d

Backed ==
    /\ \A d \in Registered : cache # None /\ Means(regs[d], d)
    /\ pc \in {"verify", "register"} => cache # None
    /\ pc = "register" => Means(at.version, Digest)

SessionInv == TypeOK /\ Sourced /\ (Apart => SingleSource /\ Backed)

-----------------------------------------------------------------------------
(* What the assumptions say of the surroundings. *)
LEMMA WorldFacts ==
    ASSUME TypeOK
    PROVE  /\ world.address \in [Owners -> Nat]
           /\ world.bundles \in [Owners -> SUBSET Digests]
           /\ world.retain \in Nat \ {0}
BY WorldsAssumption DEF TypeOK

LEMMA SessionInit == Init => SessionInv
<1> SUFFICES ASSUME Init PROVE SessionInv
  OBVIOUS
<1> USE DEF Init
<1>1. TypeOK
  <2>1. origin \in [Owners -> Seq(Digests)] /\ \A o \in Owners : Len(origin[o]) <= MaxVersion
    BY MaxVersionAssumption
  <2>2. regs \in [Digests -> Versions \cup {None}]
    BY DEF NoRegs
  <2>3. desired \in Seq(Digests) /\ Len(desired) = 0
    OBVIOUS
  <2>4. /\ at \in [pub : 1 .. (Len(desired) + 1), version : Versions \cup {None}]
        /\ at.pub = 1
    BY <2>3 DEF Nowhere
  <2>5. phase \in [Owners -> {"new", "up", "down"}]
    OBVIOUS
  <2> QED BY <2>1, <2>2, <2>3, <2>4, <2>5 DEF TypeOK
<1>2. Sourced
  BY DEF Sourced
<1>3. SingleSource
  BY DEF SingleSource
<1>4. Backed
  BY DEF Backed, Registered, NoRegs
<1> QED BY <1>1, <1>2, <1>3, <1>4 DEF SessionInv

-----------------------------------------------------------------------------
(* The publishers and the registry.  What was broadcast keeps its number.  *)
Grows ==
    \A o \in Owners :
        /\ Len(origin'[o]) >= Len(origin[o])
        /\ \A v \in 1 .. Len(origin[o]) : origin'[o][v] = origin[o][v]

LEMMA GrowsOK ==
    ASSUME SessionInv, TypeOK', Grows, UNCHANGED <<world, sess, cache>>, Apart
    PROVE  SingleSource' /\ Backed'
<1> USE DEF sess
<1>1. \A o \in Owners : Len(origin[o]) \in Nat /\ Len(origin'[o]) \in Nat
  BY DEF SessionInv, TypeOK
<1>2. SingleSource'
  <2> SUFFICES ASSUME cache # None PROVE \E o \in Owners : CacheOf(o)'
    BY DEF SingleSource, CacheOf
  <2>1. PICK o \in Owners : CacheOf(o)
    BY DEF SessionInv, SingleSource
  <2>2. CacheOf(o)'
    <3> SUFFICES ASSUME NEW v \in Versions, cache.held[v] # None
                 PROVE  v <= Len(origin'[o]) /\ cache.held[v] = origin'[o][v]
      BY <2>1 DEF CacheOf, Versions
    <3>1. v <= Len(origin[o]) /\ cache.held[v] = origin[o][v]
      BY <2>1 DEF CacheOf
    <3>2. v \in 1 .. Len(origin[o])
      BY <1>1, <3>1, MaxVersionAssumption DEF Versions
    <3> QED BY <1>1, <3>1, <3>2, MaxVersionAssumption DEF Grows, Versions
  <2> QED BY <2>2
<1>3. ASSUME NEW v, NEW d, Means(v, d)
      PROVE  Means(v, d)'
  <2>1. PICK o \in Owners : /\ cache.from = {world.address[o]}
                            /\ v \in 1 .. Len(origin[o]) /\ origin[o][v] = d
    BY <1>3 DEF Means
  <2>2. v \in 1 .. Len(origin'[o]) /\ origin'[o][v] = d
    BY <1>1, <2>1 DEF Grows
  <2> QED BY <2>1, <2>2 DEF Means
<1>4. Backed'
  <2>1. \A v, d : Means(v, d) => Means(v, d)'
    BY <1>3
  <2>2. Registered' = Registered /\ Digest' = Digest
    BY DEF Registered, Digest
  <2>3. Backed
    BY DEF SessionInv
  <2> QED BY <2>1, <2>2, <2>3 DEF Backed
<1> QED BY <1>2, <1>4

LEMMA LeaseOK ==
    ASSUME SessionInv, Lapse \/ \E o \in Owners : Start(o) \/ Die(o)
    PROVE  SessionInv'
<1>1. /\ UNCHANGED <<world, origin, records, sess, cache>>
      /\ phase' \in [Owners -> {"new", "up", "down"}]
  BY DEF SessionInv, TypeOK, Start, Lapse, Die
<1>2. lease' = None \/ lease' \in [owner : Owners, pubs : Seq(Digests)]
  <2>1. << >> \in Seq(Digests)
    OBVIOUS
  <2>2. CASE \E o \in Owners : Start(o)
    BY <2>1, <2>2 DEF Start
  <2>3. CASE Lapse
    BY <2>3 DEF Lapse
  <2>4. CASE \E o \in Owners : Die(o)
    BY <2>4 DEF SessionInv, TypeOK, Die
  <2> QED BY <2>2, <2>3, <2>4
<1>3. TypeOK'
  BY <1>1, <1>2 DEF SessionInv, TypeOK, sess
<1>4. Sourced'
  BY <1>1 DEF SessionInv, Sourced, sess
<1>5. Grows
  BY <1>1 DEF Grows, SessionInv, TypeOK
<1> QED BY <1>1, <1>3, <1>4, <1>5, GrowsOK DEF SessionInv, Apart

LEMMA PublishOK ==
    ASSUME SessionInv, NEW o \in Owners, NEW d \in Digests, Publish(o, d)
    PROVE  SessionInv'
<1> USE DEF Publish
<1>1. /\ origin' \in [Owners -> Seq(Digests)]
      /\ origin'[o] = Append(origin[o], d)
      /\ \A q \in Owners : q # o => origin'[q] = origin[q]
  BY DEF SessionInv, TypeOK
<1>2. /\ Len(origin[o]) \in Nat /\ Len(origin'[o]) = Len(origin[o]) + 1
      /\ origin'[o][Len(origin[o]) + 1] = d
      /\ \A v \in 1 .. Len(origin[o]) : origin'[o][v] = origin[o][v]
  BY <1>1 DEF SessionInv, TypeOK
<1>3. \A q \in Owners : Len(origin'[q]) <= MaxVersion
  BY <1>1, <1>2, MaxVersionAssumption DEF SessionInv, TypeOK
<1>4. Len(origin[o]) + 1 \in Versions
  BY <1>2, MaxVersionAssumption DEF Versions
<1>5. TypeOK'
  <2>1. records' \subseteq Records
    BY <1>4 DEF SessionInv, TypeOK, Records
  <2> QED BY <1>1, <1>3, <2>1 DEF SessionInv, TypeOK, sess
<1>6. Sourced'
  <2>1. ASSUME NEW q \in Owners, NEW v \in 1 .. Len(origin'[q])
        PROVE  origin'[q][v] \in world.bundles[q]
    <3>1. CASE q # o
      BY <1>1, <3>1 DEF SessionInv, Sourced
    <3>2. CASE q = o /\ v \in 1 .. Len(origin[o])
      BY <1>2, <3>2 DEF SessionInv, Sourced
    <3>3. CASE q = o /\ v = Len(origin[o]) + 1
      BY <1>2, <3>3
    <3> QED BY <1>2, <3>1, <3>2, <3>3
  <2> QED BY <2>1 DEF SessionInv, Sourced, sess
<1>7. Grows
  <2>1. \A q \in Owners : Len(origin[q]) \in Nat
    BY DEF SessionInv, TypeOK
  <2> QED BY <1>1, <1>2, <2>1 DEF Grows
<1> QED BY <1>5, <1>6, <1>7, GrowsOK DEF SessionInv, Apart

LEMMA RenewOK ==
    ASSUME SessionInv, NEW o \in Owners, Renew(o)
    PROVE  SessionInv'
<1> USE DEF Renew
<1>1. Len(origin[o]) \in Nat /\ origin[o] \in Seq(Digests) /\ Len(origin[o]) <= MaxVersion
  BY DEF SessionInv, TypeOK
<1>2. Publications(o) \in Seq(Digests)
  <2>1. world.retain \in Nat \ {0}
    BY WorldFacts DEF SessionInv
  <2> DEFINE n == Len(origin[o])
             m == IF n <= world.retain THEN 1 ELSE n - world.retain + 1
  <2>2. m \in Int /\ m >= 1
    BY <1>1, <2>1
  <2>3. SubSeq(origin[o], m, n) \in Seq(Digests)
    <3> HIDE DEF m
    <3> QED BY <1>1, <2>2
  <2> QED BY <2>3 DEF Publications
<1>3. ASSUME NEW r \in Sources(o)
      PROVE  r \in Records /\ r.owner = o /\ r.digest \in world.bundles[o]
  <2>1. PICK v \in 1 .. Len(origin[o]) :
           r = [owner |-> o, digest |-> origin[o][v], version |-> v]
    BY <1>3 DEF Sources
  <2>2. v \in Versions /\ origin[o][v] \in Digests /\ origin[o][v] \in world.bundles[o]
    BY <1>1, MaxVersionAssumption DEF SessionInv, Sourced, Versions
  <2> QED BY <2>1, <2>2 DEF Records
<1>4. TypeOK'
  BY <1>2, <1>3 DEF SessionInv, TypeOK, sess
<1>5. Sourced'
  BY <1>3 DEF SessionInv, Sourced, sess
<1>6. Grows
  BY DEF Grows, SessionInv, TypeOK
<1> QED BY <1>4, <1>5, <1>6, GrowsOK DEF SessionInv, Apart

LEMMA ExpireOK ==
    ASSUME SessionInv, (\E r \in records : ExpireRecord(r)) \/ (\E a \in adverts : ExpireAdvert(a))
    PROVE  SessionInv'
<1>1. /\ UNCHANGED <<world, phase, origin, lease, pc, owner, regs, desired, seen, at, cache>>
      /\ records' \subseteq records /\ adverts' \subseteq adverts
  BY DEF ExpireRecord, ExpireAdvert, sess, env
<1>2. TypeOK'
  BY <1>1 DEF SessionInv, TypeOK
<1>3. Sourced'
  BY <1>1 DEF SessionInv, Sourced
<1>4. Apart => SingleSource' /\ Backed'
  BY <1>1 DEF SessionInv, SingleSource, CacheOf, Backed, Registered, Means, Digest
<1> QED BY <1>1, <1>2, <1>3, <1>4 DEF SessionInv, Apart

-----------------------------------------------------------------------------
(* The MiddleNode *)

(* Only one publisher is upstream of a MiddleNode. *)
LEMMA OneUpstream ==
    ASSUME SessionInv, Apart, NEW o \in Owners, Upstream(o)
    PROVE  CacheOf(o)
<1>1. PICK q \in Owners : CacheOf(q)
  BY DEF SessionInv, SingleSource, Upstream
<1>2. world.address[o] = world.address[q]
  BY <1>1 DEF CacheOf, Upstream
<1> QED BY <1>1, <1>2 DEF Apart

(* A change of what is held that leaves the meaning of numbers alone. *)
LEMMA CacheOK ==
    ASSUME SessionInv, UNCHANGED <<env, sess>>, cache # None, cache' \in Cache,
           cache'.from = cache.from, NEW o \in Owners, Upstream(o),
           ASSUME CacheOf(o), NEW v \in Versions, cache'.held[v] # None
           PROVE  v <= Len(origin[o]) /\ cache'.held[v] = origin[o][v]
    PROVE  SessionInv'
<1> USE DEF env, sess
<1>1. TypeOK'
  BY DEF SessionInv, TypeOK
<1>2. Sourced'
  BY DEF SessionInv, Sourced
<1>3. ASSUME Apart PROVE SingleSource' /\ Backed'
  <2>1. CacheOf(o)
    BY <1>3, OneUpstream
  <2>2. CacheOf(o)'
    BY <2>1 DEF CacheOf, Versions
  <2>3. cache' # None
    BY NoneAssumption
  <2>4. \A v, d : Means(v, d) => Means(v, d)'
    BY DEF Means
  <2>5. Backed
    BY <1>3 DEF SessionInv
  <2>6. Registered' = Registered /\ Digest' = Digest
    BY DEF Registered, Digest
  <2> QED BY <2>2, <2>3, <2>4, <2>5, <2>6 DEF SingleSource, Backed
<1> QED BY <1>1, <1>2, <1>3 DEF SessionInv, Apart

LEMMA CacheFetchOK ==
    ASSUME SessionInv, NEW o \in Owners, NEW v \in Versions, CacheFetch(o, v)
    PROVE  SessionInv'
<1> USE DEF CacheFetch
<1>1. cache # None /\ cache \in Cache /\ Upstream(o)
  BY DEF Upstream, SessionInv, TypeOK
<1>2. v \in 1 .. Len(origin[o]) /\ origin[o][v] \in Digests
  BY DEF Offers, SessionInv, TypeOK
<1>3. /\ cache' \in Cache /\ cache'.from = cache.from /\ cache'.held[v] = origin[o][v]
      /\ \A w \in Versions : w # v => cache'.held[w] = cache.held[w]
  BY <1>1, <1>2 DEF Cache
<1>4. ASSUME CacheOf(o), NEW w \in Versions, cache'.held[w] # None
      PROVE  w <= Len(origin[o]) /\ cache'.held[w] = origin[o][w]
  BY <1>2, <1>3, <1>4 DEF CacheOf
<1> QED BY <1>1, <1>3, <1>4, CacheOK

LEMMA CacheDropOK ==
    ASSUME SessionInv, NEW o \in Owners, CacheDrop(o)
    PROVE  SessionInv'
<1> USE DEF CacheDrop
<1>1. cache # None /\ cache \in Cache /\ Upstream(o)
  BY DEF Upstream, SessionInv, TypeOK
<1>2. /\ cache' \in Cache /\ cache'.from = cache.from
      /\ \A w \in Versions : cache'.held[w] \in {cache.held[w], None}
  BY <1>1 DEF Cache
<1>3. ASSUME CacheOf(o), NEW w \in Versions, cache'.held[w] # None
      PROVE  w <= Len(origin[o]) /\ cache'.held[w] = origin[o][w]
  BY <1>2, <1>3 DEF CacheOf
<1> QED BY <1>1, <1>2, <1>3, CacheOK

-----------------------------------------------------------------------------
(* The session *)

(* What the session has advertised has the type of an advertisement. *)
LEMMA OwnIsTyped ==
    ASSUME TypeOK
    PROVE  Own(Registered) \subseteq Adverts /\ Own(Kept) \subseteq Own(Registered)
BY DEF TypeOK, Own, Registered, Kept, Advert, Adverts

LEMMA EndOK ==
    ASSUME SessionInv, UNCHANGED env, pc' = "retry", owner' = None, cache' = None,
           regs' = NoRegs, desired' = << >>, seen' = {}, at' = Nowhere,
           adverts' \subseteq Adverts
    PROVE  SessionInv'
<1> USE DEF env
<1>1. TypeOK'
  <2>1. regs' \in [Digests -> Versions \cup {None}]
    BY DEF NoRegs
  <2>2. desired' \in Seq(Digests) /\ Len(desired') = 0
    OBVIOUS
  <2>3. /\ at' \in [pub : 1 .. (Len(desired') + 1), version : Versions \cup {None}]
        /\ at'.pub = 1
    BY <2>2 DEF Nowhere
  <2> QED BY <2>1, <2>2, <2>3 DEF SessionInv, TypeOK
<1>2. Sourced'
  BY DEF SessionInv, Sourced
<1>3. SingleSource' /\ Backed'
  BY DEF SingleSource, Backed, Registered, NoRegs
<1> QED BY <1>1, <1>2, <1>3 DEF SessionInv

LEMMA RaiseOK ==
    ASSUME SessionInv, UNCHANGED env, Raise
    PROVE  SessionInv'
<1>1. adverts' \subseteq Adverts
  BY OwnIsTyped DEF Raise, SessionInv, TypeOK
<1> QED BY <1>1, EndOK DEF Raise

LEMMA RegistryRaisesOK ==
    ASSUME SessionInv, RegistryRaises
    PROVE  SessionInv'
<1>1. CASE Raise
  BY <1>1, RaiseOK DEF RegistryRaises
<1>2. CASE /\ pc = "register"
           /\ pc' = "retry" /\ owner' = None /\ cache' = None /\ regs' = NoRegs
           /\ desired' = << >> /\ seen' = {} /\ at' = Nowhere
           /\ adverts' = (adverts \ Own(Registered))
                            \cup {Advert(Digest, at.version)}
  <2>1. Advert(Digest, at.version) \in Adverts
    BY <1>2 DEF SessionInv, TypeOK, Advert, Adverts, Digest
  <2> QED BY <1>2, <2>1, EndOK DEF SessionInv, TypeOK, RegistryRaises
<1> QED BY <1>1, <1>2 DEF RegistryRaises

(* Steps between the reading of the registry and the visits: the cache and *)
(* the registrations of the session stay, or registrations are withdrawn.  *)
LEMMA CycleOK ==
    ASSUME SessionInv, UNCHANGED <<env, cache>>,
           pc' \in {"read", "models", "visit"}, owner' \in Owners \cup {None},
           adverts' \subseteq Adverts,
           regs' \in [Digests -> Versions \cup {None}],
           \A d \in Digests : regs'[d] \in {regs[d], None},
           desired' \in Seq(Digests), seen' \subseteq records \cup seen,
           at' \in [pub : 1 .. (Len(desired') + 1), version : Versions \cup {None}],
           pc' = "read" => at'.pub = 1
    PROVE  SessionInv'
<1> USE DEF env
<1>1. TypeOK'
  BY DEF SessionInv, TypeOK
<1>2. Sourced'
  BY DEF SessionInv, Sourced
<1>3. ASSUME Apart PROVE SingleSource' /\ Backed'
  <2>1. SingleSource'
    BY <1>3 DEF SessionInv, SingleSource, CacheOf
  <2>2. \A v, d : Means(v, d)' <=> Means(v, d)
    BY DEF Means
  <2>3. \A d \in Registered' : d \in Registered /\ regs'[d] = regs[d]
    BY DEF Registered
  <2>4. Backed
    BY <1>3 DEF SessionInv
  <2> QED BY <2>1, <2>2, <2>3, <2>4 DEF Backed
<1> QED BY <1>1, <1>2, <1>3 DEF SessionInv, Apart

LEMMA ReadOK ==
    ASSUME SessionInv, Retry \/ ReadNothing \/ ReadDesired \/ Models
    PROVE  SessionInv'
<1>1. CASE Retry
  BY <1>1, CycleOK DEF Retry, SessionInv, TypeOK
<1>2. CASE ReadNothing
  <2>1. regs' \in [Digests -> Versions \cup {None}] /\ \A d \in Digests : regs'[d] = None
    BY <1>2 DEF ReadNothing, NoRegs
  <2> QED BY <1>2, <2>1, CycleOK DEF ReadNothing, SessionInv, TypeOK
<1>3. CASE ReadDesired /\ Replaced
  BY <1>3, RaiseOK DEF ReadDesired
<1>4. CASE ReadDesired /\ ~Replaced
  <2>1. /\ owner' = lease.owner /\ desired' = lease.pubs /\ pc' = "models"
        /\ UNCHANGED <<env, adverts, regs, seen, at, cache>>
        /\ lease \in [owner : Owners, pubs : Seq(Digests)] /\ at.pub = 1
    BY <1>4 DEF ReadDesired, SessionInv, TypeOK
  <2>2. /\ owner' \in Owners /\ desired' \in Seq(Digests)
        /\ at' \in [pub : 1 .. (Len(desired') + 1), version : Versions \cup {None}]
    <3>1. owner' \in Owners /\ desired' \in Seq(Digests)
      BY <2>1
    <3>2. Len(desired') \in Nat
      BY <3>1
    <3>3. at.pub \in 1 .. (Len(desired') + 1)
      BY <2>1, <3>2
    <3> QED BY <2>1, <3>1, <3>3 DEF SessionInv, TypeOK
  <2> QED BY <2>1, <2>2, CycleOK DEF SessionInv, TypeOK
<1>5. CASE Models
  BY <1>5, CycleOK DEF Models, SessionInv, TypeOK, Nowhere
<1> QED BY <1>1, <1>2, <1>3, <1>4, <1>5

LEMMA KeepOK ==
    ASSUME SessionInv, Keep
    PROVE  SessionInv'
<1> USE DEF Keep
<1>1. adverts' \subseteq Adverts
  BY OwnIsTyped DEF SessionInv, TypeOK
<1>2. /\ regs' \in [Digests -> Versions \cup {None}]
      /\ \A d \in Digests : regs'[d] \in {regs[d], None}
  BY DEF SessionInv, TypeOK
<1>3. desired' \in Seq(Digests) /\ Len(desired') = 0
  OBVIOUS
<1>4. /\ at' \in [pub : 1 .. (Len(desired') + 1), version : Versions \cup {None}]
      /\ at'.pub = 1
  BY <1>3 DEF Nowhere
<1> QED BY <1>1, <1>2, <1>3, <1>4, CycleOK DEF SessionInv, TypeOK

(* A MiddleNode that is started takes the origins of one bundle as its     *)
(* upstreams: those of one publisher.                                      *)
LEMMA NewCacheOK ==
    ASSUME SessionInv, Apart, Origins # {}, cache = None, cache' # None,
           cache' = [from |-> {world.address[q.owner] : q \in Origins},
                     held |-> [v \in Versions |-> None]],
           UNCHANGED env
    PROVE  SingleSource'
<1>1. PICK r \in Origins : TRUE
  OBVIOUS
<1>2. \A q \in Origins : q.owner \in Owners /\ Digest \in world.bundles[q.owner]
  BY DEF Origins, SessionInv, Sourced, TypeOK, Records
<1>3. \A q \in Origins : q.owner = r.owner
  BY <1>1, <1>2 DEF Apart
<1>4. {world.address[q.owner] : q \in Origins} = {world.address[r.owner]}
  BY <1>1, <1>3
<1>5. CacheOf(r.owner)'
  BY <1>4 DEF CacheOf, env
<1> QED BY <1>1, <1>2, <1>5 DEF SingleSource

LEMMA VisitOK ==
    ASSUME SessionInv, Visit
    PROVE  SessionInv'
<1>1. /\ UNCHANGED <<env, adverts, owner, regs, desired, seen>>
      /\ pc = "visit" /\ at.pub \in 1 .. Len(desired) /\ Len(desired) \in Nat
  BY DEF Visit, SessionInv, TypeOK
<1>2. CASE Origins = {}
  <2>1. pc' = "visit" /\ UNCHANGED cache
    BY <1>2 DEF Visit, Onward
  <2>2. at' \in [pub : 1 .. (Len(desired') + 1), version : Versions \cup {None}]
    BY <1>1, <1>2 DEF Visit, Onward
  <2> QED BY <1>1, <2>1, <2>2, CycleOK DEF SessionInv, TypeOK
<1>3. ASSUME NEW r \in Origins,
             cache' = IF cache # None THEN cache
                      ELSE [from |-> {world.address[q.owner] : q \in Origins},
                            held |-> [v \in Versions |-> None]],
             IF Holds(r.version) /\ regs[Digest] = None
             THEN pc' = "verify" /\ at' = [at EXCEPT !.version = r.version]
             ELSE Onward
      PROVE  SessionInv'
  <2>1. r.version \in Versions /\ \A q \in Origins : q.owner \in Owners
    BY DEF Origins, SessionInv, TypeOK, Records
  <2>2. cache' \in Cache /\ cache' # None
    <3>1. world.address \in [Owners -> Nat]
      BY WorldFacts DEF SessionInv
    <3>2. CASE cache = None
      BY <1>3, <2>1, <3>1, <3>2, NoneAssumption DEF Cache
    <3> QED BY <1>3, <3>2 DEF SessionInv, TypeOK
  <2>3. /\ pc' \in {"visit", "verify"}
        /\ at' \in [pub : 1 .. (Len(desired') + 1), version : Versions \cup {None}]
        /\ pc' = "verify" => at'.pub <= Len(desired') /\ at'.version \in Versions
    <3>1. CASE Holds(r.version) /\ regs[Digest] = None
      BY <1>1, <1>3, <2>1, <3>1 DEF SessionInv, TypeOK
    <3>2. CASE Onward
      BY <1>1, <3>2 DEF Onward, SessionInv, TypeOK
    <3> QED BY <1>3, <3>1, <3>2
  <2>4. TypeOK'
    BY <1>1, <2>2, <2>3 DEF SessionInv, TypeOK, env
  <2>5. Sourced'
    BY <1>1 DEF SessionInv, Sourced, env
  <2>6. ASSUME Apart PROVE SingleSource' /\ Backed'
    <3>1. CASE cache = None
      <4>1. Registered' = {}
        BY <1>1, <2>6, <3>1 DEF SessionInv, Backed, Registered
      <4>2. SingleSource'
        BY <1>1, <1>3, <2>2, <2>6, <3>1, NewCacheOK
      <4> QED BY <2>2, <2>3, <4>1, <4>2 DEF Backed
    <3>2. CASE cache # None
      <4>1. cache' = cache
        BY <1>3, <3>2
      <4>2. SingleSource'
        BY <1>1, <2>6, <4>1 DEF SessionInv, SingleSource, CacheOf, env
      <4>3. \A v, d : Means(v, d)' <=> Means(v, d)
        BY <1>1, <4>1 DEF Means, env
      <4>4. Registered' = Registered /\ regs' = regs
        BY <1>1 DEF Registered
      <4>5. Backed
        BY <2>6 DEF SessionInv
      <4> QED BY <2>2, <2>3, <4>2, <4>3, <4>4, <4>5 DEF Backed
    <3> QED BY <3>1, <3>2
  <2> QED BY <1>1, <2>4, <2>5, <2>6 DEF SessionInv, Apart, env
<1> QED BY <1>2, <1>3 DEF Visit

(* What the MiddleNode holds under a number is what its origin broadcast   *)
(* under it, so a verified number means the publication from then on.      *)
LEMMA VerifyOK ==
    ASSUME SessionInv, Verify
    PROVE  SessionInv'
<1> USE DEF Verify
<1>1. CASE cache.held[at.version] # Digest
  BY <1>1, RaiseOK
<1>2. CASE cache.held[at.version] = Digest
  <2>1. UNCHANGED <<env, adverts, owner, regs, desired, seen, at, cache>> /\ pc' = "register"
    BY <1>2
  <2>2. TypeOK'
    BY <2>1 DEF SessionInv, TypeOK, env
  <2>3. Sourced'
    BY <2>1 DEF SessionInv, Sourced, env
  <2>4. ASSUME Apart PROVE SingleSource' /\ Backed'
    <3>1. Backed /\ cache # None
      BY <2>4 DEF SessionInv, Backed
    <3>2. PICK o \in Owners : CacheOf(o)
      BY <2>4, <3>1 DEF SessionInv, SingleSource
    <3>3. Digest \in Digests /\ at.version \in Versions
      BY DEF SessionInv, TypeOK, Digest
    <3>4. Means(at.version, Digest)
      <4>1. at.version <= Len(origin[o]) /\ origin[o][at.version] = Digest
        BY <1>2, <3>2, <3>3, NoneAssumption DEF CacheOf
      <4>2. Len(origin[o]) \in Nat
        BY DEF SessionInv, TypeOK
      <4> QED BY <3>2, <3>3, <4>1, <4>2, MaxVersionAssumption DEF Means, CacheOf, Versions
    <3>5. \A v, d : Means(v, d)' <=> Means(v, d)
      BY <2>1 DEF Means, env
    <3>6. Registered' = Registered /\ Digest' = Digest
      BY <2>1 DEF Registered, Digest
    <3>7. SingleSource'
      BY <2>1, <2>4 DEF SessionInv, SingleSource, CacheOf, env
    <3> QED BY <2>1, <3>1, <3>4, <3>5, <3>6, <3>7 DEF Backed
  <2> QED BY <2>1, <2>2, <2>3, <2>4 DEF SessionInv, Apart, env
<1> QED BY <1>1, <1>2

LEMMA RegisterOK ==
    ASSUME SessionInv, Register
    PROVE  SessionInv'
<1> USE DEF Register
<1>1. /\ Digest \in Digests /\ at.version \in Versions
      /\ at.pub \in 1 .. Len(desired) /\ Len(desired) \in Nat
  BY DEF SessionInv, TypeOK, Digest
<1>2. /\ regs' \in [Digests -> Versions \cup {None}] /\ regs'[Digest] = at.version
      /\ \A d \in Digests : d # Digest => regs'[d] = regs[d]
  BY <1>1 DEF SessionInv, TypeOK
<1>3. TypeOK'
  <2>1. adverts' \subseteq Adverts
    BY <1>1 DEF SessionInv, TypeOK, Advert, Adverts
  <2>2. /\ pc' = "visit"
        /\ at' \in [pub : 1 .. (Len(desired') + 1), version : Versions \cup {None}]
    BY <1>1 DEF Onward
  <2> QED BY <1>2, <2>1, <2>2 DEF SessionInv, TypeOK, env
<1>4. Sourced'
  BY DEF SessionInv, Sourced, env
<1>5. ASSUME Apart PROVE SingleSource' /\ Backed'
  <2>1. Backed
    BY <1>5 DEF SessionInv
  <2>2. \A v, d : Means(v, d)' <=> Means(v, d)
    BY DEF Means, env
  <2>3. ASSUME NEW d \in Registered'
        PROVE  cache' # None /\ Means(regs'[d], d)
    <3>1. CASE d = Digest
      BY <1>2, <2>1, <3>1 DEF Backed
    <3>2. CASE d # Digest
      BY <1>2, <2>1, <2>3, <3>2 DEF Backed, Registered
    <3> QED BY <3>1, <3>2
  <2>4. SingleSource'
    BY <1>5 DEF SessionInv, SingleSource, CacheOf, env
  <2>5. pc' = "visit"
    BY DEF Onward
  <2> QED BY <2>2, <2>3, <2>4, <2>5 DEF Backed
<1> QED BY <1>3, <1>4, <1>5 DEF SessionInv, Apart, env

-----------------------------------------------------------------------------
LEMMA SessionStep == SessionInv /\ [Next]_vars => SessionInv'
<1> SUFFICES ASSUME SessionInv, [Next]_vars PROVE SessionInv'
  OBVIOUS
<1>1. CASE UNCHANGED vars
  <2> USE <1>1 DEF vars, env, sess
  <2>1. TypeOK'
    BY DEF SessionInv, TypeOK
  <2>2. Sourced'
    BY DEF SessionInv, Sourced
  <2>3. Apart => SingleSource' /\ Backed'
    BY DEF SessionInv, SingleSource, CacheOf, Backed, Registered, Means, Digest
  <2> QED BY <2>1, <2>2, <2>3 DEF SessionInv, Apart
<1>2. CASE Session
  <2>1. CASE Retry \/ ReadNothing \/ ReadDesired \/ Models
    BY <2>1, ReadOK
  <2>2. CASE Visit
    BY <2>2, VisitOK
  <2>3. CASE Verify
    BY <2>3, VerifyOK
  <2>4. CASE Register
    BY <2>4, RegisterOK
  <2>5. CASE Keep
    BY <2>5, KeepOK
  <2> QED BY <1>2, <2>1, <2>2, <2>3, <2>4, <2>5 DEF Session
<1>3. CASE RegistryRaises
  BY <1>3, RegistryRaisesOK
<1>4. CASE Lapse
  BY <1>4, LeaseOK
<1>5. CASE \E o \in Owners : \/ Start(o) \/ Renew(o) \/ Die(o) \/ CacheDrop(o)
                              \/ \E d \in Digests : Publish(o, d)
                              \/ \E v \in Versions : CacheFetch(o, v)
  <2> PICK o \in Owners : \/ Start(o) \/ Renew(o) \/ Die(o) \/ CacheDrop(o)
                          \/ \E d \in Digests : Publish(o, d)
                          \/ \E v \in Versions : CacheFetch(o, v)
    BY <1>5
  <2>1. CASE Start(o) \/ Die(o)
    BY <2>1, LeaseOK
  <2>2. CASE Renew(o)
    BY <2>2, RenewOK
  <2>3. CASE CacheDrop(o)
    BY <2>3, CacheDropOK
  <2>4. CASE \E d \in Digests : Publish(o, d)
    BY <2>4, PublishOK
  <2>5. CASE \E v \in Versions : CacheFetch(o, v)
    BY <2>5, CacheFetchOK
  <2> QED BY <2>1, <2>2, <2>3, <2>4, <2>5
<1>6. CASE (\E r \in records : ExpireRecord(r)) \/ (\E a \in adverts : ExpireAdvert(a))
  BY <1>6, ExpireOK
<1> QED BY <1>1, <1>2, <1>3, <1>4, <1>5, <1>6 DEF Next, Regular

(* The invariant of a session and its surroundings: see SessionInv. *)
THEOREM SessionInvariant == Spec => []SessionInv
BY SessionInit, SessionStep, PTL DEF Spec

(* Type correctness of serve_publisher's state, of the MiddleNode it runs  *)
(* and of the registry records it reads and writes.                        *)
THEOREM SessionTypeCorrect == Spec => []TypeOK
<1>1. SessionInv => TypeOK
  BY DEF SessionInv
<1> QED BY <1>1, SessionInvariant, PTL

(* What serve_publisher advertises under a version number of its cache is  *)
(* the bundle whose digest it advertises, for any number of publishers     *)
(* that replace one another, as long as they are Apart.                    *)
THEOREM AdvertisementsAreRight == Spec => []AdvertisedIsRight
<1>1. SessionInv => AdvertisedIsRight
  <2> SUFFICES ASSUME SessionInv, Apart, NEW d \in Registered, Holds(regs[d])
               PROVE  cache.held[regs[d]] = d
    BY DEF AdvertisedIsRight
  <2>1. PICK o \in Owners : CacheOf(o)
    BY DEF SessionInv, SingleSource, Holds
  <2>2. PICK q \in Owners : /\ cache.from = {world.address[q]}
                            /\ regs[d] \in 1 .. Len(origin[q]) /\ origin[q][regs[d]] = d
    BY DEF SessionInv, Backed, Means
  <2>3. q = o
    <3>1. world.address[q] = world.address[o]
      BY <2>1, <2>2 DEF CacheOf
    <3> QED BY <3>1 DEF Apart
  <2>4. regs[d] \in Versions
    BY DEF SessionInv, TypeOK, Registered
  <2> QED BY <2>1, <2>2, <2>3, <2>4 DEF CacheOf, Holds
<1> QED BY <1>1, SessionInvariant, PTL

-----------------------------------------------------------------------------
(* The supervisor *)

(* The runs that have a task. *)
Owned == sessions \cup ({joined} \ {Absent})

Task1 == [at : Places, stop : BOOLEAN, port : {0, Port}]

FileInv ==
    /\ edits \in Seq(Snapshots)
    /\ \E i \in 1 .. Len(edits) : edits[i] = runs
    /\ ~reloadable => Len(edits) = 1

LoopInv ==
    /\ joined = Absent <=> loop # "join"
    /\ joined \notin sessions
    /\ detach = sessions \ ToSet(runs)
    /\ loop \notin {"detach", "join"} => detach = {}

TasksInv ==
    /\ \A r \in Runs : Len(tasks[r]) = IF r \in Owned THEN 1 ELSE 0
    /\ IsFiniteSet(Owned) /\ Cardinality(Owned) <= MaxPublishers
    /\ \A r \in Runs : \A k \in 1 .. Len(tasks[r]) :
          tasks[r][k].port # 0 =>
             ~reloadable /\ Len(runs) = 1 /\ r \in ToSet(runs)

SubsInv == ServeTypeOK /\ FileInv /\ LoopInv /\ TasksInv /\ DetachedOnPurpose

-----------------------------------------------------------------------------
(* An accepted snapshot names no more runs than there may be sessions. *)
LEMMA AcceptedIsSmall ==
    ASSUME NEW s \in Snapshots, Accepts(s)
    PROVE  /\ s \in Seq(Runs) /\ ToSet(s) \subseteq Runs
           /\ IsFiniteSet(ToSet(s)) /\ Cardinality(ToSet(s)) <= MaxPublishers
<1>1. s \in Seq(Runs \cup {Malformed}) /\ ToSet(s) \subseteq Runs
  BY SnapshotsAssumption DEF Accepts
<1>2. s \in Seq(Runs)
  BY <1>1 DEF ToSet
<1>3. s \in Surjection(1 .. Len(s), ToSet(s))
  BY <1>2 DEF Surjection, ToSet
<1>4. Len(s) \in Nat /\ IsFiniteSet(1 .. Len(s)) /\ Cardinality(1 .. Len(s)) = Len(s)
  <2>1. Len(s) \in Nat
    BY <1>2
  <2>2. IsFiniteSet(1 .. Len(s))
        /\ Cardinality(1 .. Len(s)) = IF 1 > Len(s) THEN 0 ELSE Len(s) - 1 + 1
    BY <2>1, FS_Interval
  <2> QED BY <2>1, <2>2
<1>5. IsFiniteSet(ToSet(s)) /\ Cardinality(ToSet(s)) <= Len(s)
  BY <1>3, <1>4, FS_Surjection
<1>6. Cardinality(ToSet(s)) \in Nat /\ Len(s) <= MaxPublishers
  BY <1>5, FS_CardinalityType DEF Accepts
<1> QED BY <1>1, <1>2, <1>4, <1>5, <1>6, BoundsAssumption

(* The state of the file and of the accepted snapshot, in simple terms. *)
LEMMA SnapshotFacts ==
    ASSUME SubsInv
    PROVE  /\ runs \in Snapshots /\ Accepts(runs) /\ runs \in Seq(Runs)
           /\ ToSet(runs) \subseteq Runs /\ IsFiniteSet(ToSet(runs))
           /\ Cardinality(ToSet(runs)) <= MaxPublishers
           /\ Len(edits) \in Nat \ {0} /\ Last(edits) \in Snapshots
<1>1. PICK i \in 1 .. Len(edits) : edits[i] = runs
  BY DEF SubsInv, FileInv
<1>2. runs \in Snapshots /\ Accepts(runs) /\ edits \in Seq(Snapshots)
  BY <1>1 DEF SubsInv, ServeTypeOK, FileInv
<1>3. Len(edits) \in Nat \ {0} /\ edits[Len(edits)] \in Snapshots
  BY <1>1, <1>2
<1> QED BY <1>2, <1>3, AcceptedIsSmall DEF Last

LEMMA SubsInit == ServeInit => SubsInv
<1> SUFFICES ASSUME ServeInit PROVE SubsInv
  OBVIOUS
<1> USE DEF ServeInit
<1>1. runs \in Snapshots /\ Accepts(runs) /\ edits \in Seq(Snapshots)
      /\ Len(edits) = 1 /\ edits[1] = runs
  OBVIOUS
<1>2. ServeTypeOK
  <2>1. tasks \in [Runs -> Seq([at : Places, stop : BOOLEAN, port : {0, Port}])]
    OBVIOUS
  <2>2. sessions \cup ({joined} \ {Absent}) = {}
    OBVIOUS
  <2>3. \A i \in 1 .. Len(edits) : edits[i] \in Snapshots
    BY <1>1
  <2>4. reloadable \in BOOLEAN /\ stop \in BOOLEAN
    OBVIOUS
  <2>5. /\ loop \in {"reload", "detach", "join", "wait", "gather", "done"}
        /\ sessions \subseteq Runs /\ detach \subseteq sessions
        /\ joined \in Runs \cup {Absent}
    OBVIOUS
  <2> QED BY ONLY <1>1, <2>1, <2>2, <2>3, <2>4, <2>5 DEF ServeTypeOK
<1>3. FileInv
  BY <1>1 DEF FileInv
<1>4. LoopInv
  BY SnapshotsAssumption DEF LoopInv
<1>5. TasksInv
  <2>1. Owned = {} /\ IsFiniteSet(Owned) /\ Cardinality(Owned) = 0
    BY FS_EmptySet DEF Owned
  <2>2. \A r \in Runs : Len(tasks[r]) = 0
    OBVIOUS
  <2> QED BY <2>1, <2>2, BoundsAssumption DEF TasksInv
<1>6. DetachedOnPurpose
  BY DEF DetachedOnPurpose
<1> QED BY <1>2, <1>3, <1>4, <1>5, <1>6 DEF SubsInv

LEMMA EditOK ==
    ASSUME SubsInv, NEW s \in Snapshots, Edit(s)
    PROVE  SubsInv'
<1> USE DEF Edit
<1>1. /\ edits \in Seq(Snapshots) /\ edits' \in Seq(Snapshots)
      /\ Len(edits) \in Nat /\ Len(edits') = Len(edits) + 1
      /\ \A i \in 1 .. Len(edits) : edits'[i] = edits[i]
  BY DEF SubsInv, FileInv
<1>2. ServeTypeOK'
  <2>1. Accepts(runs)'
    BY DEF SubsInv, ServeTypeOK, Accepts
  <2>2. \A i \in 1 .. Len(edits') : edits'[i] \in Snapshots
    BY <1>1
  <2> QED BY <2>1, <2>2 DEF SubsInv, ServeTypeOK
<1>3. FileInv'
  BY <1>1 DEF SubsInv, FileInv
<1>4. LoopInv'
  BY DEF SubsInv, LoopInv
<1>5. TasksInv'
  BY DEF SubsInv, TasksInv, Owned
<1>6. DetachedOnPurpose'
  <2> SUFFICES ASSUME NEW r \in Runs, NEW k \in 1 .. Len(tasks[r]), tasks[r][k].stop, ~stop
               PROVE  \E i \in 1 .. Len(edits') :
                         Accepts(edits'[i]) /\ r \notin ToSet(edits'[i])
    BY DEF DetachedOnPurpose, Accepts
  <2>1. PICK i \in 1 .. Len(edits) : Accepts(edits[i]) /\ r \notin ToSet(edits[i])
    BY DEF SubsInv, DetachedOnPurpose
  <2> QED BY <1>1, <2>1
<1> QED BY <1>2, <1>3, <1>4, <1>5, <1>6 DEF SubsInv

(* Steps of serve that touch neither the sessions nor their tasks. *)
LEMMA QuietOK ==
    ASSUME SubsInv, UNCHANGED <<reloadable, edits, runs, sessions, tasks, detach, joined>>,
           stop' \in BOOLEAN, stop => stop',
           loop' \in {"reload", "wait", "gather", "done", loop},
           loop' # loop => loop \notin {"detach", "join"}
    PROVE  SubsInv'
<1>1. ServeTypeOK'
  BY DEF SubsInv, ServeTypeOK
<1>2. FileInv' /\ TasksInv' /\ DetachedOnPurpose'
  BY DEF SubsInv, FileInv, TasksInv, DetachedOnPurpose, Owned
<1>3. LoopInv'
  BY DEF SubsInv, LoopInv
<1> QED BY <1>1, <1>2, <1>3 DEF SubsInv

LEMMA ReloadOK == SubsInv /\ Reload => SubsInv'
<1> SUFFICES ASSUME SubsInv, Reload PROVE SubsInv'
  OBVIOUS
<1> USE DEF Reload
<1>1. PICK i \in 1 .. Len(edits) : edits[i] = runs'
  BY SnapshotFacts DEF SubsInv, FileInv, Last
<1>2. Accepts(runs')
  BY SnapshotFacts
<1>3. ServeTypeOK'
  <2>1. Accepts(runs)'
    BY <1>2 DEF Accepts
  <2> QED BY <2>1 DEF SubsInv, ServeTypeOK, LoopInv
<1>4. FileInv'
  BY <1>1 DEF SubsInv, FileInv
<1>5. LoopInv'
  BY DEF SubsInv, LoopInv
<1>6. TasksInv'
  <2>1. ASSUME ~reloadable PROVE runs' = runs
    <3>1. Len(edits) = 1
      BY <2>1 DEF SubsInv, FileInv
    <3> QED BY <1>1, <3>1 DEF SubsInv, FileInv
  <2> QED BY <2>1 DEF SubsInv, TasksInv, Owned
<1>7. DetachedOnPurpose'
  BY DEF SubsInv, DetachedOnPurpose, Accepts
<1> QED BY <1>3, <1>4, <1>5, <1>6, <1>7 DEF SubsInv

LEMMA NotEmpty ==
    ASSUME NEW s, Len(s) = 1
    PROVE  s # << >>
OBVIOUS

(* What a change of one run's tasks has to respect. *)
LEMMA Typed ==
    ASSUME SubsInv, NEW r \in Runs
    PROVE  /\ tasks \in [Runs -> Seq(Task1)]
           /\ tasks[r] \in Seq(Task1) /\ Len(tasks[r]) \in {0, 1}
           /\ r \in Owned <=> Len(tasks[r]) = 1
<1>1. tasks \in [Runs -> Seq(Task1)]
  BY DEF SubsInv, ServeTypeOK, Task1
<1>2. Len(tasks[r]) = IF r \in Owned THEN 1 ELSE 0
  BY DEF SubsInv, TasksInv
<1> QED BY <1>1, <1>2

(* Telling a session to stop leaves everything else of its task alone. *)
LEMMA SetStopFacts ==
    ASSUME SubsInv, NEW r \in Owned \cap Runs
    PROVE  /\ SetStop(r) \in Seq(Task1) /\ Len(SetStop(r)) = 1
           /\ SetStop(r)[1].port = tasks[r][1].port
           /\ SetStop(r)[1].stop = TRUE
<1>1. tasks[r] \in Seq(Task1) /\ Len(tasks[r]) = 1
  BY Typed
<1>2. tasks[r][1] \in Task1
  BY <1>1
<1> DEFINE x == [tasks[r][1] EXCEPT !.stop = TRUE]
<1>3. x \in Task1 /\ x.port = tasks[r][1].port /\ x.stop = TRUE
  BY <1>2 DEF Task1
<1>4. SetStop(r) = [tasks[r] EXCEPT ![1] = x]
  BY <1>1 DEF SetStop
<1> HIDE DEF x
<1> QED BY <1>1, <1>3, <1>4

LEMMA DetachOK ==
    ASSUME SubsInv, NEW r \in Runs, Detach(r)
    PROVE  SubsInv'
<1> USE DEF Detach
<1>1. r \in sessions /\ r \in Owned \cap Runs /\ r \notin ToSet(runs) /\ joined = Absent
      /\ r # Absent
  BY SnapshotsAssumption DEF SubsInv, ServeTypeOK, LoopInv, Owned
<1>2. Owned' = Owned
  BY <1>1 DEF Owned
<1>3. /\ SetStop(r) \in Seq(Task1) /\ Len(SetStop(r)) = 1
      /\ SetStop(r)[1].port = tasks[r][1].port
  BY <1>1, SetStopFacts
<1>4. /\ tasks' \in [Runs -> Seq(Task1)] /\ tasks'[r] = SetStop(r)
      /\ \A q \in Runs : q # r => tasks'[q] = tasks[q]
  BY <1>3, Typed
<1>5. \A q \in Runs : Len(tasks'[q]) = Len(tasks[q])
  BY <1>1, <1>3, <1>4, Typed
<1>6. ServeTypeOK'
  <2>1. Accepts(runs)'
    BY DEF SubsInv, ServeTypeOK, Accepts
  <2>2. \A q \in sessions' \cup ({joined'} \ {Absent}) : tasks'[q] # << >>
    <3> SUFFICES ASSUME NEW q \in Owned PROVE tasks'[q] # << >>
      BY <1>2 DEF Owned
    <3>1. q \in Runs
      BY DEF SubsInv, ServeTypeOK, Owned
    <3>2. Len(tasks'[q]) = 1 /\ tasks'[q] \in Seq(Task1)
      BY <1>4, <1>5, <3>1, Typed
    <3> QED BY <3>2, NotEmpty
  <2>3. sessions' \subseteq Runs /\ detach' \subseteq sessions' /\ joined' \in Runs \cup {Absent}
    BY DEF SubsInv, ServeTypeOK
  <2> QED BY <1>4, <2>1, <2>2, <2>3 DEF SubsInv, ServeTypeOK, Task1
<1>7. FileInv'
  BY DEF SubsInv, FileInv
<1>8. LoopInv'
  BY <1>1 DEF SubsInv, LoopInv
<1>9. TasksInv'
  <2>1. \A q \in Runs : \A k \in 1 .. Len(tasks[q]) : tasks'[q][k].port = tasks[q][k].port
    BY <1>3, <1>4, <1>5, Typed
  <2> QED BY <1>2, <1>5, <2>1 DEF SubsInv, TasksInv
<1>10. DetachedOnPurpose'
  <2> SUFFICES ASSUME NEW q \in Runs, NEW k \in 1 .. Len(tasks'[q]), tasks'[q][k].stop
               PROVE  \/ stop
                      \/ \E i \in 1 .. Len(edits) :
                            Accepts(edits[i]) /\ q \notin ToSet(edits[i])
    BY DEF DetachedOnPurpose, Accepts
  <2>1. CASE q = r
    BY <1>1, <2>1, SnapshotFacts DEF SubsInv, FileInv
  <2>2. CASE q # r
    BY <1>4, <2>2 DEF SubsInv, DetachedOnPurpose
  <2> QED BY <2>1, <2>2
<1> QED BY <1>6, <1>7, <1>8, <1>9, <1>10 DEF SubsInv

LEMMA JoinOK == SubsInv /\ Join => SubsInv'
<1> SUFFICES ASSUME SubsInv, Join PROVE SubsInv'
  OBVIOUS
<1> USE DEF Join
<1>1. joined \in Runs /\ joined \in Owned /\ joined \notin sessions /\ joined # Absent
  BY SnapshotsAssumption DEF SubsInv, ServeTypeOK, LoopInv, Owned
<1>2. Owned' = Owned \ {joined}
  BY <1>1 DEF Owned
<1>3. IsFiniteSet(Owned') /\ Cardinality(Owned') <= MaxPublishers
  <2>1. IsFiniteSet(Owned) /\ Cardinality(Owned) <= MaxPublishers
        /\ Owned' \in SUBSET Owned
    BY <1>2 DEF SubsInv, TasksInv
  <2>2. IsFiniteSet(Owned') /\ Cardinality(Owned') <= Cardinality(Owned)
    BY <2>1, FS_Subset
  <2>3. Cardinality(Owned') \in Nat /\ Cardinality(Owned) \in Nat
    BY <2>1, <2>2, FS_CardinalityType
  <2> QED BY <2>1, <2>2, <2>3, BoundsAssumption
<1>4. Front(tasks[joined]) = << >>
  <2>1. tasks[joined] \in Seq(Task1) /\ Len(tasks[joined]) = 1
    BY <1>1, Typed
  <2> QED BY <2>1 DEF Front
<1>5. /\ tasks' \in [Runs -> Seq(Task1)] /\ tasks'[joined] = << >>
      /\ \A q \in Runs : q # joined => tasks'[q] = tasks[q]
  BY <1>1, <1>4, Typed
<1>6. ServeTypeOK'
  <2>1. Accepts(runs)'
    BY DEF SubsInv, ServeTypeOK, Accepts
  <2>2. \A q \in sessions' \cup ({joined'} \ {Absent}) : tasks'[q] # << >>
    BY <1>1, <1>5 DEF SubsInv, ServeTypeOK
  <2> QED BY <1>5, <2>1, <2>2 DEF SubsInv, ServeTypeOK, Task1
<1>7. FileInv' /\ LoopInv'
  BY SnapshotsAssumption DEF SubsInv, FileInv, LoopInv, ServeTypeOK
<1>8. TasksInv'
  <2>1. ASSUME NEW q \in Runs
        PROVE  Len(tasks'[q]) = IF q \in Owned' THEN 1 ELSE 0
    BY <1>2, <1>5 DEF SubsInv, TasksInv
  <2>2. ASSUME NEW q \in Runs, NEW k \in 1 .. Len(tasks'[q])
        PROVE  q # joined /\ tasks'[q] = tasks[q]
    BY <1>5
  <2> QED BY <1>3, <2>1, <2>2 DEF SubsInv, TasksInv
<1>9. DetachedOnPurpose'
  <2> SUFFICES ASSUME NEW q \in Runs, NEW k \in 1 .. Len(tasks'[q]), tasks'[q][k].stop
               PROVE  \/ stop
                      \/ \E i \in 1 .. Len(edits) :
                            Accepts(edits[i]) /\ q \notin ToSet(edits[i])
    BY DEF DetachedOnPurpose, Accepts
  <2>1. q # joined /\ tasks'[q] = tasks[q]
    BY <1>5
  <2> QED BY <2>1 DEF SubsInv, DetachedOnPurpose
<1> QED BY <1>6, <1>7, <1>8, <1>9 DEF SubsInv

LEMMA AttachOK == SubsInv /\ Attach => SubsInv'
<1> SUFFICES ASSUME SubsInv, Attach PROVE SubsInv'
  OBVIOUS
<1> USE DEF Attach
<1>1. joined = Absent /\ sessions \subseteq ToSet(runs) /\ Owned = sessions
  BY DEF SubsInv, LoopInv, Owned
<1>2. sessions' = ToSet(runs) /\ Owned' = ToSet(runs)
  BY <1>1, SnapshotsAssumption, SnapshotFacts DEF Owned
<1>3. /\ NewTask \in Task1 /\ ~NewTask.stop
      /\ NewTask.port # 0 => ~reloadable /\ Len(runs) = 1
  BY DEF NewTask, PortOf, Task1, Places
<1>4. ASSUME NEW q \in Runs, q \in ToSet(runs) \ sessions
      PROVE  tasks'[q] \in Seq(Task1) /\ Len(tasks'[q]) = 1 /\ tasks'[q][1] = NewTask
  <2>1. tasks[q] \in Seq(Task1) /\ Len(tasks[q]) = 0
    BY <1>1, <1>4, Typed
  <2>2. tasks'[q] = Append(tasks[q], NewTask)
    BY <1>4
  <2> HIDE DEF Attach
  <2> QED BY <1>3, <2>1, <2>2
<1>5. ASSUME NEW q \in Runs, q \notin ToSet(runs) \ sessions
      PROVE  tasks'[q] = tasks[q]
  BY <1>5
<1>6. ASSUME NEW q \in Runs
      PROVE  /\ tasks'[q] \in Seq(Task1)
             /\ Len(tasks'[q]) = IF q \in ToSet(runs) THEN 1 ELSE 0
  BY <1>1, <1>4, <1>5, Typed
<1>7. ServeTypeOK'
  <2>1. Accepts(runs)'
    BY DEF SubsInv, ServeTypeOK, Accepts
  <2>2. \A q \in sessions' \cup ({joined'} \ {Absent}) : tasks'[q] # << >>
    <3> SUFFICES ASSUME NEW q \in ToSet(runs) PROVE tasks'[q] # << >>
      BY <1>1, <1>2
    <3>1. q \in Runs
      BY SnapshotFacts
    <3> QED BY <1>6, <3>1
  <2>3. tasks' \in [Runs -> Seq(Task1)]
    BY <1>6
  <2>4. sessions' \subseteq Runs
    BY <1>2, SnapshotFacts
  <2> QED BY <2>1, <2>2, <2>3, <2>4 DEF SubsInv, ServeTypeOK, Task1
<1>8. FileInv'
  BY DEF SubsInv, FileInv
<1>9. LoopInv'
  BY <1>1, <1>2, SnapshotsAssumption, SnapshotFacts DEF SubsInv, LoopInv
<1>10. TasksInv'
  <2>1. IsFiniteSet(Owned') /\ Cardinality(Owned') <= MaxPublishers
    BY <1>2, SnapshotFacts
  <2>2. ASSUME NEW q \in Runs, NEW k \in 1 .. Len(tasks'[q]), tasks'[q][k].port # 0
        PROVE  ~reloadable /\ Len(runs) = 1 /\ q \in ToSet(runs)
    <3>1. CASE q \in ToSet(runs) \ sessions
      BY <1>3, <1>4, <2>2, <3>1
    <3>2. CASE q \notin ToSet(runs) \ sessions
      BY <1>5, <2>2, <3>2 DEF SubsInv, TasksInv
    <3> QED BY <3>1, <3>2
  <2> QED BY <1>2, <1>6, <2>1, <2>2 DEF TasksInv
<1>11. DetachedOnPurpose'
  <2> SUFFICES ASSUME NEW q \in Runs, NEW k \in 1 .. Len(tasks'[q]), tasks'[q][k].stop
               PROVE  \/ stop
                      \/ \E i \in 1 .. Len(edits) :
                            Accepts(edits[i]) /\ q \notin ToSet(edits[i])
    BY DEF DetachedOnPurpose, Accepts
  <2>1. q \notin ToSet(runs) \ sessions
    BY <1>3, <1>4
  <2>2. tasks'[q] = tasks[q]
    BY <1>5, <2>1
  <2> QED BY <2>2 DEF SubsInv, DetachedOnPurpose
<1> QED BY <1>7, <1>8, <1>9, <1>10, <1>11 DEF SubsInv

LEMMA StopAllOK == SubsInv /\ StopAll => SubsInv'
<1> SUFFICES ASSUME SubsInv, StopAll PROVE SubsInv'
  OBVIOUS
<1> USE DEF StopAll
<1>1. Owned' = Owned /\ Owned = sessions /\ sessions \subseteq Runs
  BY DEF SubsInv, ServeTypeOK, LoopInv, Owned
<1>2. ASSUME NEW q \in Runs
      PROVE  /\ tasks'[q] \in Seq(Task1) /\ Len(tasks'[q]) = Len(tasks[q])
             /\ \A k \in 1 .. Len(tasks[q]) : tasks'[q][k].port = tasks[q][k].port
  <2>1. CASE q \in sessions
    <3>1. q \in Owned \cap Runs /\ tasks'[q] = SetStop(q) /\ Len(tasks[q]) = 1
      BY <1>1, <2>1, Typed
    <3>2. /\ SetStop(q) \in Seq(Task1) /\ Len(SetStop(q)) = 1
          /\ SetStop(q)[1].port = tasks[q][1].port
      BY <3>1, SetStopFacts
    <3> HIDE DEF StopAll
    <3> QED BY <3>1, <3>2
  <2>2. CASE q \notin sessions
    BY <2>2, Typed
  <2> QED BY <2>1, <2>2
<1>3. ServeTypeOK'
  <2>1. Accepts(runs)'
    BY DEF SubsInv, ServeTypeOK, Accepts
  <2>2. \A q \in sessions' \cup ({joined'} \ {Absent}) : tasks'[q] # << >>
    <3> SUFFICES ASSUME NEW q \in Owned PROVE tasks'[q] # << >>
      BY DEF Owned
    <3>1. Len(tasks'[q]) = 1 /\ tasks'[q] \in Seq(Task1)
      BY <1>1, <1>2, Typed
    <3> QED BY <3>1, NotEmpty
  <2>3. tasks' \in [Runs -> Seq(Task1)]
    BY <1>2
  <2> QED BY <2>1, <2>2, <2>3 DEF SubsInv, ServeTypeOK, Task1
<1>4. FileInv' /\ LoopInv'
  BY DEF SubsInv, FileInv, LoopInv
<1>5. TasksInv'
  BY <1>1, <1>2 DEF SubsInv, TasksInv
<1>6. DetachedOnPurpose'
  BY DEF DetachedOnPurpose
<1> QED BY <1>3, <1>4, <1>5, <1>6 DEF SubsInv

(* A step of a session's own task changes only where that task is. *)
LEMMA MoveOK ==
    ASSUME SubsInv, NEW r \in Runs, NEW k, NEW from, NEW to \in Places,
           Move(r, k, from, to)
    PROVE  SubsInv'
<1> USE DEF Move
<1>1. tasks[r] \in Seq(Task1) /\ k = 1 /\ Len(tasks[r]) = 1
  BY Typed
<1>2. tasks[r][1] \in Task1
  BY <1>1
<1> DEFINE x == [tasks[r][1] EXCEPT !.at = to]
<1>3. x \in Task1 /\ x.port = tasks[r][1].port /\ x.stop = tasks[r][1].stop
  BY <1>2 DEF Task1
<1>4. tasks' = [tasks EXCEPT ![r] = [tasks[r] EXCEPT ![1] = x]]
  BY <1>1, Typed
<1>5. /\ tasks'[r] \in Seq(Task1) /\ Len(tasks'[r]) = 1 /\ tasks'[r][1] = x
      /\ \A q \in Runs : q # r => tasks'[q] = tasks[q]
      /\ tasks' \in [Runs -> Seq(Task1)]
  <2> HIDE DEF x, Move
  <2>1. tasks \in [Runs -> Seq(Task1)]
    BY Typed
  <2> DEFINE y == [tasks[r] EXCEPT ![1] = x]
  <2>2. y \in Seq(Task1) /\ Len(y) = 1 /\ y[1] = x
    BY <1>1, <1>3
  <2>3. tasks' = [tasks EXCEPT ![r] = y]
    BY <1>4
  <2> HIDE DEF y
  <2> QED BY <2>1, <2>2, <2>3
<1> HIDE DEF x
<1>6. \A q \in Runs :
         /\ Len(tasks'[q]) = Len(tasks[q])
         /\ \A j \in 1 .. Len(tasks[q]) : /\ tasks'[q][j].port = tasks[q][j].port
                                          /\ tasks'[q][j].stop = tasks[q][j].stop
  BY <1>1, <1>3, <1>5
<1>7. Owned' = Owned
  BY DEF Owned
<1>8. ServeTypeOK'
  <2>1. Accepts(runs)'
    BY DEF SubsInv, ServeTypeOK, Accepts
  <2>2. \A q \in sessions' \cup ({joined'} \ {Absent}) : tasks'[q] # << >>
    <3> SUFFICES ASSUME NEW q \in Owned PROVE tasks'[q] # << >>
      BY DEF Owned
    <3>1. q \in Runs
      BY DEF SubsInv, ServeTypeOK, Owned
    <3>2. Len(tasks'[q]) = 1 /\ tasks'[q] \in Seq(Task1)
      BY <1>5, <1>6, <3>1, Typed
    <3> QED BY <3>2, NotEmpty
  <2> QED BY <1>5, <2>1, <2>2 DEF SubsInv, ServeTypeOK, Task1
<1>9. FileInv' /\ LoopInv'
  BY DEF SubsInv, FileInv, LoopInv
<1>10. TasksInv'
  BY <1>6, <1>7 DEF SubsInv, TasksInv
<1>11. DetachedOnPurpose'
  <2> SUFFICES ASSUME NEW q \in Runs, NEW j \in 1 .. Len(tasks'[q]), tasks'[q][j].stop
               PROVE  \/ stop
                      \/ \E i \in 1 .. Len(edits) :
                            Accepts(edits[i]) /\ q \notin ToSet(edits[i])
    BY DEF DetachedOnPurpose, Accepts
  <2>1. j \in 1 .. Len(tasks[q]) /\ tasks[q][j].stop
    BY <1>6
  <2> QED BY <2>1 DEF SubsInv, DetachedOnPurpose
<1> QED BY <1>8, <1>9, <1>10, <1>11 DEF SubsInv

LEMMA SubsNext == SubsInv /\ [ServeNext]_serveVars => SubsInv'
<1> SUFFICES ASSUME SubsInv, [ServeNext]_serveVars PROVE SubsInv'
  OBVIOUS
<1>1. CASE Wait \/ Gather \/ Signal \/ UNCHANGED serveVars
  <2>1. /\ UNCHANGED <<reloadable, edits, runs, sessions, tasks, detach, joined>>
        /\ stop' \in BOOLEAN /\ (stop => stop')
        /\ loop' \in {"reload", "wait", "gather", "done", loop}
        /\ loop' # loop => loop \notin {"detach", "join"}
    BY <1>1 DEF Wait, Gather, Signal, serveVars, SubsInv, ServeTypeOK
  <2> QED BY <2>1, QuietOK
<1>2. CASE Serve
  BY <1>1, <1>2, ReloadOK, JoinOK, AttachOK, StopAllOK, DetachOK DEF Serve
<1>3. ASSUME NEW r \in Runs, NEW k \in 1 .. Len(tasks[r]),
             Task(r, k) \/ SessionRaises(r, k)
      PROVE  SubsInv'
  <2>1. PICK from \in Places, to \in Places : Move(r, k, from, to)
    BY <1>3 DEF Task, SessionRaises, Supervise, SessionStops, SessionLeft,
       SessionFailed, PauseEnds, Places
  <2> QED BY <2>1, MoveOK
<1> QED BY <1>1, <1>2, <1>3, EditOK DEF ServeNext

(* The supervisor's invariant: the tasks are exactly those of the sessions *)
(* in the dictionary and of the one it waits for.                          *)
THEOREM SubscriptionsInvariant == ServeSpec => []SubsInv
BY SubsInit, SubsNext, PTL DEF ServeSpec

(* The state has its type, and every key of the dictionary has a task. *)
THEOREM SubscriptionsTypeCorrect == ServeSpec => []ServeTypeOK
<1>1. SubsInv => ServeTypeOK
  BY DEF SubsInv
<1> QED BY <1>1, SubscriptionsInvariant, PTL

(* However the file is edited, a run has one session at a time, there are  *)
(* never more than max_publishers of them, and no two share a fixed port.  *)
THEOREM SessionsAreSeparate == ServeSpec => []OneSessionPerRun
<1>1. SubsInv => OneSessionPerRun
  <2> SUFFICES ASSUME SubsInv PROVE OneSessionPerRun
    OBVIOUS
  <2>1. ASSUME NEW r \in Runs PROVE Cardinality(Live(r)) <= 1
    <3>1. Live(r) \in SUBSET {1}
      BY Typed DEF Live
    <3>2. IsFiniteSet({1}) /\ Cardinality({1}) = 1
      BY FS_Singleton
    <3> QED BY <3>1, <3>2, FS_Subset
  <2>2. Cardinality(Running) <= MaxPublishers
    <3>1. Running \in SUBSET Owned
      BY Typed DEF Running, Live
    <3>2. IsFiniteSet(Owned) /\ Cardinality(Owned) <= MaxPublishers
      BY DEF SubsInv, TasksInv
    <3>3. IsFiniteSet(Running) /\ Cardinality(Running) <= Cardinality(Owned)
      BY <3>1, <3>2, FS_Subset
    <3>4. Cardinality(Running) \in Nat /\ Cardinality(Owned) \in Nat
      BY <3>2, <3>3, FS_CardinalityType
    <3> QED BY <3>2, <3>3, <3>4, BoundsAssumption
  <2>3. ASSUME NEW r \in Runs, NEW q \in Runs, r # q
        PROVE  Ports(r) \cap Ports(q) = {}
    <3> SUFFICES ASSUME NEW n \in Ports(r), n \in Ports(q) PROVE FALSE
      OBVIOUS
    <3>1. Len(runs) = 1 /\ r \in ToSet(runs) /\ q \in ToSet(runs)
      BY DEF Ports, Live, SubsInv, TasksInv
    <3>2. runs \in Seq(Runs)
      BY SnapshotFacts
    <3> QED BY <2>3, <3>1, <3>2 DEF ToSet
  <2> QED BY <2>1, <2>2, <2>3 DEF OneSessionPerRun
<1> QED BY <1>1, SubscriptionsInvariant, PTL

(* A session is told to stop only after a signal, or after the file had    *)
(* valid contents without its run: never because of a file that is         *)
(* missing, broken or too long.                                            *)
THEOREM SessionsAreDetachedOnPurpose == ServeSpec => []DetachedOnPurpose
<1>1. SubsInv => DetachedOnPurpose
  BY DEF SubsInv
<1> QED BY <1>1, SubscriptionsInvariant, PTL
=============================================================================
