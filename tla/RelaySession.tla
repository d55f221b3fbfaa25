---------------------------- MODULE RelaySession ----------------------------
(***************************************************************************)
(* litecast/registry/middle.py: the session of a supervised relay for one  *)
(* run_id (serve_publisher inside supervise_publisher), together with the  *)
(* publishers of the run, one after the other, and the registry.           *)
(*                                                                         *)
(* The session reads the run's descriptor, looks for the origin            *)
(* registrations of its publications, lets a MiddleNode cache them and     *)
(* advertises each cached publication once it has verified it.  A step is  *)
(* what runs between two awaits.  Version numbers are the origin's own, so *)
(* they mean something else after the publisher was replaced.              *)
(***************************************************************************)
EXTENDS Integers, Sequences, FiniteSets, SequencesExt

CONSTANTS
    Owners,         \* Publisher objects of the run
    Digests,        \* digests of adapter bundles
    MaxVersion,     \* bound on the versions of one origin
    Worlds,         \* the surroundings of the session: see WorldsAssumption
    None

ASSUME MaxVersionAssumption == MaxVersion \in Nat

(* address: the port of each publisher's origin; bundles: what each may    *)
(* publish; retain: retain_versions (the relay's max_versions is no less); *)
(* errors: a registry call of the session may raise.                       *)
ASSUME WorldsAssumption ==
    \A w \in Worlds : /\ w.address \in [Owners -> Nat]
                      /\ w.bundles \in [Owners -> SUBSET Digests]
                      /\ w.retain \in Nat \ {0}
                      /\ w.errors \in BOOLEAN

Versions == 1 .. MaxVersion

Cache == [from : SUBSET Nat, held : [Versions -> Digests \cup {None}]]

ASSUME NoneAssumption == None \notin Digests /\ None \notin Cache

VARIABLES
    world,      \* the surroundings; never change
    phase,      \* of a publisher process: "new", "up", "down"
    origin,     \* origin[o][v] is the bundle that o broadcast as version v
    lease,      \* the run's desired record
    records,    \* registrations of origins
    adverts,    \* registrations of the relay
    pc,         \* where the session is
    owner,      \* the owner whose version numbers the session uses
    cache,      \* the MiddleNode: where it fetches from and what it holds
    regs,       \* registrations: the advertised version of each digest
    desired,    \* the publications read in this cycle
    seen,       \* the origin registrations read in this cycle
    at          \* the publication the loop is at, and its version

env == <<world, phase, origin, lease, records>>
sess == <<adverts, pc, owner, regs, desired, seen, at>>
vars == <<env, sess, cache>>

NoRegs == [d \in Digests |-> None]
Nowhere == [pub |-> 1, version |-> None]

Init ==
    /\ world \in Worlds
    /\ phase = [o \in Owners |-> "new"]
    /\ origin = [o \in Owners |-> << >>]
    /\ lease = None
    /\ records = {}
    /\ adverts = {}
    /\ pc = "read"
    /\ owner = None
    /\ cache = None
    /\ regs = NoRegs
    /\ desired = << >>
    /\ seen = {}
    /\ at = Nowhere

-----------------------------------------------------------------------------
(* The publishers and the registry (Publisher and OriginServer in short) *)

Offers(o, v) ==
    phase[o] = "up" /\ v \in 1 .. Len(origin[o]) /\ v > Len(origin[o]) - world.retain

Publications(o) ==
    LET n == Len(origin[o])
    IN SubSeq(origin[o], IF n <= world.retain THEN 1 ELSE n - world.retain + 1, n)

Start(o) ==
    /\ phase[o] = "new" /\ lease = None
    /\ \A q \in Owners : world.address[q] = world.address[o] => phase[q] # "up"
    /\ phase' = [phase EXCEPT ![o] = "up"]
    /\ lease' = [owner |-> o, pubs |-> << >>]
    /\ UNCHANGED <<world, origin, records, sess, cache>>

(* broadcast and registration; the descriptor follows with a renewal. *)
Publish(o, d) ==
    /\ phase[o] = "up" /\ Len(origin[o]) < MaxVersion /\ d \in world.bundles[o]
    /\ origin' = [origin EXCEPT ![o] = Append(@, d)]
    /\ records' = {r \in records : r.owner # o \/ r.digest # d} \cup
                  {[owner |-> o, digest |-> d, version |-> Len(origin[o]) + 1]}
    /\ UNCHANGED <<world, phase, lease, sess, cache>>

(* The registrations of o's bundles, each under its last version number. *)
Sources(o) ==
    {[owner |-> o, digest |-> origin[o][v], version |-> v] :
        v \in {v \in 1 .. Len(origin[o]) :
                 /\ Offers(o, v)
                 /\ \A w \in (v + 1) .. Len(origin[o]) : origin[o][w] # origin[o][v]}}

(* refresh: claim or renew, withdraw the registrations of what the origin  *)
(* has dropped and write the others again.                                 *)
Renew(o) ==
    /\ phase[o] = "up"
    /\ lease # None => lease.owner = o
    /\ lease' = [owner |-> o, pubs |-> Publications(o)]
    /\ records' = {r \in records : r.owner # o} \cup Sources(o)
    /\ UNCHANGED <<world, phase, origin, sess, cache>>

(* Nobody renewed in time. *)
Lapse ==
    /\ lease # None
    /\ lease' = None
    /\ UNCHANGED <<world, phase, origin, records, sess, cache>>

Die(o) ==
    /\ phase[o] = "up"
    /\ phase' = [phase EXCEPT ![o] = "down"]
    /\ UNCHANGED <<world, origin, lease, records, sess, cache>>

(* A registration that is not renewed disappears: the origin of a dead or  *)
(* replaced publisher, and what the session could not withdraw.            *)
ExpireRecord(r) ==
    /\ r \in records
    /\ phase[r.owner] = "down" \/ (lease # None /\ lease.owner # r.owner)
    /\ records' = records \ {r}
    /\ UNCHANGED <<world, phase, origin, lease, sess, cache>>

ExpireAdvert(a) ==
    /\ a \in adverts /\ regs[a.digest] # a.version
    /\ adverts' = adverts \ {a}
    /\ UNCHANGED <<env, pc, owner, regs, desired, seen, at, cache>>

-----------------------------------------------------------------------------
(* The MiddleNode: a version it holds is not fetched again as long as an   *)
(* upstream lists its number, and leaves when the list it reads has it not *)

Upstream(o) == cache # None /\ world.address[o] \in cache.from /\ phase[o] = "up"

CacheFetch(o, v) ==
    /\ Upstream(o) /\ Offers(o, v) /\ cache.held[v] = None
    /\ cache' = [cache EXCEPT !.held[v] = origin[o][v]]
    /\ UNCHANGED <<env, sess>>

CacheDrop(o) ==
    /\ Upstream(o) /\ origin[o] # << >>
    /\ \E v \in Versions : cache.held[v] # None /\ ~Offers(o, v)
    /\ cache' = [cache EXCEPT !.held = [v \in Versions |->
                   IF Offers(o, v) THEN @[v] ELSE None]]
    /\ UNCHANGED <<env, sess>>

Holds(v) == cache # None /\ v # None /\ cache.held[v] # None

-----------------------------------------------------------------------------
(* serve_publisher *)

Registered == {d \in Digests : regs[d] # None}
Advert(d, v) == [digest |-> d, version |-> v]
Own(S) == {Advert(d, regs[d]) : d \in S}

(* Mutant: the registrations outlive the session that made them. *)
RaiseKeeping ==
    /\ pc' = "retry" /\ owner' = None /\ cache' = None
    /\ desired' = << >> /\ seen' = {} /\ at' = Nowhere
    /\ UNCHANGED <<adverts, regs>>

(* An exception: the finally block withdraws every registration, as far as *)
(* the registry lets it, and shuts the MiddleNode and its directory down.  *)
Raise ==
    /\ pc' = "retry" /\ owner' = None /\ cache' = None /\ regs' = NoRegs
    /\ desired' = << >> /\ seen' = {} /\ at' = Nowhere
    /\ \E left \in SUBSET Own(Registered) :
          /\ left # {} => world.errors
          /\ adverts' = (adverts \ Own(Registered)) \cup left

(* supervise_publisher starts the next session after five seconds. *)
Retry ==
    /\ pc = "retry"
    /\ pc' = "read"
    /\ UNCHANGED <<env, adverts, owner, regs, desired, seen, at, cache>>

(* Mutant: a relay without a publisher goes on advertising. *)
ReadNothingKeeps ==
    /\ pc = "read" /\ lease = None
    /\ UNCHANGED vars

(* Without a descriptor everything is withdrawn; the MiddleNode stays. *)
ReadNothing ==
    /\ pc = "read" /\ lease = None
    /\ adverts' = adverts \ Own(Registered)
    /\ regs' = NoRegs
    /\ UNCHANGED <<env, pc, owner, desired, seen, at, cache>>

(* A descriptor of another owner: the version numbers held here are not    *)
(* its numbers.  An empty startup descriptor has left nothing behind.      *)
Replaced ==
    owner # None /\ owner # lease.owner /\ (cache # None \/ Registered # {})

ReadDesired ==
    /\ pc = "read" /\ lease # None
    /\ IF Replaced
       THEN Raise
       ELSE /\ owner' = lease.owner
            /\ desired' = lease.pubs
            /\ pc' = "models"
            /\ UNCHANGED <<adverts, regs, seen, at, cache>>
    /\ UNCHANGED env

Models ==
    /\ pc = "models"
    /\ seen' = records
    /\ at' = Nowhere
    /\ pc' = "visit"
    /\ UNCHANGED <<env, adverts, owner, regs, desired, cache>>

Digest == desired[at.pub]
Origins == {r \in seen : r.digest = Digest}

(* Mutant: the publication after this one is skipped. *)
OnwardTwice == at' = [pub |-> at.pub + 2, version |-> None] /\ pc' = "visit"

Onward == at' = [pub |-> at.pub + 1, version |-> None] /\ pc' = "visit"

(* One turn of the loop over the publications, up to its first await.  Any *)
(* of the registrations may come first in the registry's answer.           *)
Visit ==
    /\ pc = "visit" /\ at.pub <= Len(desired)
    /\ IF Origins = {}
       THEN Onward /\ UNCHANGED cache
       ELSE \E r \in Origins :
               /\ cache' = IF cache # None THEN cache
                           ELSE [from |-> {world.address[q.owner] : q \in Origins},
                                 held |-> [v \in Versions |-> None]]
               /\ IF Holds(r.version) /\ regs[Digest] = None
                  THEN pc' = "verify" /\ at' = [at EXCEPT !.version = r.version]
                  ELSE Onward
    /\ UNCHANGED <<env, adverts, owner, regs, desired, seen>>

(* Mutant: the cache is advertised without a look at its bytes. *)
VerifyNothing ==
    /\ pc = "verify"
    /\ pc' = "register"
    /\ UNCHANGED <<env, adverts, owner, regs, desired, seen, at, cache>>

(* The session downloads the version from its own MiddleNode. *)
Verify ==
    /\ pc = "verify"
    /\ IF cache.held[at.version] = Digest
       THEN /\ pc' = "register"
            /\ UNCHANGED <<adverts, owner, regs, desired, seen, at, cache>>
       ELSE Raise
    /\ UNCHANGED env

Register ==
    /\ pc = "register"
    /\ adverts' = adverts \cup {Advert(Digest, at.version)}
    /\ regs' = [regs EXCEPT ![Digest] = at.version]
    /\ Onward
    /\ UNCHANGED <<env, owner, desired, seen, cache>>

(* Registrations that are still wanted and held: the others are withdrawn. *)
Kept == {d \in Registered : d \in ToSet(desired) /\ Holds(regs[d])}

(* The heartbeat of a registration writes it again. *)
Keep ==
    /\ pc = "visit" /\ at.pub > Len(desired)
    /\ adverts' = (adverts \ Own(Registered)) \cup Own(Kept)
    /\ regs' = [d \in Digests |-> IF d \in Kept THEN regs[d] ELSE None]
    /\ pc' = "read" /\ desired' = << >> /\ seen' = {} /\ at' = Nowhere
    /\ UNCHANGED <<env, owner, cache>>

(* A registry call raises.  A registration in progress may have been       *)
(* written, and its object is not in registrations yet.                    *)
RegistryRaises ==
    /\ world.errors /\ pc # "retry" /\ pc # "verify"
    /\ \/ Raise
       \/ /\ pc = "register"
          /\ pc' = "retry" /\ owner' = None /\ cache' = None /\ regs' = NoRegs
          /\ desired' = << >> /\ seen' = {} /\ at' = Nowhere
          /\ adverts' = (adverts \ Own(Registered))
                           \cup {Advert(Digest, at.version)}
    /\ UNCHANGED env

Session ==
    \/ Retry \/ ReadNothing \/ ReadDesired \/ Models \/ Visit \/ Verify
    \/ Register \/ Keep

(* Everything but a registry call that raises. *)
Regular ==
    \/ Session
    \/ Lapse
    \/ \E o \in Owners : \/ Start(o) \/ Renew(o) \/ Die(o) \/ CacheDrop(o)
                          \/ \E d \in Digests : Publish(o, d)
                          \/ \E v \in Versions : CacheFetch(o, v)
    \/ \E r \in records : ExpireRecord(r)
    \/ \E a \in adverts : ExpireAdvert(a)

Next == Regular \/ RegistryRaises

Spec == Init /\ [][Next]_vars

Records == [owner : Owners, digest : Digests, version : Versions]
Adverts == [digest : Digests, version : Versions]

(* The lease of a publisher that is gone runs out. *)
LapseDown == lease # None /\ phase[lease.owner] = "down" /\ Lapse

(* The session's loop, the MiddleNode's cycle and a publisher's heartbeat  *)
(* go on; what nobody renews expires; registry errors end.                 *)
Fairness ==
    /\ WF_vars(Session) /\ WF_vars(LapseDown)
    /\ \A o \in Owners :
          /\ WF_vars(Renew(o)) /\ WF_vars(CacheDrop(o))
          /\ \A v \in Versions : WF_vars(CacheFetch(o, v))
    /\ \A r \in Records : WF_vars(ExpireRecord(r))
    /\ \A a \in Adverts : WF_vars(ExpireAdvert(a))
    /\ <>[][Regular]_vars

FairSpec == Spec /\ Fairness

-----------------------------------------------------------------------------
(* Properties *)

(* The state has its type. *)
TypeOK ==
    /\ world \in Worlds
    /\ phase \in [Owners -> {"new", "up", "down"}]
    /\ origin \in [Owners -> Seq(Digests)]
    /\ \A o \in Owners : Len(origin[o]) <= MaxVersion
    /\ lease = None \/ lease \in [owner : Owners, pubs : Seq(Digests)]
    /\ records \subseteq Records
    /\ adverts \subseteq Adverts
    /\ pc \in {"read", "models", "visit", "verify", "register", "retry"}
    /\ owner \in Owners \cup {None}
    /\ cache = None \/ cache \in Cache
    /\ regs \in [Digests -> Versions \cup {None}]
    /\ desired \in Seq(Digests)
    /\ seen \subseteq Records
    /\ at \in [pub : 1 .. (Len(desired) + 1), version : Versions \cup {None}]
    /\ pc \in {"read", "retry"} => at.pub = 1
    /\ pc \in {"verify", "register"} => at.pub <= Len(desired) /\ at.version \in Versions

(* A number means the bytes of one publisher: origins have addresses of    *)
(* their own, and no bundle is published by two.                           *)
Apart ==
    \A o, q \in Owners :
        o # q => /\ world.address[o] # world.address[q]
                 /\ world.bundles[o] \cap world.bundles[q] = {}

(* What the relay advertises as a bundle is that bundle, or is gone from   *)
(* its cache: the number it was advertised under has not come to mean      *)
(* other bytes when publishers replace one another.                        *)
AdvertisedIsRight ==
    Apart => \A d \in Registered : Holds(regs[d]) => cache.held[regs[d]] = d

(* The run has one publisher, which keeps its lease. *)
Settled ==
    /\ lease # None
    /\ \A o \in Owners : phase[o] = "up" <=> o = lease.owner

Serving ==
    /\ lease # None
    /\ \A d \in ToSet(lease.pubs) : Holds(regs[d]) /\ cache.held[regs[d]] = d

(* The publisher of a run, once it stays, gets its publications served by  *)
(* the relay and keeps them served, whatever happened before: publishers   *)
(* replaced, stale registrations of the same bundle, registry errors.      *)
Converges == <>[]Settled => <>[]Serving

(* After the last publisher has gone the relay advertises nothing. *)
Withdrawn == <>[](\A o \in Owners : phase[o] # "up") => <>[](adverts = {})
=============================================================================
