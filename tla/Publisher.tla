------------------------------ MODULE Publisher ------------------------------
(***************************************************************************)
(* Publishers of one run_id: litecast/registry/distribution.py, class      *)
(* Publisher, against a Redis registry.                                    *)
(*                                                                         *)
(* A publisher is one Python process with several asyncio tasks: callers   *)
(* of start, publish and close, and the heartbeat task.  A step is what    *)
(* runs between two awaits.  Redis executes the claim/renew script as one  *)
(* step, and the lease may run out whenever nobody renews it in time.  A   *)
(* registry call that raises may or may not have been executed.            *)
(***************************************************************************)
EXTENDS Integers, Sequences, FiniteSets

CONSTANTS
    Publishers,     \* Publisher objects (owner ids) with the same run_id
    Callers,        \* tasks of a process that call publish
    Heartbeat,      \* the heartbeat task
    Steps,          \* training steps a caller may publish
    Digests,        \* digests of adapter bundles
    MaxBroadcasts,  \* bound on the broadcasts of one publisher
    Setups,         \* how the publishers may be run: see SetupsAssumption
    None

ASSUME StepsAssumption == Steps \subseteq Nat
ASSUME HeartbeatAssumption == Heartbeat \notin Callers /\ IsFiniteSet(Callers)
ASSUME MaxBroadcastsAssumption == MaxBroadcasts \in Nat

(* active: the publishers that are started; callers: the tasks that call   *)
(* publish; digests: what they publish; retain: config.retain_versions;    *)
(* broadcasts: a bound on the broadcasts of each publisher.                *)
ASSUME SetupsAssumption ==
    \A s \in Setups : /\ s.active \subseteq Publishers
                       /\ s.callers \subseteq Callers
                       /\ s.digests \subseteq Digests
                       /\ s.retain \in Nat \ {0}
                       /\ s.broadcasts \in 0 .. MaxBroadcasts

Tasks == Callers \cup {Heartbeat}

Publication == [step : Steps, digest : Digests]

Lease == [owner : Publishers, pubs : Seq(Publication)]

(* What a publish call holds on to: the version once it has broadcast. *)
Call == [step : Steps, digest : Digests, version : Nat \cup {None}]

ASSUME NoneAssumption ==
    None \notin Tasks /\ None \notin Lease /\ None \notin Call /\ None \notin Nat

VARIABLES
    setup,      \* how these publishers are run; never changes
    lease,      \* the desired record in Redis: descriptor and lease in one
    records,    \* origin registrations in the registry
    phase,      \* "new", "up" (start returned), "closing", "closed"
    fenced,     \* self.fenced
    pubs,       \* self.publications
    sources,    \* self.sources: digest to registered version
    origin,     \* the bundles broadcast by self.origin, by version
    lock,       \* the task holding self.refresh_lock
    pc,         \* where each task is
    op,         \* which call a task's refresh belongs to
    arg,        \* a publish call's arguments and the version it broadcast
    snap,       \* the descriptor built by a refresh
    todo        \* the digests a refresh still has to look at

registry == <<lease, records>>
object == <<setup, phase, fenced, pubs, sources, origin>>
local == <<object, lock, pc, op, arg, snap, todo>>
vars == <<registry, local>>

Last(q) == q[Len(q)]

(* publications[-retain_versions:] *)
Newest(q) == IF Len(q) <= setup.retain THEN q
             ELSE SubSeq(q, Len(q) - setup.retain + 1, Len(q))

(* "version in self.origin.store": the origin keeps its newest versions.   *)
InOrigin(p, v) == v > Len(origin[p]) - setup.retain

Record(p, d, v) == [owner |-> p, digest |-> d, version |-> v]

Init ==
    /\ setup \in Setups
    /\ lease = None
    /\ records = {}
    /\ phase = [p \in Publishers |-> "new"]
    /\ fenced = [p \in Publishers |-> FALSE]
    /\ pubs = [p \in Publishers |-> << >>]
    /\ sources = [p \in Publishers |-> [d \in Digests |-> None]]
    /\ origin = [p \in Publishers |-> << >>]
    /\ lock = [p \in Publishers |-> None]
    /\ pc = [p \in Publishers |-> [t \in Tasks |->
                IF t = Heartbeat THEN "off" ELSE "idle"]]
    /\ op = [p \in Publishers |-> [t \in Tasks |-> "none"]]
    /\ arg = [p \in Publishers |-> [t \in Tasks |-> None]]
    /\ snap = [p \in Publishers |-> [t \in Tasks |-> << >>]]
    /\ todo = [p \in Publishers |-> [t \in Tasks |-> {}]]

-----------------------------------------------------------------------------
(* refresh, called by start, by publish and by the heartbeat *)

Goto(p, t, where) == pc' = [pc EXCEPT ![p][t] = where]

(* A call returns or raises: its local variables are gone. *)
Leave(p, t, where) ==
    /\ Goto(p, t, where)
    /\ op' = [op EXCEPT ![p][t] = "none"]
    /\ arg' = [arg EXCEPT ![p][t] = None]
    /\ snap' = [snap EXCEPT ![p][t] = << >>]
    /\ todo' = [todo EXCEPT ![p][t] = {}]

(* Mutant: the lock does not keep tasks apart. *)
AlwaysFree(p) == TRUE

LockFree(p) == lock[p] = None

(* The descriptor is built once the lock is held. *)
RefreshBegin(p, t) ==
    /\ pc[p][t] = "refresh"
    /\ LockFree(p)
    /\ lock' = [lock EXCEPT ![p] = t]
    /\ snap' = [snap EXCEPT ![p][t] = pubs[p]]
    /\ Goto(p, t, "eval")
    /\ UNCHANGED <<registry, object, op, arg, todo>>

(* Mutant: the script does not compare owners. *)
MayWriteAlways(p) == TRUE

(* The script's test: no record, or one of this owner. *)
MayWrite(p) == lease # None => lease.owner = p

(* Mutant: the heartbeat gives up at the first failed refresh. *)
RefreshRaisedForGood(p, t, replaced) ==
    /\ lock' = [lock EXCEPT ![p] = None]
    /\ \/ /\ op[p][t] \in {"start", "publish"}
          /\ Leave(p, t, "idle")
       \/ /\ op[p][t] = "publish" /\ ~replaced
          /\ Goto(p, t, "refresh")
          /\ snap' = [snap EXCEPT ![p][t] = << >>]
          /\ todo' = [todo EXCEPT ![p][t] = {}]
          /\ UNCHANGED <<op, arg>>
       \/ /\ op[p][t] = "heartbeat"
          /\ Leave(p, t, "off")

(* What the caller of refresh does with an exception, the lock released:   *)
(* start and publish raise, publish after retrying registry errors until   *)
(* update_timeout; the heartbeat stops only when the publisher is fenced.  *)
RefreshRaised(p, t, replaced) ==
    /\ lock' = [lock EXCEPT ![p] = None]
    /\ \/ /\ op[p][t] \in {"start", "publish"}
          /\ Leave(p, t, "idle")
       \/ /\ op[p][t] = "publish" /\ ~replaced
          /\ Goto(p, t, "refresh")
          /\ snap' = [snap EXCEPT ![p][t] = << >>]
          /\ todo' = [todo EXCEPT ![p][t] = {}]
          /\ UNCHANGED <<op, arg>>
       \/ /\ op[p][t] = "heartbeat"
          /\ Leave(p, t, IF replaced \/ fenced[p] THEN "off" ELSE "sleep")

EvalWritten(p, t) ==
    /\ pc[p][t] = "eval"
    /\ MayWrite(p)
    /\ lease' = [owner |-> p, pubs |-> snap[p][t]]
    /\ todo' = [todo EXCEPT ![p][t] = {d \in Digests : sources[p][d] # None}]
    /\ snap' = [snap EXCEPT ![p][t] = << >>]
    /\ Goto(p, t, "sources")
    /\ UNCHANGED <<object, records, lock, op, arg>>

EvalRefused(p, t) ==
    /\ pc[p][t] = "eval"
    /\ ~MayWrite(p)
    /\ fenced' = [fenced EXCEPT ![p] = TRUE]
    /\ RefreshRaised(p, t, TRUE)
    /\ UNCHANGED <<registry, setup, phase, pubs, sources, origin>>

(* The connection fails before or after the script was executed. *)
EvalError(p, t) ==
    /\ pc[p][t] = "eval"
    /\ \/ lease' = lease
       \/ MayWrite(p) /\ lease' = [owner |-> p, pubs |-> snap[p][t]]
    /\ RefreshRaised(p, t, FALSE)
    /\ UNCHANGED <<object, records>>

(* Mutant: every source is renewed, kept by the origin or not. *)
SourceRenewed(p, t, d) ==
    /\ pc[p][t] = "sources" /\ d \in todo[p][t]
    /\ todo' = [todo EXCEPT ![p][t] = @ \ {d}]
    /\ records' = records \cup {Record(p, d, sources[p][d])}
    /\ UNCHANGED <<object, lease, lock, pc, op, arg, snap>>

(* One round of the loop over the sources: a version the origin no longer  *)
(* keeps is deregistered, the others are renewed.                          *)
SourceDone(p, t, d) ==
    /\ pc[p][t] = "sources" /\ d \in todo[p][t]
    /\ todo' = [todo EXCEPT ![p][t] = @ \ {d}]
    /\ IF InOrigin(p, sources[p][d])
       THEN /\ records' = records \cup {Record(p, d, sources[p][d])}
            /\ UNCHANGED sources
       ELSE /\ records' = records \ {Record(p, d, sources[p][d])}
            /\ sources' = [sources EXCEPT ![p][d] = None]
    /\ UNCHANGED <<setup, lease, phase, fenced, pubs, origin, lock, pc, op, arg, snap>>

(* A renewal or a withdrawal raises, executed by the registry or not. *)
SourceError(p, t, d) ==
    /\ pc[p][t] = "sources" /\ d \in todo[p][t]
    /\ LET r == Record(p, d, sources[p][d])
       IN records' \in {records, IF InOrigin(p, r.version)
                                THEN records \cup {r} ELSE records \ {r}}
    /\ RefreshRaised(p, t, FALSE)
    /\ UNCHANGED <<object, lease>>

(* Where start, publish and the heartbeat go on. *)
AfterRefresh(call) ==
    IF call = "start" THEN "started"
    ELSE IF call = "publish" THEN "idle" ELSE "sleep"

(* refresh returns. *)
RefreshEnd(p, t) ==
    /\ pc[p][t] = "sources" /\ todo[p][t] = {}
    /\ lock' = [lock EXCEPT ![p] = None]
    /\ Leave(p, t, AfterRefresh(op[p][t]))
    /\ UNCHANGED <<registry, object>>

(* start creates the heartbeat task and returns. *)
Started(p, t) ==
    /\ pc[p][t] = "started"
    /\ pc' = [pc EXCEPT ![p][t] = "idle", ![p][Heartbeat] = "sleep"]
    /\ phase' = [phase EXCEPT ![p] = "up"]
    /\ UNCHANGED <<registry, setup, fenced, pubs, sources, origin, lock, op, arg, snap, todo>>

HeartbeatWakes(p) ==
    /\ pc[p][Heartbeat] = "sleep"
    /\ op' = [op EXCEPT ![p][Heartbeat] = "heartbeat"]
    /\ Goto(p, Heartbeat, "refresh")
    /\ UNCHANGED <<registry, object, lock, arg, snap, todo>>

-----------------------------------------------------------------------------
(* start, publish, close *)

(* start looks first, and claims later: two starts may both find nothing.  *)
Start(p, t) ==
    /\ p \in setup.active /\ t \in setup.callers
    /\ phase[p] = "new" /\ \A c \in Callers : pc[p][c] = "idle"
    /\ lease = None
    /\ op' = [op EXCEPT ![p][t] = "start"]
    /\ Goto(p, t, "refresh")
    /\ UNCHANGED <<registry, object, lock, arg, snap, todo>>

PublishCall(p, t, step, digest) ==
    /\ phase[p] = "up" /\ pc[p][t] = "idle"
    /\ t \in setup.callers /\ digest \in setup.digests
    /\ Len(origin[p]) + Cardinality({c \in Callers : pc[p][c] \in {"check", "broadcast"}})
         < setup.broadcasts
    /\ ~fenced[p]
    /\ arg' = [arg EXCEPT ![p][t] =
                 [step |-> step, digest |-> digest, version |-> None]]
    /\ op' = [op EXCEPT ![p][t] = "publish"]
    /\ Goto(p, t, "check")
    /\ UNCHANGED <<registry, object, lock, snap, todo>>

(* Not newer than the newest publication: publish returns that one, if it  *)
(* is the same, or raises; nothing changes either way.                     *)
StaleStep(p, step) == pubs[p] # << >> /\ step <= Last(pubs[p]).step

PublishCheck(p, t) ==
    /\ pc[p][t] = "check"
    /\ \/ /\ StaleStep(p, arg[p][t].step)
          /\ Leave(p, t, "idle")
       \/ /\ ~StaleStep(p, arg[p][t].step)
          /\ Goto(p, t, "broadcast")
          /\ UNCHANGED <<op, arg, snap, todo>>
    /\ UNCHANGED <<registry, object, lock>>

(* broadcast_buffer in a worker thread: not under the refresh lock. *)
Broadcast(p, t) ==
    /\ pc[p][t] = "broadcast"
    /\ origin' = [origin EXCEPT ![p] = Append(@, arg[p][t].digest)]
    /\ arg' = [arg EXCEPT ![p][t] = [@ EXCEPT !.version = Len(origin[p]) + 1]]
    /\ Goto(p, t, "lock")
    /\ UNCHANGED <<registry, setup, phase, fenced, pubs, sources, lock, op, snap, todo>>

PublishLock(p, t) ==
    /\ pc[p][t] = "lock"
    /\ LockFree(p)
    /\ lock' = [lock EXCEPT ![p] = t]
    /\ Goto(p, t, "register")
    /\ UNCHANGED <<registry, object, op, arg, snap, todo>>

(* Mutant: the registration names the newest version of the origin. *)
RegisterNewest(p, t) ==
    /\ pc[p][t] = "register"
    /\ LET r == Record(p, arg[p][t].digest, Len(origin[p]))
       IN \/ /\ records' = records \cup {r}
             /\ Goto(p, t, "append")
             /\ UNCHANGED <<lock, op, arg, snap, todo>>
          \/ /\ records' \in {records, records \cup {r}}
             /\ lock' = [lock EXCEPT ![p] = None]
             /\ Leave(p, t, "idle")
    /\ UNCHANGED <<lease, object>>

(* register_server, retried; after update_timeout publish raises. *)
Register(p, t) ==
    /\ pc[p][t] = "register"
    /\ LET r == Record(p, arg[p][t].digest, arg[p][t].version)
       IN \/ /\ records' = records \cup {r}
             /\ Goto(p, t, "append")
             /\ UNCHANGED <<lock, op, arg, snap, todo>>
          \/ /\ records' \in {records, records \cup {r}}
             /\ lock' = [lock EXCEPT ![p] = None]
             /\ Leave(p, t, "idle")
    /\ UNCHANGED <<object, lease>>

(* The old registration of the digest is withdrawn, the publication is     *)
(* appended, and refresh is called with the lock released.                 *)
Append1(p, t) ==
    LET d == arg[p][t].digest
        old == sources[p][d]
        new == [step |-> arg[p][t].step, digest |-> d]
    IN /\ pc[p][t] = "append"
       /\ records' = IF old = None THEN records
                     ELSE records \ {Record(p, d, old)}
       /\ sources' = [sources EXCEPT ![p][d] = arg[p][t].version]
       /\ pubs' = [pubs EXCEPT ![p] = Newest(Append(@, new))]
       /\ lock' = [lock EXCEPT ![p] = None]
       /\ arg' = [arg EXCEPT ![p][t] = None]
       /\ Goto(p, t, "refresh")
       /\ UNCHANGED <<setup, lease, phase, fenced, origin, op, snap, todo>>

(* The withdrawal of the old registration raises, and publish with it. *)
AppendError(p, t) ==
    LET d == arg[p][t].digest
    IN /\ pc[p][t] = "append" /\ sources[p][d] # None
       /\ records' \in {records, records \ {Record(p, d, sources[p][d])}}
       /\ lock' = [lock EXCEPT ![p] = None]
       /\ Leave(p, t, "idle")
       /\ UNCHANGED <<object, lease>>

(* close cancels the heartbeat wherever it is: the call it was waiting for *)
(* may have been executed.                                                 *)
Close(p) ==
    /\ phase[p] = "up" /\ \A c \in Callers : pc[p][c] = "idle"
    /\ phase' = [phase EXCEPT ![p] = "closing"]
    /\ \/ UNCHANGED registry
       \/ /\ pc[p][Heartbeat] = "eval" /\ MayWrite(p)
          /\ lease' = [owner |-> p, pubs |-> snap[p][Heartbeat]]
          /\ UNCHANGED records
       \/ /\ pc[p][Heartbeat] = "sources"
          /\ \E d \in todo[p][Heartbeat] :
                LET r == Record(p, d, sources[p][d])
                IN records' = IF InOrigin(p, r.version)
                              THEN records \cup {r} ELSE records \ {r}
          /\ UNCHANGED lease
    /\ lock' = [lock EXCEPT ![p] = None]
    /\ Leave(p, Heartbeat, "off")
    /\ UNCHANGED <<setup, fenced, pubs, sources, origin>>

(* It withdraws what it can; the lease is left to run out. *)
Closed(p) ==
    /\ phase[p] = "closing"
    /\ phase' = [phase EXCEPT ![p] = "closed"]
    /\ \E gone \in SUBSET {Record(p, d, sources[p][d]) :
                              d \in {e \in Digests : sources[p][e] # None}} :
          records' = records \ gone
    /\ sources' = [sources EXCEPT ![p] = [d \in Digests |-> None]]
    /\ UNCHANGED <<lease, setup, fenced, pubs, origin, lock, pc, op, arg, snap,
                   todo>>

-----------------------------------------------------------------------------
(* Redis *)

Expire ==
    /\ lease # None
    /\ lease' = None
    /\ UNCHANGED <<records, local>>

ExpireRecord(r) ==
    /\ r \in records
    /\ records' = records \ {r}
    /\ UNCHANGED <<lease, local>>

Refresh(p, t) ==
    \/ RefreshBegin(p, t) \/ EvalWritten(p, t) \/ EvalRefused(p, t)
    \/ RefreshEnd(p, t) \/ Started(p, t)
    \/ \E d \in Digests : SourceDone(p, t, d)

Publish(p, t) ==
    \/ \E step \in Steps, d \in Digests : PublishCall(p, t, step, d)
    \/ PublishCheck(p, t) \/ Broadcast(p, t) \/ PublishLock(p, t)
    \/ Register(p, t) \/ Append1(p, t) \/ AppendError(p, t)

(* Everything but a refresh that the registry lets down. *)
Regular ==
    \/ \E p \in Publishers, t \in Tasks : Refresh(p, t)
    \/ \E p \in Publishers, t \in Callers : Start(p, t) \/ Publish(p, t)
    \/ \E p \in Publishers : HeartbeatWakes(p) \/ Close(p) \/ Closed(p)
    \/ Expire
    \/ \E r \in records : ExpireRecord(r)

RefreshFails ==
    \E p \in Publishers, t \in Tasks :
        EvalError(p, t) \/ \E d \in Digests : SourceError(p, t, d)

Next == Regular \/ RefreshFails

Spec == Init /\ [][Next]_vars

-----------------------------------------------------------------------------
(* Fairness: tasks of a running process go on, a refresh_lock that stays   *)
(* free lets a waiter in, the registry recovers, and registrations nobody  *)
(* renews run out.                                                         *)

Abandoned(r) ==
    \/ sources[r.owner][r.digest] # r.version
    \/ pc[r.owner][Heartbeat] = "off"

(* What a task does without waiting for the lock. *)
GoOn(p, t) ==
    \/ EvalWritten(p, t) \/ EvalRefused(p, t) \/ RefreshEnd(p, t)
    \/ Started(p, t) \/ PublishCheck(p, t) \/ Broadcast(p, t)
    \/ Register(p, t) \/ Append1(p, t)
    \/ \E d \in Digests : SourceDone(p, t, d)

Fairness ==
    /\ \A p \in Publishers :
          /\ WF_vars(HeartbeatWakes(p))
          /\ \A t \in Tasks :
                /\ WF_vars(GoOn(p, t))
                /\ WF_vars(RefreshBegin(p, t) \/ PublishLock(p, t))
    /\ WF_vars(\E r \in records : Abandoned(r) /\ ExpireRecord(r))
    /\ <>[][Regular]_vars

FairSpec == Spec /\ Fairness

-----------------------------------------------------------------------------
(* Properties *)

Places == {"off", "idle", "sleep", "refresh", "eval", "sources", "check",
           "broadcast", "lock", "register", "append", "started"}

(* The state has its type, and the tasks that are inside a refresh_lock    *)
(* block are exactly its holder.                                           *)
TypeOK ==
    /\ setup \in Setups
    /\ lease \in Lease \cup {None}
    /\ records \subseteq [owner : Publishers, digest : Digests,
                          version : 1 .. MaxBroadcasts]
    /\ phase \in [Publishers -> {"new", "up", "closing", "closed"}]
    /\ fenced \in [Publishers -> BOOLEAN]
    /\ pubs \in [Publishers -> Seq(Publication)]
    /\ sources \in [Publishers -> [Digests -> 1 .. MaxBroadcasts \cup {None}]]
    /\ origin \in [Publishers -> Seq(Digests)]
    /\ lock \in [Publishers -> Tasks \cup {None}]
    /\ pc \in [Publishers -> [Tasks -> Places]]
    /\ op \in [Publishers -> [Tasks -> {"none", "start", "publish", "heartbeat"}]]
    /\ arg \in [Publishers -> [Tasks -> Call \cup {None}]]
    /\ snap \in [Publishers -> [Tasks -> Seq(Publication)]]
    /\ todo \in [Publishers -> [Tasks -> SUBSET Digests]]
    /\ \A p \in Publishers, t \in Tasks :
          pc[p][t] \in {"eval", "sources", "register", "append"}
             <=> lock[p] = t

(* A live record is never overwritten by a second publisher: the owner of  *)
(* the lease only changes through its expiry (start, refresh).             *)
LeaseExclusive ==
    [][lease # None /\ lease' # None => lease'.owner = lease.owner]_vars

(* What followers of the run are promised holds although claims, renewals, *)
(* publications, withdrawals and errors of several tasks and publishers    *)
(* interleave: see RunRegistry.  In particular the descriptor that a       *)
(* refresh writes is the list of publications at the moment of writing,    *)
(* not the one at which it was built (refresh_lock), so that the newest    *)
(* publication a follower sees never goes back under one owner; and every  *)
(* registration names the bundle its origin has under that version.        *)
Run == INSTANCE RunRegistry WITH Owners <- Publishers
ImplementsRunRegistry == Run!Spec

(* The descriptor is up to date again and again, so that a publication     *)
(* that publish appended gets into it even if publish itself raised,       *)
(* unless the publisher is replaced or closed.                             *)
CaughtUp ==
    \A p \in Publishers :
        []<>(\/ pubs[p] = << >> \/ fenced[p] \/ phase[p] # "up"
             \/ lease = [owner |-> p, pubs |-> pubs[p]])

(* Registrations of versions that the origin has dropped are withdrawn or  *)
(* run out: discovery does not point to them for ever.                     *)
RetiredWithdrawn ==
    []<>(\A r \in records : InOrigin(r.owner, r.version))
=============================================================================
