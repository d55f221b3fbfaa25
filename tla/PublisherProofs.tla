--------------------------- MODULE PublisherProofs ---------------------------
(***************************************************************************)
(* Theorems about Publisher for any number of publishers, callers,         *)
(* bundles, retained versions and broadcasts.  The inductive invariant is  *)
(* PublisherInv: TypeOK; where the tasks can be in each phase (Control);   *)
(* what a publish call knows (Arguments) and what a refresh built under    *)
(* the lock (Fresh) still holds when it is used after an await; sources    *)
(* and registrations that name what the origin has (Sourced, Truthful);    *)
(* and the bound on broadcasts (Budget).  The refinement of RunRegistry    *)
(* follows step by step, and from it what the registry tells followers.    *)
(***************************************************************************)
EXTENDS Publisher, FiniteSetTheorems, TLAPS

Publishing == {"check", "broadcast", "lock", "register", "append"}

Refreshing == {"refresh", "eval", "sources"}

(* Where tasks can be, and for which call, in each phase of a publisher. *)
Control(p) ==
    /\ pc[p][Heartbeat] \in {"off", "sleep"} \cup Refreshing
    /\ op[p][Heartbeat] \in {"none", "heartbeat"}
    /\ \A c \in Callers :
          /\ pc[p][c] \in {"idle", "started"} \cup Refreshing \cup Publishing
          /\ op[p][c] \in {"none", "start", "publish"}
          /\ pc[p][c] \in Publishing => op[p][c] = "publish"
          /\ pc[p][c] \in {"idle", "started"} => op[p][c] = "none"
          /\ op[p][c] = "start" \/ pc[p][c] = "started" => phase[p] = "new"
          /\ phase[p] \in {"closing", "closed"} => pc[p][c] = "idle"
    /\ \A t \in Tasks : pc[p][t] \in Refreshing => op[p][t] # "none"
    /\ phase[p] \in {"new", "closing", "closed"} => pc[p][Heartbeat] = "off"
    /\ phase[p] = "new" =>
          \A c, e \in Callers : pc[p][c] # "idle" /\ pc[p][e] # "idle" => c = e

(* v is a version of p's origin, and its bundle is d. *)
Holds(p, v, d) == v \in 1 .. Len(origin[p]) /\ origin[p][v] = d

(* What a publish call knows between two awaits. *)
Arguments(p) ==
    \A c \in Callers :
        /\ pc[p][c] \in Publishing =>
              arg[p][c] \in Call
        /\ pc[p][c] \in {"lock", "register", "append"} =>
              Holds(p, arg[p][c].version, arg[p][c].digest)

(* What a refresh built under the lock is still right when it is used. *)
Fresh(p) ==
    \A t \in Tasks :
        /\ pc[p][t] = "eval" => snap[p][t] = pubs[p]
        /\ pc[p][t] = "sources" => \A d \in todo[p][t] : sources[p][d] # None

Sourced(p) ==
    \A d \in Digests : sources[p][d] # None => Holds(p, sources[p][d], d)

Truthful == \A r \in records : Holds(r.owner, r.version, r.digest)

InFlight(p) == {c \in Callers : pc[p][c] \in {"check", "broadcast"}}

Budget(p) == Len(origin[p]) + Cardinality(InFlight(p)) <= setup.broadcasts

PublisherInv ==
    /\ TypeOK
    /\ \A p \in Publishers :
          Control(p) /\ Arguments(p) /\ Fresh(p) /\ Sourced(p) /\ Budget(p)
    /\ Truthful

-----------------------------------------------------------------------------
LEMMA RefreshBeginOK ==
    ASSUME PublisherInv, NEW p \in Publishers, NEW t \in Tasks, RefreshBegin(p, t)
    PROVE  PublisherInv'
<1> USE DEF RefreshBegin, LockFree, Goto, registry, object
<1>1. TypeOK'
  BY NoneAssumption DEF PublisherInv, TypeOK, Places
<1>2. ASSUME NEW q \in Publishers PROVE Control(q)'
  BY <1>2, HeartbeatAssumption DEF PublisherInv, TypeOK, Control, Refreshing, Publishing, Tasks
<1>3. ASSUME NEW q \in Publishers PROVE Arguments(q)' 
  BY <1>3 DEF PublisherInv, TypeOK, Arguments, Holds, Publishing, Tasks
<1>4. ASSUME NEW q \in Publishers PROVE Fresh(q)' 
  BY <1>4 DEF PublisherInv, TypeOK, Fresh
<1>5. ASSUME NEW q \in Publishers PROVE Sourced(q)' /\ Truthful' 
  BY <1>5 DEF PublisherInv, Sourced, Holds, Truthful
<1>6. ASSUME NEW q \in Publishers PROVE Budget(q)'
  <2>1. InFlight(q)' = InFlight(q)
    BY <1>6 DEF PublisherInv, InFlight, TypeOK, Tasks
  <2> QED BY <2>1 DEF PublisherInv, Budget
<1> QED BY <1>1, <1>2, <1>3, <1>4, <1>5, <1>6 DEF PublisherInv

(* What a task's locals and the lock have to satisfy. *)
LocalsOK ==
    /\ lock \in [Publishers -> Tasks \cup {None}]
    /\ pc \in [Publishers -> [Tasks -> Places]]
    /\ op \in [Publishers -> [Tasks -> {"none", "start", "publish", "heartbeat"}]]
    /\ arg \in [Publishers -> [Tasks -> Call \cup {None}]]
    /\ snap \in [Publishers -> [Tasks -> Seq(Publication)]]
    /\ todo \in [Publishers -> [Tasks -> SUBSET Digests]]
    /\ \A p \in Publishers, t \in Tasks :
          pc[p][t] \in {"eval", "sources", "register", "append"}
             <=> lock[p] = t

(* What every step that leaves the state of the object alone keeps. *)
TasksOK ==
    /\ LocalsOK
    /\ \A q \in Publishers : /\ Control(q) /\ Arguments(q) /\ Fresh(q)
                             /\ Sourced(q) /\ Budget(q)

(* A task returns from, or raises out of, a refresh_lock block. *)
LEMMA LeaveOK ==
    ASSUME PublisherInv, NEW p \in Publishers, NEW t \in Tasks,
           NEW where \in {"off", "sleep", "idle", "started"},
           pc[p][t] \in {"eval", "sources", "register", "append"},
           t \in Callers => \/ where = "idle"
                            \/ where = "started" /\ phase[p] = "new",
           t = Heartbeat => where \in {"off", "sleep"},
           lock' = [lock EXCEPT ![p] = None], Leave(p, t, where),
           UNCHANGED <<setup, phase, pubs, sources, origin>>
    PROVE  TasksOK'
<1> USE DEF Leave, Goto
<1>1. where \in Places
  BY DEF Places
<1>2. LocalsOK'
  BY <1>1, NoneAssumption DEF PublisherInv, TypeOK, LocalsOK, Places
<1>3. ASSUME NEW q \in Publishers PROVE Control(q)'
  <2>1. CASE t \in Callers
    BY <2>1, HeartbeatAssumption
       DEF PublisherInv, TypeOK, Control, Refreshing, Publishing, Tasks
  <2>2. CASE t = Heartbeat
    BY <2>2, HeartbeatAssumption
       DEF PublisherInv, TypeOK, Control, Refreshing, Publishing, Tasks
  <2> QED BY <2>1, <2>2 DEF Tasks
<1>4. ASSUME NEW q \in Publishers PROVE Arguments(q)'
  BY <1>1 DEF PublisherInv, TypeOK, Arguments, Holds, Publishing, Tasks
<1>5. ASSUME NEW q \in Publishers PROVE Fresh(q)' /\ Sourced(q)'
  BY <1>1 DEF PublisherInv, TypeOK, Fresh, Sourced, Holds
<1>6. ASSUME NEW q \in Publishers PROVE Budget(q)'
  <2>1. InFlight(q)' = InFlight(q)
    BY <1>1 DEF PublisherInv, InFlight, TypeOK, Tasks
  <2> QED BY <2>1 DEF PublisherInv, Budget
<1> QED BY <1>2, <1>3, <1>4, <1>5, <1>6 DEF TasksOK

(* An exception inside refresh, whatever the registry made of the call. *)
LEMMA RefreshRaisedOK ==
    ASSUME PublisherInv, NEW p \in Publishers, NEW t \in Tasks,
           NEW replaced \in BOOLEAN,
           pc[p][t] \in {"eval", "sources"}, RefreshRaised(p, t, replaced),
           UNCHANGED <<setup, phase, pubs, sources, origin>>
    PROVE  TasksOK'
<1>1. lock' = [lock EXCEPT ![p] = None]
  BY DEF RefreshRaised
<1>2. CASE op[p][t] \in {"start", "publish"} /\ Leave(p, t, "idle")
  <2>1. t # Heartbeat
    BY <1>2 DEF PublisherInv, Control
  <2> QED BY <1>1, <1>2, <2>1, LeaveOK
<1>3. CASE /\ op[p][t] = "publish"
           /\ Goto(p, t, "refresh")
           /\ snap' = [snap EXCEPT ![p][t] = << >>]
           /\ todo' = [todo EXCEPT ![p][t] = {}]
           /\ UNCHANGED <<op, arg>>
  <2> USE <1>1, <1>3 DEF Goto
  <2>1. LocalsOK'
    BY NoneAssumption DEF PublisherInv, TypeOK, LocalsOK, Places
  <2>2. ASSUME NEW q \in Publishers PROVE Control(q)'
    BY HeartbeatAssumption
       DEF PublisherInv, TypeOK, Control, Refreshing, Publishing, Tasks
  <2>3. ASSUME NEW q \in Publishers PROVE Arguments(q)'
    BY DEF PublisherInv, TypeOK, Arguments, Holds, Publishing, Tasks
  <2>4. ASSUME NEW q \in Publishers PROVE Fresh(q)' /\ Sourced(q)'
    BY DEF PublisherInv, TypeOK, Fresh, Sourced, Holds
  <2>5. ASSUME NEW q \in Publishers PROVE Budget(q)'
    <3>1. InFlight(q)' = InFlight(q)
      BY DEF PublisherInv, InFlight, TypeOK, Tasks
    <3> QED BY <3>1 DEF PublisherInv, Budget
  <2> QED BY <2>1, <2>2, <2>3, <2>4, <2>5 DEF TasksOK
<1>4. CASE /\ op[p][t] = "heartbeat"
           /\ Leave(p, t, IF replaced \/ fenced[p] THEN "off" ELSE "sleep")
  <2>1. t \notin Callers
    BY <1>4 DEF PublisherInv, Control
  <2>2. (IF replaced \/ fenced[p] THEN "off" ELSE "sleep") \in {"off", "sleep"}
    OBVIOUS
  <2> QED BY <1>1, <1>4, <2>1, <2>2, LeaveOK
<1> QED BY <1>2, <1>3, <1>4 DEF RefreshRaised

(* No publisher broadcasts more than it may. *)
LEMMA OriginBounded ==
    ASSUME PublisherInv, NEW p \in Publishers
    PROVE  Len(origin[p]) \in 0 .. MaxBroadcasts
<1>1. Cardinality(InFlight(p)) \in Nat
  BY HeartbeatAssumption, FS_Subset, FS_CardinalityType DEF InFlight
<1>2. setup.broadcasts \in 0 .. MaxBroadcasts
  BY SetupsAssumption DEF PublisherInv, TypeOK
<1>3. Len(origin[p]) \in Nat
  BY DEF PublisherInv, TypeOK
<1> QED BY <1>1, <1>2, <1>3, MaxBroadcastsAssumption DEF PublisherInv, Budget

(* Registrations may go, and true ones may come. *)
LEMMA RecordsOK ==
    ASSUME PublisherInv, NEW p \in Publishers, NEW d \in Digests, NEW v,
           Holds(p, v, d), UNCHANGED <<setup, origin>>,
           records' \subseteq records \cup {Record(p, d, v)}
    PROVE  /\ records' \subseteq [owner : Publishers, digest : Digests,
                                  version : 1 .. MaxBroadcasts]
           /\ Truthful'
<1>1. Len(origin[p]) \in 0 .. MaxBroadcasts
  BY OriginBounded
<1>2. Record(p, d, v) \in [owner : Publishers, digest : Digests,
                           version : 1 .. MaxBroadcasts]
  BY <1>1, MaxBroadcastsAssumption DEF Record, Holds
<1>3. records' \subseteq [owner : Publishers, digest : Digests,
                          version : 1 .. MaxBroadcasts]
  BY <1>2 DEF PublisherInv, TypeOK
<1>4. Truthful'
  BY DEF PublisherInv, Truthful, Holds, Record
<1> QED BY <1>3, <1>4

LEMMA EvalWrittenOK ==
    ASSUME PublisherInv, NEW p \in Publishers, NEW t \in Tasks, EvalWritten(p, t)
    PROVE  PublisherInv'
<1> USE DEF EvalWritten, Goto, object
<1>1. TypeOK'
  BY NoneAssumption DEF PublisherInv, TypeOK, Places, Lease
<1>2. ASSUME NEW q \in Publishers PROVE Control(q)'
  BY HeartbeatAssumption
     DEF PublisherInv, TypeOK, Control, Refreshing, Publishing, Tasks
<1>3. ASSUME NEW q \in Publishers PROVE Arguments(q)'
  BY DEF PublisherInv, TypeOK, Arguments, Holds, Publishing, Tasks
<1>4. ASSUME NEW q \in Publishers PROVE Fresh(q)' /\ Sourced(q)'
  BY DEF PublisherInv, TypeOK, Fresh, Sourced, Holds
<1>5. ASSUME NEW q \in Publishers PROVE Budget(q)'
  <2>1. InFlight(q)' = InFlight(q)
    BY DEF PublisherInv, InFlight, TypeOK, Tasks
  <2> QED BY <2>1 DEF PublisherInv, Budget
<1>6. Truthful'
  BY DEF PublisherInv, Truthful, Holds
<1> QED BY <1>1, <1>2, <1>3, <1>4, <1>5, <1>6 DEF PublisherInv

LEMMA EvalRefusedOK ==
    ASSUME PublisherInv, NEW p \in Publishers, NEW t \in Tasks, EvalRefused(p, t)
    PROVE  PublisherInv'
<1>1. TasksOK'
  BY RefreshRaisedOK DEF EvalRefused
<1>2. TypeOK'
  BY <1>1 DEF PublisherInv, EvalRefused, registry, TypeOK, TasksOK, LocalsOK
<1>3. Truthful'
  BY DEF PublisherInv, EvalRefused, registry, Truthful, Holds
<1> QED BY <1>1, <1>2, <1>3 DEF PublisherInv, TasksOK

LEMMA EvalErrorOK ==
    ASSUME PublisherInv, NEW p \in Publishers, NEW t \in Tasks, EvalError(p, t)
    PROVE  PublisherInv'
<1>1. TasksOK'
  BY RefreshRaisedOK DEF EvalError, object
<1>2. TypeOK'
  BY <1>1 DEF PublisherInv, EvalError, object, TypeOK, TasksOK, LocalsOK, Lease
<1>3. Truthful'
  BY DEF PublisherInv, EvalError, object, Truthful, Holds
<1> QED BY <1>1, <1>2, <1>3 DEF PublisherInv, TasksOK

(* A digest that the refresh still has to look at has a true source. *)
LEMMA TodoHolds ==
    ASSUME PublisherInv, NEW p \in Publishers, NEW t \in Tasks,
           NEW d \in Digests, pc[p][t] = "sources", d \in todo[p][t]
    PROVE  Holds(p, sources[p][d], d)
BY DEF PublisherInv, Fresh, Sourced

LEMMA SourceDoneOK ==
    ASSUME PublisherInv, NEW p \in Publishers, NEW t \in Tasks,
           NEW d \in Digests, SourceDone(p, t, d)
    PROVE  PublisherInv'
<1> USE DEF SourceDone
<1>1. Truthful' /\ records' \subseteq [owner : Publishers, digest : Digests,
                                       version : 1 .. MaxBroadcasts]
  <2>1. Holds(p, sources[p][d], d)
    BY TodoHolds
  <2>2. records' \subseteq records \cup {Record(p, d, sources[p][d])}
    OBVIOUS
  <2> QED BY <2>1, <2>2, RecordsOK
<1>2. TypeOK'
  <2>1. sources' \in [Publishers -> [Digests -> 1 .. MaxBroadcasts \cup {None}]]
    <3>1. CASE sources' = sources
      BY <3>1 DEF PublisherInv, TypeOK
    <3>2. CASE sources' = [sources EXCEPT ![p][d] = None]
      <4> DEFINE V == 1 .. MaxBroadcasts \cup {None}
      <4>1. None \in V /\ sources \in [Publishers -> [Digests -> V]]
        BY DEF PublisherInv, TypeOK
      <4> HIDE DEF V
      <4>2. sources' \in [Publishers -> [Digests -> V]]
        BY <3>2, <4>1
      <4> QED BY <4>2 DEF V
    <3> QED BY <3>1, <3>2
  <2>2. todo' \in [Publishers -> [Tasks -> SUBSET Digests]]
    BY DEF PublisherInv, TypeOK
  <2> QED BY <1>1, <2>1, <2>2 DEF PublisherInv, TypeOK
<1>3. ASSUME NEW q \in Publishers PROVE Control(q)'
  BY DEF PublisherInv, Control
<1>4. ASSUME NEW q \in Publishers PROVE Arguments(q)' /\ Sourced(q)'
  BY DEF PublisherInv, TypeOK, Arguments, Sourced, Holds
<1>5. ASSUME NEW q \in Publishers PROVE Fresh(q)'
  BY DEF PublisherInv, TypeOK, Fresh
<1>6. ASSUME NEW q \in Publishers PROVE Budget(q)'
  BY DEF PublisherInv, Budget, InFlight
<1> QED BY <1>1, <1>2, <1>3, <1>4, <1>5, <1>6 DEF PublisherInv

LEMMA SourceErrorOK ==
    ASSUME PublisherInv, NEW p \in Publishers, NEW t \in Tasks,
           NEW d \in Digests, SourceError(p, t, d)
    PROVE  PublisherInv'
<1>1. TasksOK'
  BY RefreshRaisedOK DEF SourceError, object
<1>2. Truthful' /\ records' \subseteq [owner : Publishers, digest : Digests,
                                       version : 1 .. MaxBroadcasts]
  <2>1. Holds(p, sources[p][d], d)
    BY TodoHolds DEF SourceError
  <2>2. records' \subseteq records \cup {Record(p, d, sources[p][d])}
    BY DEF SourceError
  <2> QED BY <2>1, <2>2, RecordsOK DEF SourceError, object
<1>3. TypeOK'
  BY <1>1, <1>2 DEF PublisherInv, SourceError, object, TypeOK, TasksOK, LocalsOK
<1> QED BY <1>1, <1>2, <1>3 DEF PublisherInv, TasksOK

LEMMA RefreshEndOK ==
    ASSUME PublisherInv, NEW p \in Publishers, NEW t \in Tasks, RefreshEnd(p, t)
    PROVE  PublisherInv'
<1> USE DEF RefreshEnd, registry, object
<1>1. TasksOK'
  <2> DEFINE where == AfterRefresh(op[p][t])
  <2>1. /\ t \in Callers => \/ where = "idle"
                            \/ where = "started" /\ phase[p] = "new"
        /\ t = Heartbeat => where \in {"off", "sleep"}
        /\ where \in {"off", "sleep", "idle", "started"}
    BY DEF PublisherInv, TypeOK, Control, Refreshing, Tasks, AfterRefresh
  <2> HIDE DEF where
  <2>2. Leave(p, t, where)
    BY DEF where
  <2> QED BY <2>1, <2>2, LeaveOK
<1>2. TypeOK'
  BY <1>1 DEF PublisherInv, TypeOK, TasksOK, LocalsOK
<1>3. Truthful'
  BY DEF PublisherInv, Truthful, Holds
<1> QED BY <1>1, <1>2, <1>3 DEF PublisherInv, TasksOK

LEMMA StartedOK ==
    ASSUME PublisherInv, NEW p \in Publishers, NEW t \in Tasks, Started(p, t)
    PROVE  PublisherInv'
<1> USE DEF Started, registry
<1>1. t \in Callers /\ phase[p] = "new" /\ pc[p][Heartbeat] = "off"
  BY HeartbeatAssumption DEF PublisherInv, Control, Tasks, Refreshing
<1>2. /\ pc' \in [Publishers -> [Tasks -> Places]]
      /\ \A q \in Publishers, u \in Tasks :
            pc'[q][u] = IF q # p THEN pc[q][u]
                        ELSE IF u = t THEN "idle"
                        ELSE IF u = Heartbeat THEN "sleep" ELSE pc[q][u]
  <2>1. Heartbeat \in Tasks /\ "idle" \in Places /\ "sleep" \in Places
    BY DEF Tasks, Places
  <2> QED BY <1>1, <2>1, HeartbeatAssumption DEF PublisherInv, TypeOK
<1>3. TypeOK'
  <2>1. phase' \in [Publishers -> {"new", "up", "closing", "closed"}]
    BY DEF PublisherInv, TypeOK
  <2>2. ASSUME NEW q \in Publishers, NEW u \in Tasks
        PROVE  pc'[q][u] \in {"eval", "sources", "register", "append"}
                  <=> lock'[q] = u
    BY <1>1, <1>2 DEF PublisherInv, TypeOK, Tasks
  <2> QED BY <1>2, <2>1, <2>2 DEF PublisherInv, TypeOK
<1>4. ASSUME NEW q \in Publishers PROVE Control(q)'
  BY <1>1, <1>2, HeartbeatAssumption
     DEF PublisherInv, TypeOK, Control, Refreshing, Publishing, Tasks
<1>5. ASSUME NEW q \in Publishers PROVE Arguments(q)'
  BY <1>1, <1>2 DEF PublisherInv, TypeOK, Arguments, Holds, Publishing, Tasks
<1>6. ASSUME NEW q \in Publishers PROVE Fresh(q)' /\ Sourced(q)'
  BY <1>1, <1>2 DEF PublisherInv, Fresh, Sourced, Holds, Tasks
<1>7. ASSUME NEW q \in Publishers PROVE Budget(q)'
  <2>1. InFlight(q)' = InFlight(q)
    BY <1>1, <1>2, HeartbeatAssumption DEF PublisherInv, InFlight, Tasks
  <2> QED BY <2>1 DEF PublisherInv, Budget
<1>8. Truthful'
  BY DEF PublisherInv, Truthful, Holds
<1> QED BY <1>3, <1>4, <1>5, <1>6, <1>7, <1>8 DEF PublisherInv

LEMMA HeartbeatWakesOK ==
    ASSUME PublisherInv, NEW p \in Publishers, HeartbeatWakes(p)
    PROVE  PublisherInv'
<1> USE DEF HeartbeatWakes, Goto, registry, object
<1>1. Heartbeat \in Tasks /\ Heartbeat \notin Callers
  BY HeartbeatAssumption DEF Tasks
<1>2. TypeOK'
  BY <1>1, NoneAssumption DEF PublisherInv, TypeOK, Places
<1>3. ASSUME NEW q \in Publishers PROVE Control(q)'
  BY <1>1 DEF PublisherInv, TypeOK, Control, Refreshing, Publishing, Tasks
<1>4. ASSUME NEW q \in Publishers PROVE Arguments(q)'
  BY <1>1 DEF PublisherInv, TypeOK, Arguments, Holds, Publishing, Tasks
<1>5. ASSUME NEW q \in Publishers PROVE Fresh(q)' /\ Sourced(q)'
  BY <1>1 DEF PublisherInv, TypeOK, Fresh, Sourced, Holds
<1>6. ASSUME NEW q \in Publishers PROVE Budget(q)'
  <2>1. InFlight(q)' = InFlight(q)
    BY <1>1 DEF PublisherInv, InFlight, TypeOK, Tasks
  <2> QED BY <2>1 DEF PublisherInv, Budget
<1>7. Truthful'
  BY DEF PublisherInv, Truthful, Holds
<1> QED BY <1>2, <1>3, <1>4, <1>5, <1>6, <1>7 DEF PublisherInv

LEMMA StartOK ==
    ASSUME PublisherInv, NEW p \in Publishers, NEW t \in Callers, Start(p, t)
    PROVE  PublisherInv'
<1> USE DEF Start, Goto, registry, object
<1>1. t \in Tasks /\ t # Heartbeat
  BY HeartbeatAssumption DEF Tasks
<1>2. TypeOK'
  BY <1>1, NoneAssumption DEF PublisherInv, TypeOK, Places
<1>3. ASSUME NEW q \in Publishers PROVE Control(q)'
  BY <1>1, HeartbeatAssumption
     DEF PublisherInv, TypeOK, Control, Refreshing, Publishing, Tasks
<1>4. ASSUME NEW q \in Publishers PROVE Arguments(q)'
  BY <1>1 DEF PublisherInv, TypeOK, Arguments, Holds, Publishing, Tasks
<1>5. ASSUME NEW q \in Publishers PROVE Fresh(q)' /\ Sourced(q)'
  BY <1>1 DEF PublisherInv, TypeOK, Fresh, Sourced, Holds
<1>6. ASSUME NEW q \in Publishers PROVE Budget(q)'
  <2>1. InFlight(q)' = InFlight(q)
    BY <1>1 DEF PublisherInv, InFlight, TypeOK, Tasks
  <2> QED BY <2>1 DEF PublisherInv, Budget
<1>7. Truthful'
  BY DEF PublisherInv, Truthful, Holds
<1> QED BY <1>2, <1>3, <1>4, <1>5, <1>6, <1>7 DEF PublisherInv

LEMMA InFlightFinite ==
    ASSUME NEW p
    PROVE  IsFiniteSet(InFlight(p)) /\ Cardinality(InFlight(p)) \in Nat
BY HeartbeatAssumption, FS_Subset, FS_CardinalityType DEF InFlight

LEMMA PublishCallOK ==
    ASSUME PublisherInv, NEW p \in Publishers, NEW t \in Callers,
           NEW step \in Steps, NEW d \in Digests, PublishCall(p, t, step, d)
    PROVE  PublisherInv'
<1> USE DEF PublishCall, Goto, registry, object
<1>1. t \in Tasks /\ t # Heartbeat
  BY HeartbeatAssumption DEF Tasks
<1> DEFINE a == [step |-> step, digest |-> d, version |-> None]
<1>a. a \in Call /\ arg' = [arg EXCEPT ![p][t] = a]
  BY DEF Call
<1> HIDE DEF a
<1>2. TypeOK'
  BY <1>1, <1>a, NoneAssumption DEF PublisherInv, TypeOK, Places
<1>3. ASSUME NEW q \in Publishers PROVE Control(q)'
  BY <1>1, HeartbeatAssumption
     DEF PublisherInv, TypeOK, Control, Refreshing, Publishing, Tasks
<1>4. ASSUME NEW q \in Publishers PROVE Arguments(q)'
  BY <1>1, <1>a DEF PublisherInv, TypeOK, Arguments, Holds, Publishing, Tasks
<1>5. ASSUME NEW q \in Publishers PROVE Fresh(q)' /\ Sourced(q)'
  BY <1>1 DEF PublisherInv, TypeOK, Fresh, Sourced, Holds
<1>6. ASSUME NEW q \in Publishers PROVE Budget(q)'
  <2>1. CASE q = p
    <3>1. InFlight(p)' = InFlight(p) \cup {t} /\ t \notin InFlight(p)
      BY <1>1 DEF PublisherInv, InFlight, TypeOK, Tasks
    <3>2. Cardinality(InFlight(p)') = Cardinality(InFlight(p)) + 1
      BY <3>1, InFlightFinite, FS_AddElement
    <3>3. Len(origin[p]) + Cardinality(InFlight(p)) < setup.broadcasts
      BY DEF InFlight
    <3>4. Len(origin[p]) \in Nat /\ setup.broadcasts \in Nat
      BY SetupsAssumption, MaxBroadcastsAssumption DEF PublisherInv, TypeOK
    <3> QED BY <2>1, <3>2, <3>3, <3>4, InFlightFinite DEF Budget
  <2>2. CASE q # p
    <3>1. InFlight(q)' = InFlight(q)
      BY <1>1, <2>2 DEF PublisherInv, InFlight, TypeOK, Tasks
    <3> QED BY <3>1 DEF PublisherInv, Budget
  <2> QED BY <2>1, <2>2
<1>7. Truthful'
  BY DEF PublisherInv, Truthful, Holds
<1> QED BY <1>2, <1>3, <1>4, <1>5, <1>6, <1>7 DEF PublisherInv

LEMMA PublishCheckOK ==
    ASSUME PublisherInv, NEW p \in Publishers, NEW t \in Callers, PublishCheck(p, t)
    PROVE  PublisherInv'
<1> USE DEF PublishCheck, Goto, registry, object
<1>1. t \in Tasks /\ t # Heartbeat
  BY HeartbeatAssumption DEF Tasks
<1>2. CASE Leave(p, t, "idle")
  <2> USE <1>2 DEF Leave
  <2>1. TypeOK'
    BY <1>1, NoneAssumption DEF PublisherInv, TypeOK, Places
  <2>2. ASSUME NEW q \in Publishers PROVE Control(q)'
    BY <1>1, HeartbeatAssumption
       DEF PublisherInv, TypeOK, Control, Refreshing, Publishing, Tasks
  <2>3. ASSUME NEW q \in Publishers PROVE Arguments(q)'
    BY <1>1 DEF PublisherInv, TypeOK, Arguments, Holds, Publishing, Tasks
  <2>4. ASSUME NEW q \in Publishers PROVE Fresh(q)' /\ Sourced(q)'
    BY <1>1 DEF PublisherInv, TypeOK, Fresh, Sourced, Holds
  <2>5. ASSUME NEW q \in Publishers PROVE Budget(q)'
    <3>1. CASE q = p
      <4>1. InFlight(p)' = InFlight(p) \ {t} /\ t \in InFlight(p)
        BY <1>1 DEF PublisherInv, InFlight, TypeOK, Tasks
      <4>2. Cardinality(InFlight(p)') = Cardinality(InFlight(p)) - 1
        BY <4>1, InFlightFinite, FS_RemoveElement
      <4>3. Len(origin[p]) \in Nat /\ setup.broadcasts \in Nat
        BY SetupsAssumption, MaxBroadcastsAssumption DEF PublisherInv, TypeOK
      <4> QED BY <3>1, <4>2, <4>3, InFlightFinite DEF PublisherInv, Budget
    <3>2. CASE q # p
      <4>1. InFlight(q)' = InFlight(q)
        BY <1>1, <3>2 DEF PublisherInv, InFlight, TypeOK, Tasks
      <4> QED BY <4>1 DEF PublisherInv, Budget
    <3> QED BY <3>1, <3>2
  <2>6. Truthful'
    BY DEF PublisherInv, Truthful, Holds
  <2> QED BY <2>1, <2>2, <2>3, <2>4, <2>5, <2>6 DEF PublisherInv
<1>3. CASE Goto(p, t, "broadcast") /\ UNCHANGED <<op, arg, snap, todo>>
  <2> USE <1>3
  <2>1. TypeOK'
    BY <1>1, NoneAssumption DEF PublisherInv, TypeOK, Places
  <2>2. ASSUME NEW q \in Publishers PROVE Control(q)'
    BY <1>1, HeartbeatAssumption
       DEF PublisherInv, TypeOK, Control, Refreshing, Publishing, Tasks
  <2>3. ASSUME NEW q \in Publishers PROVE Arguments(q)'
    BY <1>1 DEF PublisherInv, TypeOK, Arguments, Holds, Publishing, Tasks
  <2>4. ASSUME NEW q \in Publishers PROVE Fresh(q)' /\ Sourced(q)'
    BY <1>1 DEF PublisherInv, TypeOK, Fresh, Sourced, Holds
  <2>5. ASSUME NEW q \in Publishers PROVE Budget(q)'
    <3>1. InFlight(q)' = InFlight(q)
      BY <1>1 DEF PublisherInv, InFlight, TypeOK, Tasks
    <3> QED BY <3>1 DEF PublisherInv, Budget
  <2>6. Truthful'
    BY DEF PublisherInv, Truthful, Holds
  <2> QED BY <2>1, <2>2, <2>3, <2>4, <2>5, <2>6 DEF PublisherInv
<1> QED BY <1>2, <1>3

LEMMA BroadcastOK ==
    ASSUME PublisherInv, NEW p \in Publishers, NEW t \in Callers, Broadcast(p, t)
    PROVE  PublisherInv'
<1> USE DEF Broadcast, Goto, registry
<1>1. t \in Tasks /\ t # Heartbeat
  BY HeartbeatAssumption DEF Tasks
<1>2. /\ arg[p][t] \in Call
      /\ origin \in [Publishers -> Seq(Digests)]
  BY DEF PublisherInv, TypeOK, Arguments, Publishing
<1>3. /\ Len(origin[p]) \in Nat
      /\ origin'[p] = Append(origin[p], arg[p][t].digest)
      /\ arg[p][t].digest \in Digests
      /\ \A q \in Publishers : q # p => origin'[q] = origin[q]
      /\ origin' \in [Publishers -> Seq(Digests)]
  BY <1>2 DEF Call
<1>4. /\ Len(origin'[p]) = Len(origin[p]) + 1
      /\ \A v \in 1 .. Len(origin[p]) : origin'[p][v] = origin[p][v]
      /\ origin'[p][Len(origin[p]) + 1] = arg[p][t].digest
  BY <1>2, <1>3
<1>n. PICK n \in Nat, e \in Digests : n = Len(origin[p]) + 1 /\ e = arg[p][t].digest
  BY <1>3
<1>5. /\ \A q \in Publishers : \A v, d : Holds(q, v, d) => Holds(q, v, d)'
      /\ Holds(p, n, e)'
  <2>1. ASSUME NEW q \in Publishers, NEW v, NEW d, Holds(q, v, d)
        PROVE  Holds(q, v, d)'
    BY <1>3, <1>4, <2>1 DEF Holds
  <2>2. Holds(p, n, e)'
    BY <1>n, <1>3, <1>4 DEF Holds
  <2> QED BY <2>1, <2>2
<1> DEFINE a == [arg[p][t] EXCEPT !.version = n]
<1>6. /\ arg' = [arg EXCEPT ![p][t] = a] /\ a \in Call
      /\ a.version = n /\ a.digest = e
  <2>1. arg' = [arg EXCEPT ![p][t] = a]
    BY <1>1, <1>n DEF PublisherInv, TypeOK
  <2>2. a \in Call /\ a.version = n /\ a.digest = e
    BY <1>n, <1>2, <1>3 DEF Call
  <2> QED BY <2>1, <2>2
<1> HIDE DEF a
<1>7. TypeOK'
  <2>1. arg' \in [Publishers -> [Tasks -> Call \cup {None}]]
    <3>1. arg \in [Publishers -> [Tasks -> Call \cup {None}]]
      BY DEF PublisherInv, TypeOK
    <3> QED BY ONLY <1>1, <1>6, <3>1, p \in Publishers
  <2>2. pc' \in [Publishers -> [Tasks -> Places]]
    BY <1>1 DEF PublisherInv, TypeOK, Places
  <2>3. \A q \in Publishers, u \in Tasks :
            pc'[q][u] \in {"eval", "sources", "register", "append"}
               <=> lock'[q] = u
    BY <1>1 DEF PublisherInv, TypeOK
  <2> QED BY <1>3, <2>1, <2>2, <2>3 DEF PublisherInv, TypeOK
<1>8. ASSUME NEW q \in Publishers PROVE Control(q)'
  BY <1>1, HeartbeatAssumption
     DEF PublisherInv, TypeOK, Control, Refreshing, Publishing, Tasks
<1>9. ASSUME NEW q \in Publishers PROVE Arguments(q)'
  <2> SUFFICES ASSUME NEW c \in Callers
               PROVE  /\ pc'[q][c] \in Publishing => arg'[q][c] \in Call
                      /\ pc'[q][c] \in {"lock", "register", "append"} =>
                            Holds(q, arg[q][c].version, arg[q][c].digest)'
    BY DEF Arguments
  <2>1. CASE q = p /\ c = t
    <3>1. arg'[p][t] = a
      BY <1>1, <1>6 DEF PublisherInv, TypeOK
    <3> QED BY <1>5, <1>6, <2>1, <3>1
  <2>2. CASE q # p \/ c # t
    <3>1. pc'[q][c] = pc[q][c] /\ arg'[q][c] = arg[q][c]
      BY <1>1, <1>6, <2>2 DEF PublisherInv, TypeOK, Tasks
    <3> QED BY <1>5, <3>1 DEF PublisherInv, Arguments
  <2> QED BY <2>1, <2>2
<1>10. ASSUME NEW q \in Publishers PROVE Fresh(q)' /\ Sourced(q)'
  BY <1>1, <1>5 DEF PublisherInv, TypeOK, Fresh, Sourced
<1>11. ASSUME NEW q \in Publishers PROVE Budget(q)'
  <2>1. CASE q = p
    <3>1. InFlight(p)' = InFlight(p) \ {t} /\ t \in InFlight(p)
      BY <1>1 DEF PublisherInv, InFlight, TypeOK, Tasks
    <3>2. Cardinality(InFlight(p)') = Cardinality(InFlight(p)) - 1
      BY <3>1, InFlightFinite, FS_RemoveElement
    <3>3. setup.broadcasts \in Nat
      BY SetupsAssumption, MaxBroadcastsAssumption DEF PublisherInv, TypeOK
    <3> QED BY <1>3, <1>4, <2>1, <3>2, <3>3, InFlightFinite
            DEF PublisherInv, Budget
  <2>2. CASE q # p
    <3>1. InFlight(q)' = InFlight(q) /\ origin'[q] = origin[q]
      BY <1>1, <1>3, <2>2 DEF PublisherInv, InFlight, TypeOK, Tasks
    <3> QED BY <3>1 DEF PublisherInv, Budget
  <2> QED BY <2>1, <2>2
<1>12. Truthful'
  BY <1>5 DEF PublisherInv, Truthful, TypeOK
<1> QED BY <1>7, <1>8, <1>9, <1>10, <1>11, <1>12 DEF PublisherInv

LEMMA PublishLockOK ==
    ASSUME PublisherInv, NEW p \in Publishers, NEW t \in Callers, PublishLock(p, t)
    PROVE  PublisherInv'
<1> USE DEF PublishLock, LockFree, Goto, registry, object
<1>1. t \in Tasks /\ t # Heartbeat
  BY HeartbeatAssumption DEF Tasks
<1>2. TypeOK'
  BY <1>1, NoneAssumption DEF PublisherInv, TypeOK, Places
<1>3. ASSUME NEW q \in Publishers PROVE Control(q)'
  BY <1>1, HeartbeatAssumption
     DEF PublisherInv, TypeOK, Control, Refreshing, Publishing, Tasks
<1>4. ASSUME NEW q \in Publishers PROVE Arguments(q)'
  BY <1>1 DEF PublisherInv, TypeOK, Arguments, Holds, Publishing, Tasks
<1>5. ASSUME NEW q \in Publishers PROVE Fresh(q)' /\ Sourced(q)'
  BY <1>1 DEF PublisherInv, TypeOK, Fresh, Sourced, Holds
<1>6. ASSUME NEW q \in Publishers PROVE Budget(q)'
  <2>1. InFlight(q)' = InFlight(q)
    BY <1>1 DEF PublisherInv, InFlight, TypeOK, Tasks
  <2> QED BY <2>1 DEF PublisherInv, Budget
<1>7. Truthful'
  BY DEF PublisherInv, Truthful, Holds
<1> QED BY <1>2, <1>3, <1>4, <1>5, <1>6, <1>7 DEF PublisherInv

(* The registration that publish makes names the version it broadcast. *)
LEMMA ArgHolds ==
    ASSUME PublisherInv, NEW p \in Publishers, NEW t \in Callers,
           pc[p][t] \in {"register", "append"}
    PROVE  /\ Holds(p, arg[p][t].version, arg[p][t].digest)
           /\ arg[p][t] \in Call /\ arg[p][t].digest \in Digests
<1>1. Holds(p, arg[p][t].version, arg[p][t].digest) /\ arg[p][t] \in Call
  BY DEF PublisherInv, Arguments, Publishing
<1> QED BY <1>1 DEF Call

LEMMA RegisterOK ==
    ASSUME PublisherInv, NEW p \in Publishers, NEW t \in Callers, Register(p, t)
    PROVE  PublisherInv'
<1> USE DEF Register, object
<1>1. t \in Tasks /\ t # Heartbeat
  BY HeartbeatAssumption DEF Tasks
<1>2. Truthful' /\ records' \subseteq [owner : Publishers, digest : Digests,
                                       version : 1 .. MaxBroadcasts]
  <2>1. records' \subseteq records \cup {Record(p, arg[p][t].digest, arg[p][t].version)}
    OBVIOUS
  <2> QED BY <2>1, ArgHolds, RecordsOK
<1>3. CASE Goto(p, t, "append") /\ UNCHANGED <<lock, op, arg, snap, todo>>
  <2> USE <1>3 DEF Goto
  <2>1. TypeOK'
    BY <1>1, <1>2, NoneAssumption DEF PublisherInv, TypeOK, Places
  <2>2. ASSUME NEW q \in Publishers PROVE Control(q)'
    BY <1>1, HeartbeatAssumption
       DEF PublisherInv, TypeOK, Control, Refreshing, Publishing, Tasks
  <2>3. ASSUME NEW q \in Publishers PROVE Arguments(q)'
    BY <1>1 DEF PublisherInv, TypeOK, Arguments, Holds, Publishing, Tasks
  <2>4. ASSUME NEW q \in Publishers PROVE Fresh(q)' /\ Sourced(q)'
    BY <1>1 DEF PublisherInv, TypeOK, Fresh, Sourced, Holds
  <2>5. ASSUME NEW q \in Publishers PROVE Budget(q)'
    <3>1. InFlight(q)' = InFlight(q)
      BY <1>1 DEF PublisherInv, InFlight, TypeOK, Tasks
    <3> QED BY <3>1 DEF PublisherInv, Budget
  <2> QED BY <1>2, <2>1, <2>2, <2>3, <2>4, <2>5 DEF PublisherInv
<1>4. CASE lock' = [lock EXCEPT ![p] = None] /\ Leave(p, t, "idle")
  <2>1. TasksOK'
    BY <1>1, <1>4, LeaveOK
  <2>2. TypeOK'
    BY <1>2, <2>1 DEF PublisherInv, TypeOK, TasksOK, LocalsOK
  <2> QED BY <1>2, <2>1, <2>2 DEF PublisherInv, TasksOK
<1> QED BY <1>3, <1>4

LEMMA AppendErrorOK ==
    ASSUME PublisherInv, NEW p \in Publishers, NEW t \in Callers, AppendError(p, t)
    PROVE  PublisherInv'
<1> USE DEF AppendError, object
<1>1. t \in Tasks /\ t # Heartbeat
  BY HeartbeatAssumption DEF Tasks
<1>2. Truthful' /\ records' \subseteq records
  BY DEF PublisherInv, Truthful, Holds
<1>3. TasksOK'
  BY <1>1, LeaveOK
<1>4. TypeOK'
  BY <1>2, <1>3 DEF PublisherInv, TypeOK, TasksOK, LocalsOK
<1> QED BY <1>2, <1>3, <1>4 DEF PublisherInv, TasksOK

(* publications[-retain_versions:] is the list from some place on. *)
LEMMA NewestIsTail ==
    ASSUME NEW q \in Seq(Publication), Len(q) > 0, setup \in Setups
    PROVE  /\ Newest(q) \in Seq(Publication)
           /\ \E i \in 1 .. Len(q) : Newest(q) = SubSeq(q, i, Len(q))
<1>1. setup.retain \in Nat \ {0}
  BY SetupsAssumption
<1>2. CASE Len(q) <= setup.retain
  <2>1. Newest(q) = SubSeq(q, 1, Len(q))
    BY <1>1, <1>2 DEF Newest
  <2> QED BY <1>2, <2>1 DEF Newest
<1>3. CASE Len(q) > setup.retain
  <2>1. PICK i \in 1 .. Len(q) : i = Len(q) - setup.retain + 1
    BY <1>1, <1>3
  <2>2. ~(Len(q) <= setup.retain)
    BY <1>1, <1>3
  <2>3. Newest(q) = SubSeq(q, i, Len(q))
    BY <2>1, <2>2, Zenon DEF Newest
  <2>4. SubSeq(q, i, Len(q)) \in Seq(Publication)
    BY <2>1
  <2> QED BY <2>3, <2>4
<1> QED BY <1>1, <1>2, <1>3

LEMMA Append1OK ==
    ASSUME PublisherInv, NEW p \in Publishers, NEW t \in Callers, Append1(p, t)
    PROVE  PublisherInv'
<1> DEFINE new == [step |-> arg[p][t].step, digest |-> arg[p][t].digest]
<1> USE DEF Append1, Goto
<1>1. t \in Tasks /\ t # Heartbeat
  BY HeartbeatAssumption DEF Tasks
<1>2. PICK d \in Digests, v \in 1 .. MaxBroadcasts :
         /\ d = arg[p][t].digest /\ v = arg[p][t].version /\ Holds(p, v, d)
         /\ arg[p][t] \in Call
  <2>1. /\ Holds(p, arg[p][t].version, arg[p][t].digest)
        /\ arg[p][t] \in Call /\ arg[p][t].digest \in Digests
    BY ArgHolds
  <2>2. Len(origin[p]) \in 0 .. MaxBroadcasts
    BY OriginBounded
  <2> QED BY <2>1, <2>2, MaxBroadcastsAssumption DEF Holds
<1>3. pubs' \in [Publishers -> Seq(Publication)]
  <2>1. new \in Publication
    BY <1>2 DEF Call, Publication
  <2>2. pubs[p] \in Seq(Publication)
    BY DEF PublisherInv, TypeOK
  <2> HIDE DEF new
  <2>3. Append(pubs[p], new) \in Seq(Publication) /\ Len(Append(pubs[p], new)) > 0
    BY <2>1, <2>2
  <2>4. Newest(Append(pubs[p], new)) \in Seq(Publication)
    BY <2>3, NewestIsTail DEF PublisherInv, TypeOK
  <2>5. pubs' = [pubs EXCEPT ![p] = Newest(Append(pubs[p], new))]
    BY DEF PublisherInv, TypeOK, new
  <2> QED BY ONLY <2>4, <2>5, PublisherInv DEF PublisherInv, TypeOK
<1>4. sources' = [sources EXCEPT ![p][d] = v]
  BY <1>2
<1>5. /\ sources' \in [Publishers -> [Digests -> 1 .. MaxBroadcasts \cup {None}]]
      /\ sources'[p][d] = v
      /\ \A q \in Publishers, e \in Digests :
            q # p \/ e # d => sources'[q][e] = sources[q][e]
  <2> DEFINE V == 1 .. MaxBroadcasts \cup {None}
  <2>1. v \in V /\ sources \in [Publishers -> [Digests -> V]]
    BY DEF PublisherInv, TypeOK
  <2> HIDE DEF V
  <2>2. /\ sources' \in [Publishers -> [Digests -> V]] /\ sources'[p][d] = v
        /\ \A q \in Publishers, e \in Digests :
              q # p \/ e # d => sources'[q][e] = sources[q][e]
    BY ONLY <1>4, <2>1, p \in Publishers
  <2> QED BY <2>2 DEF V
<1>6. Truthful' /\ records' \subseteq records
  BY DEF PublisherInv, Truthful, Holds
<1>7. TypeOK'
  <2>1. /\ pc' \in [Publishers -> [Tasks -> Places]]
        /\ arg' \in [Publishers -> [Tasks -> Call \cup {None}]]
    BY <1>1 DEF PublisherInv, TypeOK, Places
  <2>2. lock' \in [Publishers -> Tasks \cup {None}]
    BY DEF PublisherInv, TypeOK
  <2>3. \A q \in Publishers, u \in Tasks :
            pc'[q][u] \in {"eval", "sources", "register", "append"}
               <=> lock'[q] = u
    BY <1>1, NoneAssumption DEF PublisherInv, TypeOK
  <2> QED BY <1>3, <1>5, <1>6, <2>1, <2>2, <2>3 DEF PublisherInv, TypeOK
<1>8. ASSUME NEW q \in Publishers PROVE Control(q)'
  BY <1>1, HeartbeatAssumption
     DEF PublisherInv, TypeOK, Control, Refreshing, Publishing, Tasks
<1>9. ASSUME NEW q \in Publishers PROVE Arguments(q)'
  BY <1>1 DEF PublisherInv, TypeOK, Arguments, Holds, Publishing, Tasks
<1>10. ASSUME NEW q \in Publishers PROVE Sourced(q)'
  BY <1>2, <1>5, NoneAssumption DEF PublisherInv, Sourced, Holds
<1>11. ASSUME NEW q \in Publishers PROVE Fresh(q)'
  <2>1. ASSUME q = p, NEW u \in Tasks
        PROVE  pc'[q][u] \notin {"eval", "sources"}
    BY <1>1, <2>1 DEF PublisherInv, TypeOK
  <2>2. ASSUME q # p
        PROVE  /\ pc'[q] = pc[q] /\ snap'[q] = snap[q] /\ todo'[q] = todo[q]
               /\ pubs'[q] = pubs[q] /\ sources'[q] = sources[q]
    BY <2>2 DEF PublisherInv, TypeOK
  <2> QED BY <2>1, <2>2 DEF PublisherInv, Fresh
<1>12. ASSUME NEW q \in Publishers PROVE Budget(q)'
  <2>1. InFlight(q)' = InFlight(q)
    BY <1>1 DEF PublisherInv, InFlight, TypeOK, Tasks
  <2> QED BY <2>1 DEF PublisherInv, Budget
<1> QED BY <1>6, <1>7, <1>8, <1>9, <1>10, <1>11, <1>12 DEF PublisherInv

LEMMA CloseOK ==
    ASSUME PublisherInv, NEW p \in Publishers, Close(p)
    PROVE  PublisherInv'
<1> USE DEF Close, Leave, Goto
<1>1. Heartbeat \in Tasks /\ Heartbeat \notin Callers
  BY HeartbeatAssumption DEF Tasks
<1>2. Truthful' /\ records' \subseteq [owner : Publishers, digest : Digests,
                                       version : 1 .. MaxBroadcasts]
  <2>1. CASE records' = records
    BY <2>1 DEF PublisherInv, TypeOK, Truthful, Holds
  <2>2. ASSUME pc[p][Heartbeat] = "sources", NEW d \in todo[p][Heartbeat],
               records' \subseteq records \cup {Record(p, d, sources[p][d])}
        PROVE  Truthful' /\ records' \subseteq
                              [owner : Publishers, digest : Digests,
                               version : 1 .. MaxBroadcasts]
    <3>1. d \in Digests
      BY <1>1 DEF PublisherInv, TypeOK
    <3>2. Holds(p, sources[p][d], d)
      BY <1>1, <2>2, <3>1, TodoHolds
    <3> QED BY <2>2, <3>1, <3>2, RecordsOK
  <2> QED BY <2>1, <2>2 DEF registry
<1>3. lease' \in Lease \cup {None}
  BY <1>1 DEF PublisherInv, TypeOK, Lease, registry
<1>4. TypeOK'
  <2>1. /\ pc' \in [Publishers -> [Tasks -> Places]]
        /\ arg' \in [Publishers -> [Tasks -> Call \cup {None}]]
        /\ op' \in [Publishers -> [Tasks -> {"none", "start", "publish", "heartbeat"}]]
        /\ snap' \in [Publishers -> [Tasks -> Seq(Publication)]]
        /\ todo' \in [Publishers -> [Tasks -> SUBSET Digests]]
    BY <1>1 DEF PublisherInv, TypeOK, Places
  <2>2. /\ lock' \in [Publishers -> Tasks \cup {None}]
        /\ phase' \in [Publishers -> {"new", "up", "closing", "closed"}]
    BY DEF PublisherInv, TypeOK
  <2>3. \A q \in Publishers, u \in Tasks :
            pc'[q][u] \in {"eval", "sources", "register", "append"}
               <=> lock'[q] = u
    BY <1>1, NoneAssumption DEF PublisherInv, TypeOK, Tasks
  <2> QED BY <1>2, <1>3, <2>1, <2>2, <2>3 DEF PublisherInv, TypeOK
<1>5. ASSUME NEW q \in Publishers PROVE Control(q)'
  BY <1>1 DEF PublisherInv, TypeOK, Control, Refreshing, Publishing, Tasks
<1>6. ASSUME NEW q \in Publishers PROVE Arguments(q)'
  BY <1>1 DEF PublisherInv, TypeOK, Arguments, Holds, Publishing, Tasks
<1>7. ASSUME NEW q \in Publishers PROVE Fresh(q)' /\ Sourced(q)'
  BY <1>1 DEF PublisherInv, TypeOK, Fresh, Sourced, Holds
<1>8. ASSUME NEW q \in Publishers PROVE Budget(q)'
  <2>1. InFlight(q)' = InFlight(q)
    BY <1>1 DEF PublisherInv, InFlight, TypeOK, Tasks
  <2> QED BY <2>1 DEF PublisherInv, Budget
<1> QED BY <1>2, <1>4, <1>5, <1>6, <1>7, <1>8 DEF PublisherInv

LEMMA ClosedOK ==
    ASSUME PublisherInv, NEW p \in Publishers, Closed(p)
    PROVE  PublisherInv'
<1> USE DEF Closed
<1>1. Truthful' /\ records' \subseteq records
  BY DEF PublisherInv, Truthful, Holds
<1>2. /\ sources' \in [Publishers -> [Digests -> 1 .. MaxBroadcasts \cup {None}]]
      /\ phase' \in [Publishers -> {"new", "up", "closing", "closed"}]
      /\ \A d \in Digests : sources'[p][d] = None
      /\ \A q \in Publishers : q # p => sources'[q] = sources[q]
  BY DEF PublisherInv, TypeOK
<1>3. TypeOK'
  BY <1>1, <1>2 DEF PublisherInv, TypeOK
<1>4. ASSUME NEW q \in Publishers PROVE Control(q)'
  BY DEF PublisherInv, TypeOK, Control
<1>5. ASSUME NEW q \in Publishers PROVE Arguments(q)' /\ Sourced(q)'
  BY <1>2 DEF PublisherInv, Arguments, Sourced, Holds
<1>6. ASSUME NEW q \in Publishers PROVE Fresh(q)'
  BY <1>2 DEF PublisherInv, Fresh, Control, Tasks
<1>7. ASSUME NEW q \in Publishers PROVE Budget(q)'
  BY DEF PublisherInv, Budget, InFlight
<1> QED BY <1>1, <1>3, <1>4, <1>5, <1>6, <1>7 DEF PublisherInv

(* Redis forgets the descriptor, or a registration; or nothing happens. *)
LEMMA ForgetOK ==
    ASSUME PublisherInv, UNCHANGED local, records' \subseteq records,
           lease' \in {lease, None}
    PROVE  PublisherInv'
<1>1. TypeOK'
  BY DEF PublisherInv, TypeOK, local, object
<1>2. \A q \in Publishers : Control(q)' /\ Arguments(q)' /\ Fresh(q)'
  BY DEF PublisherInv, Control, Arguments, Fresh, Holds, local, object
<1>3. \A q \in Publishers : Sourced(q)' /\ Budget(q)'
  BY DEF PublisherInv, Sourced, Budget, InFlight, Holds, local, object
<1>4. Truthful'
  BY DEF PublisherInv, Truthful, Holds, local, object
<1> QED BY <1>1, <1>2, <1>3, <1>4 DEF PublisherInv

-----------------------------------------------------------------------------
LEMMA InitOK == Init => PublisherInv
<1> SUFFICES ASSUME Init PROVE PublisherInv
  OBVIOUS
<1> USE DEF Init
<1>1. TypeOK
  BY NoneAssumption, HeartbeatAssumption DEF TypeOK, Places, Tasks
<1>2. ASSUME NEW p \in Publishers
      PROVE  Control(p) /\ Arguments(p) /\ Fresh(p) /\ Sourced(p) /\ Truthful
  BY HeartbeatAssumption DEF Control, Arguments, Fresh, Sourced, Truthful,
     Publishing, Refreshing, Tasks
<1>3. ASSUME NEW p \in Publishers PROVE Budget(p)
  <2>1. InFlight(p) = {}
    BY HeartbeatAssumption DEF InFlight, Tasks
  <2>2. Len(origin[p]) = 0 /\ Cardinality(InFlight(p)) = 0
    BY <2>1, FS_EmptySet
  <2>3. setup.broadcasts \in Nat
    BY SetupsAssumption, MaxBroadcastsAssumption
  <2> QED BY <2>2, <2>3 DEF Budget
<1>4. Truthful
  BY DEF Truthful
<1> QED BY <1>1, <1>2, <1>3, <1>4 DEF PublisherInv

LEMMA NextOK == PublisherInv /\ [Next]_vars => PublisherInv'
<1> SUFFICES ASSUME PublisherInv, [Next]_vars PROVE PublisherInv'
  OBVIOUS
<1>1. ASSUME NEW p \in Publishers, NEW t \in Tasks, Refresh(p, t)
      PROVE  PublisherInv'
  BY <1>1, RefreshBeginOK, EvalWrittenOK, EvalRefusedOK, RefreshEndOK,
     StartedOK, SourceDoneOK DEF Refresh
<1>2. ASSUME NEW p \in Publishers, NEW t \in Callers, Publish(p, t)
      PROVE  PublisherInv'
  BY <1>2, PublishCallOK, PublishCheckOK, BroadcastOK, PublishLockOK,
     RegisterOK, Append1OK, AppendErrorOK DEF Publish
<1>3. ASSUME NEW p \in Publishers, HeartbeatWakes(p) \/ Close(p) \/ Closed(p)
      PROVE  PublisherInv'
  BY <1>3, HeartbeatWakesOK, CloseOK, ClosedOK
<1>4. CASE Expire \/ \E r \in records : ExpireRecord(r)
  BY <1>4, ForgetOK DEF Expire, ExpireRecord
<1>5. CASE Regular
  BY <1>1, <1>2, <1>3, <1>4, <1>5, StartOK DEF Regular
<1>6. CASE RefreshFails
  BY <1>6, EvalErrorOK, SourceErrorOK DEF RefreshFails
<1>7. CASE UNCHANGED vars
  BY <1>7, ForgetOK DEF vars, registry
<1> QED BY <1>5, <1>6, <1>7 DEF Next

(* The invariant of the publishers: under the refresh_lock a refresh holds *)
(* the publications as they are, the sources and the registrations name    *)
(* bundles their origin has, and the phases keep start, publish, heartbeat *)
(* and close apart.                                                        *)
THEOREM PublisherInvariant == Spec => []PublisherInv
BY InitOK, NextOK, PTL DEF Spec

(* The state has its type, and a task is inside a refresh_lock block if    *)
(* and only if it holds the lock.                                          *)
THEOREM PublisherTypeCorrect == Spec => []TypeOK
<1>1. PublisherInv => TypeOK
  BY DEF PublisherInv
<1> QED BY <1>1, PublisherInvariant, PTL

-----------------------------------------------------------------------------
(* Every write of the descriptor is the script's, which compares owners. *)
LEMMA LeaseStep ==
    ASSUME Next
    PROVE  \/ lease' = lease
           \/ lease' = None
           \/ \E p \in Publishers : MayWrite(p) /\ lease'.owner = p
<1>1. ASSUME NEW p \in Publishers, NEW t \in Tasks, Refresh(p, t)
      PROVE  lease' = lease \/ (MayWrite(p) /\ lease'.owner = p)
  <2>1. CASE EvalWritten(p, t)
    BY <2>1 DEF EvalWritten
  <2>2. ASSUME NEW d \in Digests, SourceDone(p, t, d) PROVE lease' = lease
    BY <2>2 DEF SourceDone
  <2>3. CASE RefreshBegin(p, t) \/ EvalRefused(p, t) \/ RefreshEnd(p, t)
                \/ Started(p, t)
    BY <2>3 DEF RefreshBegin, EvalRefused, RefreshEnd, Started, registry
  <2> QED BY <1>1, <2>1, <2>2, <2>3 DEF Refresh
<1>2. ASSUME NEW p \in Publishers, NEW t \in Callers, Publish(p, t) \/ Start(p, t)
      PROVE  lease' = lease
  BY <1>2 DEF Publish, Start, PublishCall, PublishCheck, Broadcast, PublishLock,
     Register, Append1, AppendError, registry
<1>3. ASSUME NEW p \in Publishers, HeartbeatWakes(p) \/ Close(p) \/ Closed(p)
      PROVE  lease' = lease \/ (MayWrite(p) /\ lease'.owner = p)
  BY <1>3 DEF HeartbeatWakes, Close, Closed, registry
<1>4. ASSUME NEW p \in Publishers, NEW t \in Tasks,
             EvalError(p, t) \/ \E d \in Digests : SourceError(p, t, d)
      PROVE  lease' = lease \/ (MayWrite(p) /\ lease'.owner = p)
  <2>1. CASE EvalError(p, t)
    BY <2>1 DEF EvalError
  <2>2. ASSUME NEW d \in Digests, SourceError(p, t, d) PROVE lease' = lease
    BY <2>2 DEF SourceError
  <2> QED BY <1>4, <2>1, <2>2
<1>5. CASE Expire \/ \E r \in records : ExpireRecord(r)
  BY <1>5 DEF Expire, ExpireRecord
<1> QED BY <1>1, <1>2, <1>3, <1>4, <1>5 DEF Next, Regular, RefreshFails

(* A live descriptor never passes from one publisher to another: whatever  *)
(* the tasks of the publishers do, it has to run out first.                *)
THEOREM LeaseIsExclusive == Spec => LeaseExclusive
<1>1. [Next]_vars =>
         [lease # None /\ lease' # None => lease'.owner = lease.owner]_vars
  <2> SUFFICES ASSUME Next, lease # None, lease' # None
               PROVE  lease'.owner = lease.owner
    OBVIOUS
  <2> QED BY LeaseStep DEF MayWrite
<1> QED BY <1>1, PTL DEF Spec, LeaseExclusive

-----------------------------------------------------------------------------
(* Refinement of RunRegistry: which abstract step each step is. *)

StutterStep == UNCHANGED <<lease, records, origin, pubs>>

(* A renewal or a withdrawal of a registration. *)
LEMMA RecordStep ==
    ASSUME NEW p \in Publishers, NEW v, NEW d, Holds(p, v, d),
           UNCHANGED <<lease, origin, pubs>>,
           \/ records' = records \cup {Record(p, d, v)}
           \/ records' \subseteq records
    PROVE  Run!Next
<1>1. CASE records' = records \cup {Record(p, d, v)}
  <2>1. Run!Announce(p, v)
    BY <1>1 DEF Run!Announce, Record, Holds
  <2> QED BY <2>1 DEF Run!Next, Holds
<1>2. CASE records' \subseteq records
  BY <1>2 DEF Run!Next, Run!Withdraw
<1> QED BY <1>1, <1>2

LEMMA WithdrawStep ==
    ASSUME records' \subseteq records, UNCHANGED <<lease, origin, pubs>>
    PROVE  Run!Next
BY DEF Run!Next, Run!Withdraw

(* The script writes the list of publications as it is when it runs. *)
LEMMA RenewStep ==
    ASSUME PublisherInv, NEW p \in Publishers, NEW t \in Tasks,
           pc[p][t] = "eval", MayWrite(p),
           lease' = [owner |-> p, pubs |-> snap[p][t]],
           UNCHANGED <<records, origin, pubs>>
    PROVE  Run!Next
<1>1. snap[p][t] = pubs[p]
  BY DEF PublisherInv, Fresh
<1>2. Run!Renew(p)
  BY <1>1 DEF Run!Renew, MayWrite
<1> QED BY <1>2 DEF Run!Next

LEMMA BroadcastStep ==
    ASSUME PublisherInv, NEW p \in Publishers, NEW t \in Callers, Broadcast(p, t)
    PROVE  Run!Next
<1>1. arg[p][t].digest \in Digests
  BY DEF Broadcast, PublisherInv, Arguments, Publishing, Call
<1>2. Run!Broadcast(p, arg[p][t].digest)
  BY DEF Broadcast, registry, Run!Broadcast
<1> QED BY <1>1, <1>2 DEF Run!Next

LEMMA AppendStep ==
    ASSUME PublisherInv, NEW p \in Publishers, NEW t \in Callers, Append1(p, t)
    PROVE  Run!Next
<1>1. PICK d \in Digests, v \in 1 .. Len(origin[p]), k \in Steps :
         /\ d = arg[p][t].digest /\ v = arg[p][t].version /\ k = arg[p][t].step
         /\ Holds(p, v, d)
  <2>1. /\ Holds(p, arg[p][t].version, arg[p][t].digest)
        /\ arg[p][t] \in Call /\ arg[p][t].digest \in Digests
    BY ArgHolds DEF Append1
  <2> QED BY <2>1 DEF Call, Holds
<1>2. v \in 1 .. Len(origin[p]) /\ origin[p][v] = d
  BY <1>1 DEF Holds
<1> DEFINE all == Append(pubs[p], [step |-> k, digest |-> d])
<1>3. pubs' = [pubs EXCEPT ![p] = Newest(all)]
  BY <1>1 DEF Append1, PublisherInv, TypeOK
<1>4. PICK i \in 1 .. Len(all) : Newest(all) = SubSeq(all, i, Len(all))
  <2>1. [step |-> k, digest |-> d] \in Publication /\ pubs[p] \in Seq(Publication)
    BY <1>1 DEF PublisherInv, TypeOK, Publication
  <2>2. all \in Seq(Publication) /\ Len(all) > 0
    BY <2>1
  <2> HIDE DEF all
  <2> QED BY <2>2, NewestIsTail DEF PublisherInv, TypeOK
<1>5. \E j \in 1 .. Len(all) :
         pubs' = [pubs EXCEPT ![p] = SubSeq(all, j, Len(all))]
  BY <1>3, <1>4
<1>6. records' \in {records} \cup
         {records \ {[owner |-> p, digest |-> d, version |-> w]} :
             w \in 1 .. Len(origin[p])}
  <2>1. CASE sources[p][d] = None
    BY <1>1, <2>1 DEF Append1
  <2>2. CASE sources[p][d] # None
    <3>1. sources[p][d] \in 1 .. Len(origin[p])
      BY <2>2 DEF PublisherInv, Sourced, Holds
    <3>2. records' = records \ {[owner |-> p, digest |-> d,
                                 version |-> sources[p][d]]}
      BY <1>1, <2>2 DEF Append1, Record
    <3> QED BY <3>1, <3>2
  <2> QED BY <2>1, <2>2
<1>7. Run!Publish(p, k, v)
  BY <1>2, <1>5, <1>6 DEF Run!Publish, Append1
<1> QED BY <1>2, <1>7 DEF Run!Next

LEMMA RefreshStep ==
    ASSUME PublisherInv, NEW p \in Publishers, NEW t \in Tasks, Refresh(p, t)
    PROVE  Run!Next \/ StutterStep
<1>1. CASE EvalWritten(p, t)
  <2>1. UNCHANGED <<records, origin, pubs>>
    BY <1>1 DEF EvalWritten, object
  <2> QED BY <1>1, <2>1, RenewStep DEF EvalWritten
<1>2. ASSUME NEW d \in Digests, SourceDone(p, t, d)
      PROVE  Run!Next
  <2>1. Holds(p, sources[p][d], d)
    BY <1>2, TodoHolds DEF SourceDone
  <2>2. /\ UNCHANGED <<lease, origin, pubs>>
        /\ \/ records' = records \cup {Record(p, d, sources[p][d])}
           \/ records' \subseteq records
    BY <1>2 DEF SourceDone
  <2> QED BY <2>1, <2>2, RecordStep
<1>3. CASE RefreshBegin(p, t) \/ EvalRefused(p, t) \/ RefreshEnd(p, t)
              \/ Started(p, t)
  BY <1>3 DEF RefreshBegin, EvalRefused, RefreshEnd, Started, registry, object,
     StutterStep
<1> QED BY <1>1, <1>2, <1>3, Refresh(p, t) DEF Refresh

LEMMA RefreshFailsStep ==
    ASSUME PublisherInv, RefreshFails
    PROVE  Run!Next \/ StutterStep
<1>1. ASSUME NEW p \in Publishers, NEW t \in Tasks, EvalError(p, t)
      PROVE  Run!Next \/ StutterStep
  <2>1. UNCHANGED <<records, origin, pubs>>
    BY <1>1 DEF EvalError, object
  <2> QED BY <1>1, <2>1, RenewStep DEF EvalError, StutterStep
<1>2. ASSUME NEW p \in Publishers, NEW t \in Tasks, NEW d \in Digests,
             SourceError(p, t, d)
      PROVE  Run!Next
  <2>1. Holds(p, sources[p][d], d)
    BY <1>2, TodoHolds DEF SourceError
  <2>2. /\ UNCHANGED <<lease, origin, pubs>>
        /\ \/ records' = records \cup {Record(p, d, sources[p][d])}
           \/ records' \subseteq records
    BY <1>2 DEF SourceError, object
  <2> QED BY <2>1, <2>2, RecordStep
<1> QED BY <1>1, <1>2 DEF RefreshFails

LEMMA PublishStep ==
    ASSUME PublisherInv, NEW p \in Publishers, NEW t \in Callers, Publish(p, t)
    PROVE  Run!Next \/ StutterStep
<1>1. ASSUME NEW step \in Steps, NEW d \in Digests, PublishCall(p, t, step, d)
      PROVE  StutterStep
  BY <1>1 DEF PublishCall, registry, object, StutterStep
<1>2. CASE PublishCheck(p, t) \/ PublishLock(p, t)
  BY <1>2 DEF PublishCheck, PublishLock, registry, object, StutterStep
<1>3. CASE Register(p, t)
  <2>1. Holds(p, arg[p][t].version, arg[p][t].digest)
    BY <1>3, ArgHolds DEF Register
  <2>2. /\ UNCHANGED <<lease, origin, pubs>>
        /\ \/ records' = records \cup {Record(p, arg[p][t].digest, arg[p][t].version)}
           \/ records' \subseteq records
    BY <1>3 DEF Register, object
  <2> QED BY <2>1, <2>2, RecordStep
<1>4. CASE AppendError(p, t)
  <2>1. records' \subseteq records /\ UNCHANGED <<lease, origin, pubs>>
    BY <1>4 DEF AppendError, object
  <2> QED BY <2>1, WithdrawStep
<1> QED BY <1>1, <1>2, <1>3, <1>4, BroadcastStep, AppendStep, Publish(p, t)
        DEF Publish

LEMMA CloseStep ==
    ASSUME PublisherInv, NEW p \in Publishers, Close(p)
    PROVE  Run!Next \/ StutterStep
<1>1. Heartbeat \in Tasks /\ UNCHANGED <<origin, pubs>>
  BY DEF Tasks, Close
<1>2. CASE UNCHANGED registry
  BY <1>1, <1>2 DEF registry, StutterStep
<1>3. CASE /\ pc[p][Heartbeat] = "eval" /\ MayWrite(p)
           /\ lease' = [owner |-> p, pubs |-> snap[p][Heartbeat]]
           /\ UNCHANGED records
  BY <1>1, <1>3, RenewStep
<1>4. ASSUME pc[p][Heartbeat] = "sources", NEW d \in todo[p][Heartbeat],
             UNCHANGED lease,
             \/ records' = records \cup {Record(p, d, sources[p][d])}
             \/ records' \subseteq records
      PROVE  Run!Next
  <2>1. d \in Digests
    BY <1>1 DEF PublisherInv, TypeOK
  <2>2. Holds(p, sources[p][d], d)
    BY <1>1, <1>4, <2>1, TodoHolds
  <2> QED BY <1>1, <1>4, <2>2, RecordStep
<1> QED BY <1>2, <1>3, <1>4 DEF Close

LEMMA RunStep == PublisherInv /\ [Next]_vars => [Run!Next]_(Run!vars)
<1> SUFFICES ASSUME PublisherInv, [Next]_vars PROVE Run!Next \/ StutterStep
  BY DEF StutterStep, Run!vars
<1>1. ASSUME NEW p \in Publishers, NEW t \in Callers, Start(p, t)
      PROVE  StutterStep
  BY <1>1 DEF Start, registry, object, StutterStep
<1>2. ASSUME NEW p \in Publishers, HeartbeatWakes(p)
      PROVE  StutterStep
  BY <1>2 DEF HeartbeatWakes, registry, object, StutterStep
<1>3. ASSUME NEW p \in Publishers, Closed(p)
      PROVE  Run!Next
  BY <1>3, WithdrawStep DEF Closed
<1>4. CASE Expire
  BY <1>4 DEF Expire, local, object, Run!Next, Run!Lapse
<1>5. ASSUME NEW r \in records, ExpireRecord(r)
      PROVE  Run!Next
  BY <1>5, WithdrawStep DEF ExpireRecord, local, object
<1>6. CASE Regular
  BY <1>1, <1>2, <1>3, <1>4, <1>5, <1>6, RefreshStep, PublishStep, CloseStep
     DEF Regular
<1>7. CASE UNCHANGED vars
  BY <1>7 DEF vars, registry, local, object, StutterStep
<1> QED BY <1>6, <1>7, RefreshFailsStep DEF Next

(* The publishers implement RunRegistry: what a follower sees is a list    *)
(* its owner had at the moment of writing, and registrations that name     *)
(* what the owner broadcast.                                               *)
THEOREM PublishersImplementRunRegistry == Spec => ImplementsRunRegistry
<1>1. Init => Run!Init
  BY DEF Init, Run!Init
<1> QED BY <1>1, RunStep, PublisherInvariant, PTL
        DEF Spec, ImplementsRunRegistry, Run!Spec

-----------------------------------------------------------------------------
(* What the refinement gives those who follow the run. *)

(* Every publication in the list q is of a bundle in the origin contents s.*)
WereBroadcast(q, s) ==
    \A i \in 1 .. Len(q) : \E v \in 1 .. Len(s) : s[v] = q[i].digest

Descriptors ==
    /\ \A p \in Publishers : WereBroadcast(pubs[p], origin[p])
    /\ lease # None => WereBroadcast(lease.pubs, origin[lease.owner])

(* A descriptor names only bundles its owner has broadcast, a registration *)
(* the bundle its owner has under that version.                            *)
FollowersAreTold ==
    /\ lease # None => WereBroadcast(lease.pubs, origin[lease.owner])
    /\ Truthful

LEMMA BroadcastStays ==
    ASSUME NEW q, NEW s \in Seq(Digests), NEW d \in Digests, WereBroadcast(q, s)
    PROVE  WereBroadcast(q, Append(s, d))
<1>1. \A v \in 1 .. Len(s) : v \in 1 .. Len(Append(s, d)) /\ Append(s, d)[v] = s[v]
  OBVIOUS
<1> QED BY <1>1 DEF WereBroadcast

(* A publication is added and old ones are dropped. *)
LEMMA RetainedWereBroadcast ==
    ASSUME NEW q \in Seq(Publication), NEW s, WereBroadcast(q, s),
           NEW e \in Publication, NEW v \in 1 .. Len(s), e.digest = s[v],
           NEW i \in 1 .. Len(Append(q, e))
    PROVE  WereBroadcast(SubSeq(Append(q, e), i, Len(Append(q, e))), s)
<1> DEFINE all == Append(q, e)
           n == Len(all)
<1>1. /\ all \in Seq(Publication) /\ n = Len(q) + 1 /\ n \in Nat
      /\ \A j \in 1 .. Len(q) : all[j] = q[j]
      /\ all[n] = e
  OBVIOUS
<1> HIDE DEF all
<1>2. ASSUME NEW j \in 1 .. n
      PROVE  \E w \in 1 .. Len(s) : s[w] = all[j].digest
  <2>1. CASE j \in 1 .. Len(q)
    BY <1>1, <2>1 DEF WereBroadcast
  <2>2. CASE j = n
    BY <1>1, <2>2
  <2> QED BY <1>1, <2>1, <2>2
<1>3. /\ Len(SubSeq(all, i, n)) = n - i + 1
      /\ \A j \in 1 .. (n - i + 1) :
            SubSeq(all, i, n)[j] = all[i + j - 1] /\ i + j - 1 \in 1 .. n
  BY <1>1 DEF all
<1>4. WereBroadcast(SubSeq(all, i, n), s)
  BY <1>2, <1>3 DEF WereBroadcast
<1> QED BY <1>4 DEF all

LEMMA DescriptorsStep ==
    ASSUME TypeOK, Descriptors, Run!Next \/ StutterStep
    PROVE  Descriptors'
<1>1. /\ origin \in [Publishers -> Seq(Digests)]
      /\ pubs \in [Publishers -> Seq(Publication)]
      /\ lease # None => lease.owner \in Publishers
  BY DEF TypeOK, Lease
<1>2. /\ \A p \in Publishers : WereBroadcast(pubs[p], origin[p])
      /\ lease # None => WereBroadcast(lease.pubs, origin[lease.owner])
  BY DEF Descriptors
<1>3. CASE StutterStep \/ Run!Lapse \/ Run!Withdraw
  BY <1>2, <1>3 DEF StutterStep, Run!Lapse, Run!Withdraw, Descriptors
<1>4. ASSUME NEW p \in Publishers, Run!Renew(p)
      PROVE  Descriptors'
  BY <1>2, <1>4 DEF Run!Renew, Descriptors
<1>5. ASSUME NEW p \in Publishers, NEW d \in Digests, Run!Broadcast(p, d)
      PROVE  Descriptors'
  <2>1. /\ \A o \in Publishers :
              origin'[o] = IF o = p THEN Append(origin[o], d) ELSE origin[o]
        /\ lease' = lease /\ pubs' = pubs
    BY <1>1, <1>5 DEF Run!Broadcast
  <2>2. ASSUME NEW o \in Publishers, NEW q, WereBroadcast(q, origin[o])
        PROVE  WereBroadcast(q, origin'[o])
    <3>1. WereBroadcast(q, Append(origin[o], d))
      BY <1>1, <2>2, BroadcastStays
    <3> QED BY <2>1, <2>2, <3>1
  <2> QED BY <1>1, <1>2, <2>1, <2>2 DEF Descriptors
<1>6. ASSUME NEW p \in Publishers, NEW v \in 1 .. Len(origin[p]),
             Run!Announce(p, v)
      PROVE  Descriptors'
  BY <1>2, <1>6 DEF Run!Announce, Descriptors
<1>7. ASSUME NEW p \in Publishers, NEW v \in 1 .. Len(origin[p]), NEW k \in Steps,
             Run!Publish(p, k, v)
      PROVE  Descriptors'
  <2> DEFINE entry == [step |-> k, digest |-> origin[p][v]]
             all == Append(pubs[p], entry)
  <2>1. PICK i \in 1 .. Len(all) :
           pubs' = [pubs EXCEPT ![p] = SubSeq(all, i, Len(all))]
    BY <1>7 DEF Run!Publish
  <2>2. lease' = lease /\ origin' = origin
    BY <1>7 DEF Run!Publish
  <2>3. entry \in Publication /\ entry.digest = origin[p][v]
    BY <1>1 DEF Publication
  <2> HIDE DEF entry
  <2>4. WereBroadcast(SubSeq(all, i, Len(all)), origin[p])
    BY <1>1, <1>2, <2>3, RetainedWereBroadcast
  <2> HIDE DEF all
  <2>5. \A o \in Publishers :
           pubs'[o] = IF o = p THEN SubSeq(all, i, Len(all)) ELSE pubs[o]
    BY <1>1, <2>1
  <2> QED BY <1>2, <2>2, <2>4, <2>5 DEF Descriptors
<1> QED BY <1>3, <1>4, <1>5, <1>6, <1>7 DEF Run!Next

(* The registry misleads nobody, however publishers, tasks and errors      *)
(* interleave and replace one another: a consequence of the refinement.    *)
THEOREM TheRegistryTellsTheTruth == Spec => []FollowersAreTold
<1>1. Init => Descriptors
  BY DEF Init, Descriptors, WereBroadcast
<1>2. PublisherInv /\ Descriptors /\ [Next]_vars => Descriptors'
  <2> SUFFICES ASSUME PublisherInv, Descriptors, [Next]_vars
               PROVE  Descriptors'
    OBVIOUS
  <2>1. Run!Next \/ StutterStep
    BY RunStep DEF StutterStep, Run!vars
  <2> QED BY <2>1, DescriptorsStep DEF PublisherInv
<1>3. PublisherInv /\ Descriptors => FollowersAreTold
  BY DEF PublisherInv, Descriptors, FollowersAreTold
<1> QED BY <1>1, <1>2, <1>3, PublisherInvariant, PTL DEF Spec
=============================================================================
