---------------------------- MODULE Subscriptions ----------------------------
(***************************************************************************)
(* litecast/registry/middle.py: the supervisor of a standalone relay       *)
(* (serve), which keeps one session per subscribed run: supervise_publisher *)
(* around serve_publisher, whose cycle is RelaySession.  The runs come from *)
(* the command line or from a file that is read again every second.        *)
(*                                                                         *)
(* One event loop runs everything: a step is what runs between two awaits. *)
(* A session looks at its stop event between two cycles only, and a cycle  *)
(* may be in the middle of a download.                                     *)
(***************************************************************************)
EXTENDS Integers, Sequences, FiniteSets, SequencesExt

CONSTANTS
    Runs,           \* valid run ids
    Malformed,      \* an entry that is no string or no valid run id
    Snapshots,      \* contents the file may have; Absent: missing, not JSON
    MaxPublishers,  \* args.max_publishers
    Port,           \* args.port
    MaxEdits,       \* bound on the number of contents of the file
    Absent

ASSUME SnapshotsAssumption ==
    /\ Malformed \notin Runs /\ Absent \notin Runs
    /\ Snapshots \subseteq Seq(Runs \cup {Malformed}) \cup {Absent}
ASSUME BoundsAssumption ==
    /\ MaxPublishers \in Nat \ {0} /\ MaxEdits \in Nat \ {0} /\ Port \in Nat

VARIABLES
    reloadable, \* --publishers, not --run-id; never changes
    edits,      \* what the file has contained so far, the last is current
    stop,       \* the stop event that signals set
    loop,       \* where serve is
    runs,       \* the last snapshot that was accepted
    sessions,   \* the keys of the dictionary
    tasks,      \* the tasks of each run; a session's task is the last one
    detach,     \* runs that the loop still has to detach
    joined      \* the run whose task serve is waiting for

serveVars ==
    <<reloadable, edits, stop, loop, runs, sessions, tasks, detach, joined>>

(* publisher_ids returns, and does not raise. *)
Accepts(snapshot) ==
    /\ snapshot # Absent
    /\ ToSet(snapshot) \subseteq Runs
    /\ Len(snapshot) <= MaxPublishers
    /\ IsInjective(snapshot)

ServeInit ==
    /\ reloadable \in BOOLEAN
    /\ runs \in {s \in Snapshots : Accepts(s)}
    /\ edits = <<runs>>
    /\ stop = FALSE
    /\ loop = "reload"
    /\ sessions = {}
    /\ tasks = [r \in Runs |-> << >>]
    /\ detach = {}
    /\ joined = Absent

-----------------------------------------------------------------------------
(* Outside *)

Edit(snapshot) ==
    /\ reloadable /\ Len(edits) < MaxEdits
    /\ edits' = Append(edits, snapshot)
    /\ UNCHANGED <<reloadable, stop, loop, runs, sessions, tasks, detach, joined>>

Signal ==
    /\ ~stop
    /\ stop' = TRUE
    /\ UNCHANGED <<reloadable, edits, loop, runs, sessions, tasks, detach, joined>>

-----------------------------------------------------------------------------
(* serve *)

(* Mutant: a snapshot that is rejected detaches everything. *)
ReloadOrNothing ==
    /\ loop = "reload" /\ ~stop
    /\ runs' = IF Accepts(Last(edits)) THEN Last(edits) ELSE << >>
    /\ detach' = sessions \ ToSet(runs')
    /\ loop' = "detach"
    /\ UNCHANGED <<reloadable, edits, stop, sessions, tasks, joined>>

(* The whole file is validated before any healthy session is detached. *)
Reload ==
    /\ loop = "reload" /\ ~stop
    /\ runs' = IF Accepts(Last(edits)) THEN Last(edits) ELSE runs
    /\ detach' = sessions \ ToSet(runs')
    /\ loop' = "detach"
    /\ UNCHANGED <<reloadable, edits, stop, sessions, tasks, joined>>

SetStop(r) == [tasks[r] EXCEPT ![Len(tasks[r])].stop = TRUE]

(* Mutant: the loop does not wait for the task. *)
DetachOnly(r) ==
    /\ loop = "detach" /\ r \in detach
    /\ sessions' = sessions \ {r}
    /\ detach' = detach \ {r}
    /\ tasks' = [tasks EXCEPT ![r] = SetStop(r)]
    /\ UNCHANGED <<reloadable, edits, stop, loop, runs, joined>>

(* Mutant: the session stays in the dictionary. *)
DetachKeeps(r) ==
    /\ loop = "detach" /\ r \in detach
    /\ detach' = detach \ {r}
    /\ tasks' = [tasks EXCEPT ![r] = SetStop(r)]
    /\ joined' = r
    /\ loop' = "join"
    /\ UNCHANGED <<reloadable, edits, stop, runs, sessions>>

Detach(r) ==
    /\ loop = "detach" /\ r \in detach
    /\ sessions' = sessions \ {r}
    /\ detach' = detach \ {r}
    /\ tasks' = [tasks EXCEPT ![r] = SetStop(r)]
    /\ joined' = r
    /\ loop' = "join"
    /\ UNCHANGED <<reloadable, edits, stop, runs>>

Ended(r) == tasks[r] # << >> /\ Last(tasks[r]).at = "ended"

(* "await task" *)
Join ==
    /\ loop = "join" /\ Ended(joined)
    /\ tasks' = [tasks EXCEPT ![joined] = Front(@)]
    /\ joined' = Absent
    /\ loop' = "detach"
    /\ UNCHANGED <<reloadable, edits, stop, runs, sessions, detach>>

(* A fixed port only for a single run from the command line. *)
PortOf == IF ~reloadable /\ Len(runs) = 1 THEN Port ELSE 0

NewTask == [at |-> "loop", stop |-> FALSE, port |-> PortOf]

Attach ==
    /\ loop = "detach" /\ detach = {}
    /\ tasks' = [r \in Runs |-> IF r \in ToSet(runs) \ sessions
                                THEN Append(tasks[r], NewTask) ELSE tasks[r]]
    /\ sessions' = sessions \cup ToSet(runs)
    /\ loop' = "wait"
    /\ UNCHANGED <<reloadable, edits, stop, runs, detach, joined>>

(* A second has passed, or stop was set. *)
Wait ==
    /\ loop = "wait"
    /\ loop' = "reload"
    /\ UNCHANGED <<reloadable, edits, stop, runs, sessions, tasks, detach, joined>>

(* The finally block: every session is told to stop, and waited for. *)
StopAll ==
    /\ loop = "reload" /\ stop
    /\ tasks' = [r \in Runs |-> IF r \in sessions THEN SetStop(r) ELSE tasks[r]]
    /\ loop' = "gather"
    /\ UNCHANGED <<reloadable, edits, stop, runs, sessions, detach, joined>>

Gather ==
    /\ loop = "gather" /\ \A r \in sessions : Ended(r)
    /\ loop' = "done"
    /\ UNCHANGED <<reloadable, edits, stop, runs, sessions, tasks, detach, joined>>

-----------------------------------------------------------------------------
(* supervise_publisher and serve_publisher, in task k of run r *)

Move(r, k, from, to) ==
    /\ k \in 1 .. Len(tasks[r]) /\ tasks[r][k].at = from
    /\ tasks' = [tasks EXCEPT ![r][k].at = to]
    /\ UNCHANGED <<reloadable, edits, stop, loop, runs, sessions, detach, joined>>

Stopping(r, k) == tasks[r][k].stop

(* The loop of supervise_publisher. *)
Supervise(r, k) ==
    \/ Move(r, k, "loop", "serving") /\ ~Stopping(r, k)
    \/ Move(r, k, "loop", "ended") /\ Stopping(r, k)

(* The end of a cycle, with stop set: the finally block comes next. *)
SessionStops(r, k) == Move(r, k, "serving", "leaving") /\ Stopping(r, k)

(* Registrations withdrawn, MiddleNode shut down, registry closed. *)
SessionLeft(r, k) == Move(r, k, "leaving", "loop")

(* Mutant: an exception of a session ends its task. *)
SessionRaisesForGood(r, k) ==
    \/ Move(r, k, "serving", "ended")
    \/ Move(r, k, "leaving", "ended")

(* An exception in the session, or in its finally block: the next session  *)
(* begins after five seconds, or never if stop is set meanwhile.           *)
SessionRaises(r, k) ==
    \/ Move(r, k, "serving", "failing")
    \/ Move(r, k, "leaving", "pause")

SessionFailed(r, k) == Move(r, k, "failing", "pause")
PauseEnds(r, k) == Move(r, k, "pause", "loop")

Task(r, k) ==
    \/ Supervise(r, k) \/ SessionStops(r, k) \/ SessionLeft(r, k)
    \/ SessionFailed(r, k) \/ PauseEnds(r, k)

Serve ==
    \/ Reload \/ Join \/ Attach \/ Wait \/ StopAll \/ Gather
    \/ \E r \in Runs : Detach(r)

ServeNext ==
    \/ Serve \/ Signal
    \/ \E s \in Snapshots : Edit(s)
    \/ \E r \in Runs : \E k \in 1 .. Len(tasks[r]) :
          Task(r, k) \/ SessionRaises(r, k)

ServeSpec == ServeInit /\ [][ServeNext]_serveVars

(* The event loop runs every task that can go on.  The awaits of a session *)
(* end: downloads, registry calls and shutdown have timeouts.              *)
ServeFairness ==
    /\ WF_serveVars(Serve)
    /\ \A r \in Runs : WF_serveVars(\E k \in 1 .. Len(tasks[r]) : Task(r, k))

FairServeSpec == ServeSpec /\ ServeFairness

-----------------------------------------------------------------------------
(* Properties *)

Places == {"loop", "serving", "leaving", "failing", "pause", "ended"}

(* The state has its type, and every key of the dictionary has a task. *)
ServeTypeOK ==
    /\ reloadable \in BOOLEAN /\ stop \in BOOLEAN
    /\ loop \in {"reload", "detach", "join", "wait", "gather", "done"}
    /\ \A i \in 1 .. Len(edits) : edits[i] \in Snapshots
    /\ Accepts(runs)
    /\ sessions \subseteq Runs /\ detach \subseteq sessions
    /\ joined \in Runs \cup {Absent}
    /\ tasks \in [Runs -> Seq([at : Places, stop : BOOLEAN, port : {0, Port}])]
    /\ \A r \in sessions \cup ({joined} \ {Absent}) : tasks[r] # << >>

Live(r) == {k \in 1 .. Len(tasks[r]) : tasks[r][k].at # "ended"}
Running == {r \in Runs : Live(r) # {}}
Ports(r) == {tasks[r][k].port : k \in Live(r)} \ {0}

(* Sessions do not get in one another's way: a run that is detached and    *)
(* attached again, however fast, has one session at a time ("Each origin   *)
(* has its own version numbering. Never combine stores"), no two share a   *)
(* fixed port, and there are never more than max_publishers of them.       *)
OneSessionPerRun ==
    /\ \A r \in Runs : Cardinality(Live(r)) <= 1
    /\ Cardinality(Running) <= MaxPublishers
    /\ \A r, q \in Runs : r # q => Ports(r) \cap Ports(q) = {}

(* A session is only ever told to stop because of a signal, or because a   *)
(* valid snapshot does not have its run ("Validate the whole file before   *)
(* removing any healthy subscriptions").                                   *)
DetachedOnPurpose ==
    \A r \in Runs : \A k \in 1 .. Len(tasks[r]) :
        tasks[r][k].stop =>
            \/ stop
            \/ \E i \in 1 .. Len(edits) : Accepts(edits[i]) /\ r \notin ToSet(edits[i])

(* What should run: nothing after a signal, else the runs of the file,     *)
(* unless it is not valid.                                                 *)
Wanted ==
    IF stop THEN {} ELSE IF Accepts(Last(edits)) THEN ToSet(Last(edits)) ELSE Absent

(* The sessions that run come to be the wanted ones and stay so, although  *)
(* serve waits for each detached session before it goes on, and sessions   *)
(* may fail again and again; after a signal all of them end.               *)
Follows ==
    \A S \in SUBSET Runs : <>[](Wanted = S) => <>[](Running = S)
=============================================================================
