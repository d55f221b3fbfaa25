------------------------------ MODULE UcxxLane ------------------------------
(***************************************************************************)
(* litecast/transport/ucxx.py: the persistent endpoint of one UCXXTransport*)
(* (a lane), used by threads of a download through an event loop, and the  *)
(* UCXXServer handler at its other end.                                    *)
(*                                                                         *)
(* An endpoint is a pair of FIFO channels without message identities: the  *)
(* only thing that ties an answer to a request is what the answer repeats. *)
(* A timeout inside an exchange discards the endpoint.  A timeout of the   *)
(* executor cancels the coroutine, which releases the lock and keeps the   *)
(* endpoint: the answer to the cancelled request is still to come.         *)
(*                                                                         *)
(* A shard stands for a version and an index, and for its bytes.  Workers  *)
(* retry until they have their shards: the deadline is left out.  Other    *)
(* threads wait on the same lane until the server announces versions.      *)
(***************************************************************************)
EXTENDS Integers, Sequences, FiniteSets, SequencesExt, FiniteSetsExt

CONSTANTS
    Threads,        \* threads of the client that share the lane
    Setups,         \* what they want; those in waits want announcements of
                    \* versions, the others, workers of
                    \* _download_streaming, the shards of a batch
    MaxTimeouts,    \* bound on the timeouts, of exchanges and callers
    MaxChanges,     \* bound on the changes of the server's store
    None

ASSUME SetupsAssumption ==
    \A u \in Setups : /\ u.waits \subseteq Threads
                      /\ u.want \in [Threads -> SUBSET (Nat \ {0})]
                      /\ \A t \in Threads : IsFiniteSet(u.want[t])
ASSUME BoundsAssumption == MaxTimeouts \in Nat /\ MaxChanges \in Nat

(* What travels on an endpoint: requests up, control frames and the bytes  *)
(* of shards down.                                                         *)
Requests == [kind : {"shard", "shards", "version"}, of : Seq(Nat), got : SUBSET Nat]
Messages ==
    [kind : {"error", "version", "shard"}, of : Seq(Nat)]
        \cup [kind : {"shards"}, of : Seq(Nat), missing : Seq(Nat)]
        \cup [kind : {"bytes"}, shard : Nat]
Endpoints == [up : Seq(Requests), down : Seq(Messages), open : BOOLEAN]

ASSUME NoneAssumption == None \notin Threads /\ None \notin Endpoints

VARIABLES
    setup,      \* never changes
    notified,   \* _available_versions of the server
    have,       \* shards in the server's store
    conn,       \* the endpoint: requests, answers, and whether it is open
    lock,       \* the coroutine in _persistent_lock
    pc,         \* where the coroutine of each thread is
    req,        \* its request
    due,        \* the shards whose bytes it still has to receive, in order
    caller,     \* a thread: "ready" to call, "waiting" for its coroutine,
                \* has "left" it, has "gone" on by HTTP meanwhile, or turns
                \* to "http" after it
    left,       \* the shards a thread still has to get
    single,     \* the thread fetches its shards one by one
    buf,        \* the buffer the shards are received into
    timeouts, changes

server == <<setup, notified, have, changes>>
thread == <<caller, left, single>>
vars == <<server, conn, lock, pc, req, due, thread, buf, timeouts>>

Waits(t) == t \in setup.waits
Shards == UNION {setup.want[t] : t \in Threads \ setup.waits}
Versions == UNION {setup.want[t] : t \in setup.waits}
Fresh == [up |-> << >>, down |-> << >>, open |-> TRUE]

Init ==
    /\ setup \in Setups
    /\ notified = {}
    /\ have \in SUBSET Shards
    /\ conn \in {None, Fresh}      \* Fresh: after warm
    /\ lock = None
    /\ pc = [t \in Threads |-> "none"]
    /\ req = [t \in Threads |-> None]
    /\ due = [t \in Threads |-> << >>]
    /\ caller = [t \in Threads |-> "ready"]
    /\ left = setup.want
    /\ single = [t \in Threads |-> FALSE]
    /\ buf = [i \in Shards |-> 0]
    /\ timeouts = 0
    /\ changes = 0

-----------------------------------------------------------------------------
(* The server *)

(* Shards enter and leave the store under the handler's feet. *)
Change(S) ==
    /\ changes < MaxChanges
    /\ have' = S
    /\ changes' = changes + 1
    /\ UNCHANGED <<setup, notified, conn, lock, pc, req, due, thread, buf, timeouts>>

(* notify_version_available *)
Notify(v) ==
    /\ notified' = notified \cup {v}
    /\ UNCHANGED <<setup, have, changes, conn, lock, pc, req, due, thread, buf,
                   timeouts>>

Error == [kind |-> "error", of |-> << >>]

Bulk(q) == [i \in DOMAIN q |-> [kind |-> "bytes", shard |-> q[i]]]

(* The messages that answer request r: a control frame, then the bytes of  *)
(* every shard it announces, in the same order.                            *)
Reply(r) ==
    IF r.kind = "version"
    THEN <<[kind |-> "version", of |-> r.of]>>
    ELSE IF r.kind = "shard"
    THEN IF r.of[1] \in have
         THEN <<[kind |-> "shard", of |-> r.of]>> \o Bulk(r.of)
         ELSE <<Error>>
    ELSE LET found == SetToSeq(ToSet(r.of) \cap have)
             missing == SetToSeq(ToSet(r.of) \ have)
         IN <<[kind |-> "shards", of |-> found, missing |-> missing]>>
               \o Bulk(found)

(* A request to wait for a version keeps its handler until then. *)
Answerable(r) == r.kind = "version" => r.of[1] \in notified

(* _handle_endpoint serves the requests of an endpoint one after another. *)
ServeRequest ==
    /\ conn # None
    /\ conn.open /\ conn.up # << >> /\ Answerable(Head(conn.up))
    /\ conn' = [conn EXCEPT !.up = Tail(@), !.down = @ \o Reply(Head(conn.up))]
    /\ UNCHANGED <<server, lock, pc, req, due, thread, buf, timeouts>>

(* operation_timeout has passed and the version is still not there. *)
WaitExpires ==
    /\ conn # None
    /\ conn.open /\ conn.up # << >> /\ ~Answerable(Head(conn.up))
    /\ conn' = [conn EXCEPT !.up = Tail(@), !.down = Append(@, Error)]
    /\ UNCHANGED <<server, lock, pc, req, due, thread, buf, timeouts>>

(* The handler closes an endpoint that is idle or does not take its bytes. *)
ServerCloses ==
    /\ conn # None
    /\ conn.open /\ timeouts < MaxTimeouts
    /\ timeouts' = timeouts + 1
    /\ conn' = [conn EXCEPT !.open = FALSE]
    /\ UNCHANGED <<server, lock, pc, req, due, thread, buf>>

-----------------------------------------------------------------------------
(* The end of a coroutine, and what its thread makes of it *)

Stops(t) ==
    /\ pc' = [pc EXCEPT ![t] = "none"]
    /\ req' = [req EXCEPT ![t] = None]
    /\ due' = [due EXCEPT ![t] = << >>]

(* Mutant: the lock is not released. *)
EndsLocked(t) == Stops(t) /\ UNCHANGED lock

Ends(t) == Stops(t) /\ lock' = IF lock = t THEN None ELSE lock

(* Mutant: the endpoint stays in use after an error. *)
KeepEndpoint == UNCHANGED conn

(* _discard_persistent_endpoint *)
Discard == conn' = None

(* The coroutine raises, or has no one left to return to: receive_batch    *)
(* goes on shard by shard, and receive tries the shard by HTTP if it has   *)
(* not done so.                                                            *)
Raises(t) ==
    /\ Ends(t)
    /\ caller' = [caller EXCEPT ![t] =
                    IF req[t].kind = "shard" /\ @ # "gone" THEN "http" ELSE "ready"]
    /\ single' = [single EXCEPT ![t] = TRUE]
    /\ UNCHANGED left

Returns(t) ==
    /\ Ends(t)
    /\ caller' = [caller EXCEPT ![t] = "ready"]
    /\ single' = [single EXCEPT ![t] = TRUE]
    /\ left' = [left EXCEPT ![t] =
                  @ \ IF Waits(t) THEN ToSet(req[t].of) ELSE req[t].got]

-----------------------------------------------------------------------------
(* The client *)

(* receive_batch asks for all the shards, receive for the next one;        *)
(* wait_for_version asks for a version.                                    *)
Call(t) ==
    /\ caller[t] = "ready" /\ left[t] # {}
    /\ caller' = [caller EXCEPT ![t] = "waiting"]
    /\ pc' = [pc EXCEPT ![t] = "lock"]
    /\ req' = [req EXCEPT ![t] =
                 IF single[t] \/ Waits(t)
                 THEN [kind |-> IF Waits(t) THEN "version" ELSE "shard",
                       of |-> <<Min(left[t])>>, got |-> {}]
                 ELSE [kind |-> "shards", of |-> SetToSeq(left[t]),
                       got |-> {}]]
    /\ UNCHANGED <<server, conn, lock, due, left, single, buf, timeouts>>

(* receive, after UCXX has failed: one attempt at HTTP, at one owner after *)
(* the other.  The cancelled coroutine may still be there.                 *)
Fallback(t) ==
    /\ \/ caller[t] = "http" /\ caller' = [caller EXCEPT ![t] = "ready"]
       \/ /\ caller[t] = "left" /\ req[t].kind = "shard"
          /\ caller' = [caller EXCEPT ![t] = "gone"]
    /\ \/ UNCHANGED <<left, buf>>
       \/ /\ left' = [left EXCEPT ![t] = @ \ {Min(left[t])}]
          /\ buf' = [buf EXCEPT ![Min(left[t])] = Min(left[t])]
    /\ UNCHANGED <<server, conn, lock, pc, req, due, single, timeouts>>

(* Under the lock: connect if there is no endpoint, and send the request. *)
Send(t) ==
    /\ pc[t] = "lock" /\ lock = None
    /\ LET c == IF conn = None THEN Fresh ELSE conn
       IN IF c.open
          THEN /\ conn' = [c EXCEPT !.up = Append(@, req[t])]
               /\ lock' = t
               /\ pc' = [pc EXCEPT ![t] = "answer"]
               /\ UNCHANGED <<req, due, thread>>
          ELSE Discard /\ Raises(t)
    /\ UNCHANGED <<server, buf, timeouts>>

(* Mutant: metadata is not compared with the request. *)
MatchesAnything(r, m) == m.kind = r.kind

(* The checks on the control frame: it repeats the version or the index,   *)
(* or accounts for exactly the indexes that were asked for.                *)
Matches(r, m) ==
    /\ m.kind = r.kind
    /\ IF r.kind # "shards" THEN m.of = r.of
       ELSE ToSet(m.of) \cup ToSet(m.missing) = ToSet(r.of)

(* The next message is taken for the answer.  An error says nothing about  *)
(* what it answers, and keeps the endpoint.                                *)
Answer(t) ==
    /\ pc[t] = "answer" /\ conn.down # << >>
    /\ LET m == Head(conn.down)
       IN IF m.kind = "error"
          THEN conn' = [conn EXCEPT !.down = Tail(@)] /\ Raises(t)
          ELSE IF ~Matches(req[t], m)
          THEN Discard /\ Raises(t)
          ELSE /\ conn' = [conn EXCEPT !.down = Tail(@)]
               /\ due' = [due EXCEPT ![t] = IF Waits(t) THEN << >> ELSE m.of]
               /\ pc' = [pc EXCEPT ![t] = "bulk"]
               /\ UNCHANGED <<lock, req, thread>>
    /\ UNCHANGED <<server, buf, timeouts>>

(* The shard whose buffer the next bytes are received into. *)
Target(t) == IF req[t].kind = "shard" THEN req[t].of[1] ELSE Head(due[t])

(* The bytes are written into their final place and verified there against *)
(* the answer's digest and the manifest's.                                 *)
Receive(t) ==
    /\ pc[t] = "bulk" /\ due[t] # << >> /\ conn.down # << >>
    /\ LET m == Head(conn.down)
           i == Target(t)
           fits == m.kind = "bytes" /\ m.shard = Head(due[t]) /\ m.shard = i
       IN /\ buf' = [buf EXCEPT ![i] = IF m.kind = "bytes" THEN m.shard ELSE 0]
          /\ IF fits
             THEN /\ conn' = [conn EXCEPT !.down = Tail(@)]
                  /\ due' = [due EXCEPT ![t] = Tail(@)]
                  /\ req' = [req EXCEPT ![t].got = @ \cup {i}]
                  /\ UNCHANGED <<lock, pc, thread>>
             ELSE Discard /\ Raises(t)
    /\ UNCHANGED <<server, timeouts>>

Complete(t) ==
    /\ pc[t] = "bulk" /\ due[t] = << >>
    /\ IF caller[t] = "waiting" THEN Returns(t) ELSE Raises(t)
    /\ UNCHANGED <<server, conn, buf, timeouts>>

(* asyncio.wait_for gives up, or the endpoint was closed by the server. *)
ExchangeFails(t) ==
    /\ pc[t] \in {"answer", "bulk"}
    /\ IF conn.open
       THEN timeouts < MaxTimeouts /\ timeouts' = timeouts + 1
       ELSE UNCHANGED timeouts
    /\ Discard /\ Raises(t)
    /\ UNCHANGED <<server, buf>>

(* The executor's result timeout: the thread leaves, the coroutine is to   *)
(* be cancelled by its loop.                                               *)
CallerLeaves(t) ==
    /\ caller[t] = "waiting" /\ timeouts < MaxTimeouts
    /\ timeouts' = timeouts + 1
    /\ caller' = [caller EXCEPT ![t] = "left"]
    /\ UNCHANGED <<server, conn, lock, pc, req, due, left, single, buf>>

(* CancelledError is not an Exception: no handler discards the endpoint. *)
Cancelled(t) ==
    /\ caller[t] \in {"left", "gone"}
    /\ Raises(t)
    /\ UNCHANGED <<server, conn, buf, timeouts>>

Coroutine(t) ==
    \/ Send(t) \/ Answer(t) \/ Receive(t) \/ Complete(t) \/ ExchangeFails(t)
    \/ Cancelled(t)

Next ==
    \/ \E S \in SUBSET Shards : Change(S)
    \/ \E v \in Versions : Notify(v)
    \/ ServeRequest \/ WaitExpires \/ ServerCloses
    \/ \E t \in Threads : \/ Call(t) \/ Fallback(t) \/ CallerLeaves(t)
                          \/ Coroutine(t)

Spec == Init /\ [][Next]_vars

(* Threads, event loop and handler go on, and the handler does not wait    *)
(* for a version for ever.  The lock is an asyncio.Lock, which is fair to  *)
(* the coroutines that wait for it.                                        *)
Fairness ==
    /\ WF_vars(ServeRequest \/ WaitExpires)
    /\ \A t \in Threads :
          /\ WF_vars(Call(t)) /\ WF_vars(Fallback(t))
          /\ WF_vars(Coroutine(t)) /\ SF_vars(Send(t))

FairSpec == Spec /\ Fairness

-----------------------------------------------------------------------------
(* Properties *)

(* The state has its type; a coroutine past the lock holds it, alone, with *)
(* an endpoint, and a thread has one while it waits for it, and no longer. *)
TypeOK ==
    /\ setup \in Setups
    /\ notified \subseteq Versions
    /\ have \subseteq Shards
    /\ conn \in Endpoints \cup {None}
    /\ lock \in Threads \cup {None}
    /\ pc \in [Threads -> {"none", "lock", "answer", "bulk"}]
    /\ req \in [Threads -> Requests \cup {None}]
    /\ due \in [Threads -> Seq(Shards)]
    /\ caller \in [Threads -> {"ready", "waiting", "left", "gone", "http"}]
    /\ left \in [Threads -> SUBSET (Shards \cup Versions)]
    /\ single \in [Threads -> BOOLEAN]
    /\ buf \in [Shards -> Shards \cup {0}]
    /\ timeouts \in 0 .. MaxTimeouts
    /\ changes \in 0 .. MaxChanges
    /\ \A t \in Threads :
          /\ left[t] \subseteq setup.want[t]
          /\ pc[t] # "none" <=> caller[t] \in {"waiting", "left", "gone"}
          /\ pc[t] # "none" => req[t] \in Requests
          /\ pc[t] \in {"answer", "bulk"} <=> lock = t
    /\ lock # None => conn # None

(* A shard that a worker has, by UCXX or HTTP, is and stays in its buffer, *)
(* and a version that a thread has waited for was announced: no answer to  *)
(* a cancelled request, or on an endpoint that is out of step, is taken    *)
(* for the answer to another, or overwrites a shard later.                 *)
Intact ==
    \A t \in Threads : \A i \in setup.want[t] \ left[t] :
        IF Waits(t) THEN i \in notified ELSE buf[i] = i

Served(T) == \A t \in T : left[t] = {}

(* However many exchanges were cancelled or broke off, the lane comes back *)
(* into step: workers get their shards once the server keeps them, even if *)
(* HTTP never works and another thread waits on the lane for a version     *)
(* that is never announced; and it waits no longer than that.              *)
LaneRecovers ==
    /\ <>[](have = Shards) => <>Served(Threads \ setup.waits)
    /\ <>[](have = Shards /\ notified = Versions) => <>Served(Threads)
=============================================================================
