---------------------------- MODULE RunRegistry ----------------------------
(***************************************************************************)
(* What the publishers of one run promise to those who follow the run      *)
(* through the registry (relay sessions, clients): an abstract             *)
(* specification of litecast/registry/distribution.py, which Publisher is  *)
(* shown to implement.                                                     *)
(*                                                                         *)
(* There are no tasks, locks or retries here.  A follower sees the run's   *)
(* descriptor, which one owner at a time holds, and registrations of       *)
(* versions in the owners' origins.                                        *)
(***************************************************************************)
EXTENDS Integers, Sequences

CONSTANTS
    Owners,     \* Publisher objects of the run
    Steps,      \* training steps
    Digests,    \* digests of adapter bundles
    None

VARIABLES
    lease,      \* the descriptor: its owner and the publications it lists
    records,    \* registrations of origins
    origin,     \* origin[o][v]: the bundle that o broadcast as version v
    pubs        \* the last publications of each owner, the newest last

vars == <<lease, records, origin, pubs>>

Init ==
    /\ lease = None
    /\ records = {}
    /\ origin = [o \in Owners |-> << >>]
    /\ pubs = [o \in Owners |-> << >>]

Broadcast(o, d) ==
    /\ origin' = [origin EXCEPT ![o] = Append(@, d)]
    /\ UNCHANGED <<lease, records, pubs>>

(* A registration says what its owner broadcast under the version. *)
Announce(o, v) ==
    /\ v \in 1 .. Len(origin[o])
    /\ records' = records \cup
                    {[owner |-> o, digest |-> origin[o][v], version |-> v]}
    /\ UNCHANGED <<lease, origin, pubs>>

(* A broadcast bundle becomes the newest publication; the oldest ones may  *)
(* go, and so may an earlier registration of the bundle.  Steps need not   *)
(* increase: publish checks that they do before it broadcasts, and calls   *)
(* of two tasks may both have passed the check.                            *)
Publish(o, k, v) ==
    LET all == Append(pubs[o], [step |-> k, digest |-> origin[o][v]])
        n == Len(all)
    IN /\ v \in 1 .. Len(origin[o])
       /\ \E i \in 1 .. n : pubs' = [pubs EXCEPT ![o] = SubSeq(all, i, n)]
       /\ records' \in {records} \cup
             {records \ {[owner |-> o, digest |-> origin[o][v], version |-> w]} :
                 w \in 1 .. Len(origin[o])}
       /\ UNCHANGED <<lease, origin>>

(* Claim or renew: what is written is the owner's list as it is then. *)
Renew(o) ==
    /\ lease # None => lease.owner = o
    /\ lease' = [owner |-> o, pubs |-> pubs[o]]
    /\ UNCHANGED <<records, origin, pubs>>

Lapse ==
    /\ lease' = None
    /\ UNCHANGED <<records, origin, pubs>>

(* Registrations are withdrawn, or run out. *)
Withdraw ==
    /\ records' \in SUBSET records
    /\ UNCHANGED <<lease, origin, pubs>>

Next ==
    \/ Lapse \/ Withdraw
    \/ \E o \in Owners :
          \/ Renew(o)
          \/ \E d \in Digests : Broadcast(o, d)
          \/ \E v \in 1 .. Len(origin[o]) :
                Announce(o, v) \/ \E k \in Steps : Publish(o, k, v)

Spec == Init /\ [][Next]_vars
=============================================================================
