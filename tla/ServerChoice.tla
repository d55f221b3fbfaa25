---------------------------- MODULE ServerChoice ----------------------------
(***************************************************************************)
(* litecast/client.py, class ShardDownloader: the servers a request goes   *)
(* to are drawn at random, weighted by success rate and bandwidth, which   *)
(* every attempt updates.                                                  *)
(*                                                                         *)
(* The weights are floating-point numbers that decay.  Near zero a double  *)
(* is an integer multiple of the least positive one, and every operation   *)
(* rounds to the nearest multiple: bandwidths are counted in these units.  *)
(* One, the initial bandwidth of 1.0, is 2^1074 units; a smaller number    *)
(* only shortens the decay.  Success rates are in hundredths.              *)
(***************************************************************************)
EXTENDS Integers

CONSTANTS
    Servers,
    Calls,      \* operations in use, of "bytes", "size", "file", "from"
    One,        \* units in a bandwidth of 1.0
    Measured,   \* units in the bandwidth of a successful transfer
    Timeout     \* units in self.timeout, which _download_file records

VARIABLES
    up,         \* the servers that answer
    bandwidth,  \* server_metrics[s].bandwidth_mbps
    success,    \* server_metrics[s].success_rate
    last        \* the outcome of the last attempt

vars == <<up, bandwidth, success, last>>

Init ==
    /\ up \in SUBSET Servers
    /\ bandwidth = [s \in Servers |-> One]
    /\ success = [s \in Servers |-> 100]
    /\ last = "none"

(* n / d rounded to the nearest integer, a half to the even one. *)
Round(n, d) ==
    LET q == n \div d
        r == n % d
    IN IF 2 * r > d \/ (2 * r = d /\ q % 2 = 1) THEN q + 1 ELSE q

Capped(n) == IF n > 100 THEN 100 ELSE n

(* _update_server_metrics: a moving average with alpha = 0.3 for the       *)
(* server, and a hundredth of success for every server.                    *)
Update(s, mbps, ok) ==
    /\ bandwidth' = [bandwidth EXCEPT ![s] = Round(3 * mbps + 7 * @, 10)]
    /\ success' = [q \in Servers |->
                     Capped(1 + IF q # s THEN success[q]
                                ELSE Round((IF ok THEN 300 ELSE 0) + 7 * success[q], 10))]

Weight(s) == Round(success[s] * bandwidth[s], 100)

(* random.choices raises if no weight is positive. *)
Sampled == {s \in Servers : Weight(s) > 0}

Answers(s) == s \in up /\ last' = "ok"
IsDown(s) == s \notin up /\ last' = "failed"

(* One attempt of download_bytes or download_into. *)
Attempt(s) ==
    /\ "bytes" \in Calls /\ s \in Sampled
    /\ \/ Answers(s) /\ Update(s, Measured, TRUE)
       \/ IsDown(s) /\ Update(s, 0, FALSE)
    /\ UNCHANGED up

(* get_size: a HEAD request, which counts only if it fails. *)
SizeAttempt(s) ==
    /\ "size" \in Calls /\ s \in Sampled
    /\ \/ Answers(s) /\ UNCHANGED <<bandwidth, success>>
       \/ IsDown(s) /\ Update(s, 0, FALSE)
    /\ UNCHANGED up

(* download_file: a failure counts with the timeout as its bandwidth. *)
FileAttempt(s) ==
    /\ "file" \in Calls /\ s \in Sampled
    /\ \/ Answers(s) /\ Update(s, Measured, TRUE)
       \/ IsDown(s) /\ Update(s, Timeout, FALSE)
    /\ UNCHANGED up

(* download_bytes_from, download_into_from: the caller names the server. *)
From(s) ==
    /\ "from" \in Calls
    /\ last' = IF s \in up THEN "ok" ELSE "failed"
    /\ Update(s, IF s \in up THEN Measured ELSE 0, s \in up)
    /\ UNCHANGED up

(* The exception leaves the metrics as they are. *)
Raises ==
    /\ Calls \ {"from"} # {} /\ Sampled = {}
    /\ last' = "raised"
    /\ UNCHANGED <<up, bandwidth, success>>

(* Servers go down and come back. *)
Toggle(s) ==
    /\ up' = IF s \in up THEN up \ {s} ELSE up \cup {s}
    /\ UNCHANGED <<bandwidth, success, last>>

(* The requests of all downloads; what a retry loop does between two of    *)
(* them leaves the metrics alone.  A server that is up sends what is       *)
(* acceptable: a response that a client rejects counts as a failure.       *)
Download ==
    \/ Raises
    \/ \E s \in Servers :
          Attempt(s) \/ SizeAttempt(s) \/ FileAttempt(s) \/ From(s)

Next == Download \/ \E s \in Servers : Toggle(s)

Spec == Init /\ [][Next]_vars

(* A relay polls again and again. *)
FairSpec == Spec /\ WF_vars(Download)

-----------------------------------------------------------------------------
(* Properties *)

(* Servers that come back are used again, however long they were away:     *)
(* _update_server_metrics is to "revive others slowly in case they come    *)
(* back online".                                                           *)
Revived == <>[](up = Servers) => []<>(last = "ok")
=============================================================================
