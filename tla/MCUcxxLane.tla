----------------------------- MODULE MCUcxxLane -----------------------------
(* Small instances of UcxxLane for TLC: a worker with a batch of two       *)
(* shards shares the lane with one that has a single shard; or one with a  *)
(* single shard shares it with a thread that waits for two versions.       *)
EXTENDS UcxxLane, TLC

CONSTANTS t1, t2

TwoThreads == {t1, t2}
MCSetups ==
    {[want |-> (t1 :> {1, 2}) @@ (t2 :> {3}), waits |-> {}],
     [want |-> (t1 :> {1}) @@ (t2 :> {8, 9}), waits |-> {t2}]}
=============================================================================
