---------------------------- MODULE MCMiddleNode ----------------------------
(* Small instances of MiddleNode for TLC. *)
EXTENDS MiddleNode, TLC

CONSTANTS m1, m2, m3, large, huge

LargeAndHuge == {large, huge}
OneContent == {large}
SizeOfLargeAndHuge == (large :> 3) @@ (huge :> 4)
SizeOfLarge == (large :> 2)

Setup(streaming, mirror, unreliable, errors, crashes) ==
    [streaming |-> streaming, mirror |-> mirror, unreliable |-> unreliable,
     errors |-> errors, crashes |-> crashes]

(* Whole versions in memory; whole versions on disk, with failing files    *)
(* or with failing transfers, and crashes; and streamed versions on disk   *)
(* with failing files and crashes.                                         *)
Memory == Setup(FALSE, FALSE, TRUE, FALSE, FALSE)
FailingFiles == Setup(FALSE, TRUE, FALSE, TRUE, TRUE)
FailingTransfers == Setup(FALSE, TRUE, TRUE, FALSE, TRUE)
Streamed == Setup(TRUE, TRUE, FALSE, TRUE, TRUE)
RelaySetups == {Memory, FailingFiles, FailingTransfers, Streamed}

(* Streamed versions in memory, without faults. *)
ClusterSetups == {Setup(TRUE, FALSE, FALSE, FALSE, FALSE)}

(* Streamed versions on disk, with manifests that cannot be fetched. *)
LeakSetups == {Setup(TRUE, TRUE, TRUE, TRUE, FALSE)}

OneMiddle == {m1}
OneDomain == (m1 :> m1)
RankingOfOne == [v \in Names |-> [i \in 0 .. 3 |-> <<m1>>]]

(* Of three relays two have a failure domain in common, so that each shard *)
(* has one of these and the third relay as its owners; the primary owner   *)
(* goes round.                                                             *)
ThreeMiddles == {m1, m2, m3}
TwoDomains == (m1 :> m1) @@ (m2 :> m1) @@ (m3 :> m3)
RankingOfThree == [v \in Names |-> [i \in 0 .. 3 |->
    CASE (v + i) % 3 = 0 -> <<m3, m1, m2>>
      [] (v + i) % 3 = 1 -> <<m1, m2, m3>>
      [] (v + i) % 3 = 2 -> <<m2, m3, m1>>]]
=============================================================================
