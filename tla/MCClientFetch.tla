--------------------------- MODULE MCClientFetch ---------------------------
(* A small instance of ClientFetch for TLC: a group of two servers and one *)
(* of a single server.  Another content has the second shard of the wanted *)
(* one and a first one of the same length; a third one has the first shard *)
(* and a second one that is larger.                                        *)
EXTENDS ClientFetch, TLC

CONSTANTS s1, s2, s3, wanted, other, larger, w1, w2, o1, l2

ThreeServers == {s1, s2, s3}
TwoGroups == <<{s1, s2}, {s3}>>

ThreeContents == {wanted, other, larger}
MCPayload == (wanted :> <<w1, w2>>) @@ (other :> <<o1, w2>>) @@ (larger :> <<w1, l2>>)
MCLength == (w1 :> 1) @@ (w2 :> 1) @@ (o1 :> 1) @@ (l2 :> 2)

Holding(content, manifest, have) ==
    [content |-> content, manifest |-> manifest, have |-> have]

MCHoldings ==
    {Holding(None, "none", {}),
     Holding(wanted, "merkle", {1, 2}),
     Holding(wanted, "none", {1, 2}),
     Holding(wanted, "legacy", {2}),
     Holding(other, "legacy", {1, 2}),
     Holding(larger, "merkle", {1, 2})}

(* The server of the second group has nothing at first, or all.            *)
MCStarts ==
    {h \in [ThreeServers -> MCHoldings] :
        h[s3] \in {Holding(None, "none", {}), Holding(wanted, "merkle", {1, 2})}}
=============================================================================
