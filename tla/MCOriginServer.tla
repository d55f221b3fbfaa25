--------------------------- MODULE MCOriginServer ---------------------------
(* A small instance of OriginServer for TLC: an empty content, which has   *)
(* no shard, a one-shard and a two-shard content that fit in the store     *)
(* together with nothing else but one another, and one that exceeds it.    *)
EXTENDS OriginServer, TLC

CONSTANTS empty, small, large, huge

MCContents == {empty, small, large, huge}
MCSize == (empty :> 0) @@ (small :> 1) @@ (large :> 2) @@ (huge :> 4)

WithFiles == [modes |-> {"mirror", "legacy"}, errors |-> TRUE, crashes |-> TRUE]
InMemory == [modes |-> {"ram"}, errors |-> FALSE, crashes |-> FALSE]
Mixed == [modes |-> {"ram", "mirror"}, errors |-> FALSE, crashes |-> FALSE]

PassSetups == {WithFiles, InMemory}
MixedSetups == {Mixed}
=============================================================================
