-------------------------- MODULE MCCheckpointStore --------------------------
(* A small instance of CheckpointStore for TLC. *)
EXTENDS CheckpointStore, TLC

CONSTANTS a, b, c, x, y

MCNames == {a, b, c}
MCContents == {x, y}
MCSize == (x :> 2) @@ (y :> 5)

Symmetry == Permutations(MCNames)
=============================================================================
