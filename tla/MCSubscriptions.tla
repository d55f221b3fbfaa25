--------------------------- MODULE MCSubscriptions ---------------------------
(* A small instance of Subscriptions for TLC: three runs, two at a time. *)
EXTENDS Subscriptions

CONSTANTS a, b, c

(* Growing, shrinking and changing lists, and lists that are rejected:     *)
(* a run twice, one run too many, an entry that is no run id, no JSON.     *)
MCSnapshots ==
    {<< >>, <<a>>, <<a, b>>, <<b, c>>,
     <<a, a>>, <<a, b, c>>, <<c, Malformed>>, Absent}
=============================================================================
