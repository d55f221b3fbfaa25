--------------------------- MODULE MCRelaySession ---------------------------
(* Small instances of RelaySession for TLC: two publishers of one run. *)
EXTENDS RelaySession, TLC

CONSTANTS a, b, x, y

TwoOwners == {a, b}
TwoDigests == {x, y}

OnePort == (a :> 1) @@ (b :> 1)
TwoPorts == (a :> 1) @@ (b :> 2)

OtherBundles == (a :> {x}) @@ (b :> {y})
ResumedBundles == (a :> {y}) @@ (b :> {x, y})

World(address, bundles, retain, errors) ==
    [address |-> address, bundles |-> bundles, retain |-> retain, errors |-> errors]

(* Publishers that follow one another at one address, with other bundles   *)
(* or resuming from the bundle of the first; and publishers at addresses   *)
(* of their own, the first of which may still run when it is replaced.     *)
MCWorlds ==
    {World(OnePort, OtherBundles, 1, TRUE),
     World(OnePort, ResumedBundles, 2, FALSE),
     World(TwoPorts, OtherBundles, 1, FALSE)}
=============================================================================
