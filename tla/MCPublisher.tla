----------------------------- MODULE MCPublisher -----------------------------
(* A small instance of Publisher for TLC. *)
EXTENDS Publisher

CONSTANTS p1, p2, c1, c2, d1, d2

Setup(active, callers, digests, retain, broadcasts) ==
    [active |-> active, callers |-> callers, digests |-> digests,
     retain |-> retain, broadcasts |-> broadcasts]

(* One publisher that changes its bundle and drops the first; two that     *)
(* compete for the run; and one whose publish is called twice at a time.   *)
MCSetups ==
    {Setup({p1}, {c1}, {d1, d2}, 1, 2),
     Setup({p1, p2}, {c1}, {d1}, 1, 1),
     Setup({p1}, {c1, c2}, {d1, d2}, 2, 2)}
=============================================================================
