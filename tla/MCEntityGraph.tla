----------------------------- MODULE MCEntityGraph -----------------------------
(* Two names and a legacy spelling of the first; two relations. *)
EXTENDS EntityGraph, TLC

CONSTANTS n1, n2, old1, r1, r2, m1, p1, p2

MCENames == {n1, n2, old1}
MCNorm   == n1 :> n1 @@ n2 :> n2 @@ old1 :> n1
MCLegacy == {old1}
MCRels   == {r1, r2}
MCMems   == {m1}
MCProcs  == {p1, p2}
Symm     == Permutations(MCProcs) \cup Permutations(MCRels)
=============================================================================
