----------------------------- MODULE MCMemoryStore -----------------------------
(* Three names of which two are the children of the first; a body that splits. *)
EXTENDS MemoryStore, TLC

CONSTANTS n1, n2, n3, b1, b2, p1, p2, nobody

MCNames  == {n1, n2, n3}
MCBodies == {b1, b2}
MCChild  == n1 :> <<n2, n3>>
MCParts  == b2 :> <<b1, b1>>
MCTargets == {n1, n2}
MCProcs  == {p1, p2}
Symm     == Permutations(MCProcs)
=============================================================================
