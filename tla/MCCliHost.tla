----------------------------- MODULE MCCliHost -----------------------------
(* Instances of CliHost for TLC. *)
EXTENDS CliHost, TLC

CONSTANTS p1, p2, k1, k2, v1

MCProcs == {p1, p2}
MCKeys  == {k1, k2}
MCVals  == {v1}
MCCmds  == {"init", "migrate", "rehash", "llmonly", "enrich", "write", "backup", "sync", "config"}
MCSym   == Permutations(MCProcs)
=============================================================================
