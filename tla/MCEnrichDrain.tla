---------------------------- MODULE MCEnrichDrain ----------------------------
(***************************************************************************)
(* Small instances of EnrichDrain: one namespace drained by two threads,   *)
(* or two namespaces, by two threads and by one, over the shared sidecar.  *)
(***************************************************************************)
EXTENDS EnrichDrain, TLC

CONSTANTS a, b, w1, w2, w3, n1, n2, f1, f2, f3

OneNs == {n1}
TwoNs == {n1, n2}
JA    == {a}
JAB   == {a, b}
NsOf1 == [j \in Jobs |-> n1]
NsOf2 == [j \in Jobs |-> IF j = a THEN n1 ELSE n2]
BeOp  == [j \in Jobs |-> "BodyEnrich"]
EdOp  == [j \in Jobs |-> "EntityDescriptions"]
OfA   == [w \in Workers |-> a]
OfAB  == [w \in Workers |-> IF w = w3 THEN b ELSE a]

Flags(resume, until, force, eager) ==
  [resume |-> resume, retry_failed |-> FALSE, until_empty |-> until,
   force_redescribe |-> force, ignore_backoff |-> eager, max_cost_usd |-> FALSE]

Fresh == Flags(FALSE, FALSE, FALSE, FALSE)
OptsAll   == {[Fresh EXCEPT !.max_cost_usd = TRUE], Flags(TRUE, FALSE, FALSE, FALSE), Flags(FALSE, TRUE, TRUE, FALSE)}
OptsFresh == {Fresh}
OptsEager == {Flags(FALSE, TRUE, FALSE, TRUE), Flags(TRUE, FALSE, FALSE, TRUE)}

\* Threads of one job and inodes are interchangeable in every safety property.
ThreadsAndFiles == Permutations({w1, w2}) \cup Permutations(Files)
==============================================================================
