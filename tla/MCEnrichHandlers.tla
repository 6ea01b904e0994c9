-------------------------- MODULE MCEnrichHandlers --------------------------
EXTENDS EnrichHandlers

\* A list with the default type and one without it.
MCVocabularies == {{"concept", "tool"}, {"odd", "tool"}}
MCSimilar == [v \in MCVocabularies |-> [l \in Labels |-> IF l = "gadget" THEN "tool" ELSE "none"]]
MCFirst   == [v \in MCVocabularies |-> IF "concept" \in v THEN "concept" ELSE "odd"]
E(ty)     == [type |-> ty, desc |-> "filler", noted |-> FALSE, degree |-> 0]
\* A typed entity nothing is known about, alone and after one the memory is bound to.
MCInitEntities == {<<E("tool"), NoEnt>>, <<E("concept"), E("tool")>>}
=============================================================================
