------------------------------- MODULE MCIngest -------------------------------
EXTENDS Ingest

\* "a-1" is both the second name of a and a base name, "a-p1" also the first part of a.
MCNames    == {"a", "a-1", "a-p1", "a-p2"}
MCSuffixed == [n \in MCNames |-> IF n = "a" THEN <<"a-1">> ELSE << >>]
MCPartName == [n \in MCNames |-> IF n = "a" THEN <<"a-p1", "a-p2">> ELSE << >>]
F(b, ps)   == [base |-> b, parts |-> ps]
MCInputs   == {<<F("a", <<"x">>), F("a", <<"y">>), F("a", <<"x">>)>>,
               <<F("a", <<"x", "y">>), F("a-p1", <<"y">>), F(NoName, <<"x">>)>>,
               <<F("a-1", <<"x">>), F("a", << >>), F("a", <<"x">>)>>}
MCStored   == {[n \in MCNames |-> NoMem],
               [n \in MCNames |-> IF n = "a" THEN [body |-> "y", live |-> TRUE, fresh |-> FALSE]
                                  ELSE IF n \in {"a-1", "a-p2"} THEN [body |-> "y", live |-> FALSE, fresh |-> FALSE]
                                  ELSE NoMem]}
=============================================================================
