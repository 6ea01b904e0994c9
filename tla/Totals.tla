-------------------------------- MODULE Totals --------------------------------
(***************************************************************************)
(* The sum of a sequence of numbers: of the lengths that the members of a  *)
(* JSON answer take, or of the bytes and tokens of a text.                 *)
(***************************************************************************)
EXTENDS Naturals, Sequences

Total(ns) == LET t[i \in 0..Len(ns)] == IF i = 0 THEN 0 ELSE t[i - 1] + ns[i] IN t[Len(ns)]
==============================================================================
