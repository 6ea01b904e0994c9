----------------------------- MODULE MCLlmSlots -----------------------------
(***************************************************************************)
(* Three processes over one slot: enough for a sweeper, the process whose  *)
(* slot it judges, and one that takes the slot in between.                 *)
(***************************************************************************)
EXTENDS LlmSlots
=============================================================================
