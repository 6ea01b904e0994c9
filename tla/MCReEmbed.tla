------------------------------- MODULE MCReEmbed -------------------------------
(* Two memories, the first chunks of which exist, one entity; a page and a batch
   smaller than the backlog. *)
EXTENDS ReEmbed

MCTexts == {"", "a", "b"}
=============================================================================
