----------------------------- MODULE MCParsonParse -----------------------------
(* An instance of ParsonParse for TLC: all texts of up to MaxTokens tokens. *)
EXTENDS ParsonParse
=============================================================================
