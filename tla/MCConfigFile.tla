----------------------------- MODULE MCConfigFile -----------------------------
(* An instance of ConfigFile for TLC: files around the edges of a buffer. *)
EXTENDS ConfigFile

(* An error that takes the length below zero for the first two blocks, and *)
(* leaves it in the block, at a wrong place, for a third.                  *)
Failure == {-3}
=============================================================================
