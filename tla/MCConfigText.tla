----------------------------- MODULE MCConfigText -----------------------------
(* An instance of ConfigText for TLC: the characters the filters look for. *)
EXTENDS ConfigText

SmallChars == {"/", "*", Comma, "]", Space, EndLine}
=============================================================================
