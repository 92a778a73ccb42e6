---------------------------- MODULE MCParsonObject ----------------------------
(* An instance of ParsonObject for TLC: names that collide at every        *)
(* capacity, at the last cell and behind a run that goes round.            *)
EXTENDS ParsonObject, TLC

HashValue == ("a" :> 7) @@ ("b" :> 15) @@ ("c" :> 0) @@ ("d" :> 3)

Symmetric == Permutations(Values)
=============================================================================
