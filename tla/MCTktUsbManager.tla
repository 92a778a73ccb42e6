--------------------------- MODULE MCTktUsbManager ---------------------------
(* Instances of TktUsbManager for TLC: what the configuration may list. *)
EXTENDS TktUsbManager

(* Names of up to three bytes: with MaxNameSize = 2, two of them are cut   *)
(* to the same bytes, which are also a name of their own.                  *)
SmallNames == {<<>>, <<97>>, <<97, 98>>, <<97, 98, 99>>, <<97, 98, 100>>}

(* Out of endpoint 2, into endpoint 1, and out of endpoint 1. *)
SmallEndpoints == [name : SmallNames, address : {2, 129, 1}]

SmallConfigs ==
  {c \in UNION {[1..n -> SmallEndpoints] : n \in 0..2} :
     \A i, j \in DOMAIN c : c[i].name = c[j].name => i = j}
=============================================================================
