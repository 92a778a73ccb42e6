---------------------------- MODULE MCTktUsbSystem ----------------------------
(* An instance of TktUsbSystem for TLC: one client has a name of its own,  *)
(* two ask for one that two names of the file are cut to.                  *)
EXTENDS TktUsbSystem

A == <<97>>
AB == <<97, 98>>
ABC == <<97, 98, 99>>

SystemNames == {A, AB}
ClientAsks == [p |-> {A}, q |-> {AB}, r |-> {AB}]

File(m, a, n, b) == <<[name |-> m, address |-> a], [name |-> n, address |-> b]>>
SystemConfigs == {File(ABC, 1, A, 129), File(ABC, 129, AB, 2)}

Failure == {-1}
=============================================================================
