---------------------------- MODULE MCUsbEndpoint ----------------------------
(* Instances of UsbEndpoint for TLC: who calls on which endpoint. *)
EXTENDS UsbEndpoint, TLC

Failure == {-1}

(* The threads of two plugins, each reading one endpoint and writing      *)
(* another, as examples/usbreadwrite/pspplugin/main.c does.               *)
PrivateUsers == [inA |-> {"p"}, outA |-> {"p"}, inB |-> {"q"}, outB |-> {"q"}]
PrivateWritable == {"inA", "inB"}

(* One plugin keeps an endpoint to itself; two others share one, and one   *)
(* of those also calls on a third.                                         *)
DisturbedUsers == [own |-> {"safe"}, shared |-> {"p", "q"}, side |-> {"q"}]

(* Every thread calls on the one endpoint there is: they are alike. *)
SharedUsers == [e \in Endpoints |-> Threads]
AlikeThreads == Permutations(Threads)
=============================================================================
