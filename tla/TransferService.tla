--------------------------- MODULE TransferService ---------------------------
(***************************************************************************)
(* What tktUsbRead and tktUsbWrite promise a calling thread, with nothing  *)
(* said of requests, event flags or the USB bus: a call on an endpoint is  *)
(* open until it is refused with an error or until one transfer has taken  *)
(* place for it, and what it then returns is the outcome of that transfer. *)
(***************************************************************************)
EXTENDS Integers

CONSTANTS
  Threads,      (* the calling threads                                     *)
  Endpoints,    (* the endpoints they call on                              *)
  Writable,     (* the endpoints a call on which is a tktUsbWrite          *)
  ErrorCodes,   (* the nonzero codes of a refused request or failed one    *)
  MaxSize       (* the largest number of bytes one transfer receives       *)

VARIABLES
  phase,        (* "idle" or "open", for each thread                       *)
  target,       (* the endpoint of each thread's latest call               *)
  outcome,      (* what the bus did for each thread's latest call          *)
  returned      (* what each thread's latest finished call returned        *)

vars == <<phase, target, outcome, returned>>

Pending == [done |-> FALSE, retcode |-> 0, recvsize |-> 0]

Outcomes == [done : {TRUE}, retcode : {0} \cup ErrorCodes, recvsize : 0..MaxSize]

(* The value a call on e makes of the request fields the bus fills in. *)
Answer(e, o) ==
  IF o.retcode = 0 /\ e \notin Writable THEN o.recvsize ELSE o.retcode

TypeOK ==
  /\ phase \in [Threads -> {"idle", "open"}]
  /\ target \in [Threads -> Endpoints]
  /\ outcome \in [Threads -> Outcomes \cup {Pending}]
  /\ returned \in [Threads -> ErrorCodes \cup 0..MaxSize]

-----------------------------------------------------------------------------
Init ==
  /\ phase = [t \in Threads |-> "idle"]
  /\ target \in [Threads -> Endpoints]
  /\ outcome = [t \in Threads |-> Pending]
  /\ returned = [t \in Threads |-> 0]

Open(t, e) ==
  /\ phase[t] = "idle"
  /\ phase' = [phase EXCEPT ![t] = "open"]
  /\ target' = [target EXCEPT ![t] = e]
  /\ outcome' = [outcome EXCEPT ![t] = Pending]
  /\ UNCHANGED returned

(* The bus moves the data of the call, or gives up on it: once. *)
Transfer(t) ==
  /\ phase[t] = "open"
  /\ outcome[t] = Pending
  /\ \E o \in Outcomes : outcome' = [outcome EXCEPT ![t] = o]
  /\ UNCHANGED <<phase, target, returned>>

Refuse(t) ==
  /\ phase[t] = "open"
  /\ outcome[t] = Pending
  /\ phase' = [phase EXCEPT ![t] = "idle"]
  /\ \E code \in ErrorCodes : returned' = [returned EXCEPT ![t] = code]
  /\ UNCHANGED <<target, outcome>>

Return(t) ==
  /\ phase[t] = "open"
  /\ outcome[t].done
  /\ phase' = [phase EXCEPT ![t] = "idle"]
  /\ returned' = [returned EXCEPT ![t] = Answer(target[t], outcome[t])]
  /\ UNCHANGED <<target, outcome>>

Next ==
  \E t \in Threads :
    \/ \E e \in Endpoints : Open(t, e)
    \/ Transfer(t)
    \/ Refuse(t)
    \/ Return(t)

Spec == Init /\ [][Next]_vars

(* The environment moves the data of every open call; a call whose data has *)
(* moved returns.                                                           *)
FairSpec ==
  /\ Spec
  /\ \A t \in Threads : WF_vars(Transfer(t) \/ Refuse(t)) /\ WF_vars(Return(t))
=============================================================================
