----------------------------- MODULE UsbEndpoint -----------------------------
(***************************************************************************)
(* src/tktusbmanager/usb/endpoint.c: the threads of client plugins call    *)
(* tktUsbRead and tktUsbWrite.  A call fills in a UsbdDeviceReq on its own *)
(* stack, hands its address to the USB bus driver, and waits, with no      *)
(* timeout, on the one event flag of the endpoint.  The bus completes the  *)
(* request later and runs usbRequestDone, which finds the endpoint through *)
(* the request and sets the flag.  The code neither checks that the flag   *)
(* was set for the request it waits for, nor takes a request back from the *)
(* bus when the calling thread is terminated.                              *)
(*                                                                         *)
(* The bus driver and the kernel's event flags are external: they are      *)
(* modelled from the way endpoint.c calls them.                            *)
(***************************************************************************)
EXTENDS Integers, FiniteSets

CONSTANTS
  Threads,      (* threads of the client plugins                           *)
  Endpoints,    (* the configured endpoints                                *)
  Users,        (* Users[e]: the threads that call on endpoint e           *)
  Writable,     (* endpoints whose address has the USB_ENDPOINT_IN bit     *)
  Killable,     (* threads that their plugin may terminate inside a call   *)
  ErrorCodes,   (* nonzero codes of the bus, for a request and for a call  *)
  MaxSize,      (* bound: bytes received by one transfer                   *)
  MaxCalls      (* bound: calls made by one thread                         *)

ASSUME EndpointAssumption ==
  /\ Users \in [Endpoints -> SUBSET Threads]
  /\ Writable \subseteq Endpoints
  /\ ErrorCodes \subseteq Int \ {0}
  /\ MaxSize \in Nat
  /\ MaxCalls \in Nat

VARIABLES
  pc,           (* where each thread is in requestTktUsbEndpoint           *)
  calls,        (* the calls each thread began; names its stack frame      *)
  request,      (* the UsbdDeviceReq in that frame                         *)
  queued,       (* requests the bus has accepted and not completed         *)
  finished,     (* completed requests whose func has not run yet           *)
  flag,         (* bit USB_REQUEST_DONE of each endpoint's event flag      *)
  outcome,      (* history: what the bus did for each thread's latest call *)
  returned      (* the value each thread's latest finished call returned   *)

vars == <<pc, calls, request, queued, finished, flag, outcome, returned>>

-----------------------------------------------------------------------------
Pending == [done |-> FALSE, retcode |-> 0, recvsize |-> 0]

Outcomes == [done : {TRUE}, retcode : {0} \cup ErrorCodes, recvsize : 0..MaxSize]

Request == [arg : Endpoints, retcode : {0} \cup ErrorCodes, recvsize : 0..MaxSize]

(* A pointer to a UsbdDeviceReq held by the bus: the frame it points into, *)
(* and the endpoint it was submitted for.                                  *)
Pointer == [thread : Threads, call : 0..MaxCalls, ep : Endpoints]

PointerOf(t) == [thread |-> t, call |-> calls[t], ep |-> request[t].arg]

(* The frame that r points into still belongs to the call that made it. *)
Live(r) == pc[r.thread] # "idle" /\ calls[r.thread] = r.call

Held == queued \cup finished

-----------------------------------------------------------------------------
Init ==
  /\ pc = [t \in Threads |-> "idle"]
  /\ calls = [t \in Threads |-> 0]
  /\ request \in [Threads -> [arg : Endpoints, retcode : {0}, recvsize : {0}]]
  /\ queued = {}
  /\ finished = {}
  /\ flag = [e \in Endpoints |-> FALSE]
  /\ outcome = [t \in Threads |-> Pending]
  /\ returned = [t \in Threads |-> 0]

(* A thread calls; the request is cleared and filled in. *)
Prepare(t, e) ==
  /\ pc[t] = "idle"
  /\ t \in Users[e]
  /\ calls[t] < MaxCalls
  /\ pc' = [pc EXCEPT ![t] = "prepared"]
  /\ calls' = [calls EXCEPT ![t] = @ + 1]
  /\ request' = [request EXCEPT ![t] = [arg |-> e, retcode |-> 0, recvsize |-> 0]]
  /\ outcome' = [outcome EXCEPT ![t] = Pending]
  /\ UNCHANGED <<queued, finished, flag, returned>>

(* sceUsbbdReqRecv or sceUsbbdReqSend takes the request... *)
Submit(t) ==
  /\ pc[t] = "prepared"
  /\ pc' = [pc EXCEPT ![t] = "submitted"]
  /\ queued' = queued \cup {PointerOf(t)}
  /\ UNCHANGED <<calls, request, finished, flag, outcome, returned>>

(* Mutant: the wait follows whatever the bus answered. *)
RefusedYetWaits(t) ==
  /\ pc[t] = "prepared"
  /\ ErrorCodes # {}
  /\ pc' = [pc EXCEPT ![t] = "submitted"]
  /\ UNCHANGED <<calls, request, queued, finished, flag, outcome, returned>>

(* ... or refuses it, and the call returns the bus's code without waiting. *)
Refused(t) ==
  /\ pc[t] = "prepared"
  /\ pc' = [pc EXCEPT ![t] = "idle"]
  /\ \E code \in ErrorCodes : returned' = [returned EXCEPT ![t] = code]
  /\ UNCHANGED <<calls, request, queued, finished, flag, outcome>>

(* Mutant: the bit is left set, as without PSP_EVENT_WAITCLEAR. *)
WaitWithoutClear(t) ==
  /\ pc[t] = "submitted"
  /\ pc' = [pc EXCEPT ![t] = IF flag[request[t].arg] THEN "woken" ELSE "waiting"]
  /\ UNCHANGED <<calls, request, queued, finished, flag, outcome, returned>>

(* Mutant: a stale bit is cleared away before the wait. *)
ClearThenWait(t) ==
  /\ pc[t] = "submitted"
  /\ pc' = [pc EXCEPT ![t] = "waiting"]
  /\ flag' = [flag EXCEPT ![request[t].arg] = FALSE]
  /\ UNCHANGED <<calls, request, queued, finished, outcome, returned>>

(* Mutant: the wait has a timeout, and the call goes on when it runs out. *)
WaitAtMost(t) ==
  /\ pc[t] = "submitted"
  /\ pc' = [pc EXCEPT ![t] = "woken"]
  /\ flag' = [flag EXCEPT ![request[t].arg] = FALSE]
  /\ UNCHANGED <<calls, request, queued, finished, outcome, returned>>

(* sceKernelWaitEventFlag with PSP_EVENT_WAITCLEAR: the bit is taken when  *)
(* it is set, and otherwise the thread joins those waiting for it.         *)
WaitEventFlag(t) ==
  LET e == request[t].arg IN
  /\ pc[t] = "submitted"
  /\ pc' = [pc EXCEPT ![t] = IF flag[e] THEN "woken" ELSE "waiting"]
  /\ flag' = [flag EXCEPT ![e] = FALSE]
  /\ UNCHANGED <<calls, request, queued, finished, outcome, returned>>

(* Mutants: the code of a failed read goes unread; the size is one more. *)
AnswerUnchecked(e, req) == IF e \notin Writable THEN req.recvsize ELSE req.retcode
AnswerWithNul(e, req) ==
  IF req.retcode = 0 /\ e \notin Writable THEN req.recvsize + 1 ELSE req.retcode

(* readTktUsbEndpoint returns the size received unless the bus reported an *)
(* error, writeTktUsbEndpoint the bus's code.                              *)
Answer(e, req) ==
  IF req.retcode = 0 /\ e \notin Writable THEN req.recvsize ELSE req.retcode

Return(t) ==
  /\ pc[t] = "woken"
  /\ pc' = [pc EXCEPT ![t] = "idle"]
  /\ returned' = [returned EXCEPT ![t] = Answer(request[t].arg, request[t])]
  /\ UNCHANGED <<calls, request, queued, finished, flag, outcome>>

(* A plugin terminates its thread inside a call, and may start it again:   *)
(* the kernel stops the wait, the bus keeps the pointer.                   *)
Kill(t) ==
  /\ t \in Killable
  /\ pc[t] # "idle"
  /\ pc' = [pc EXCEPT ![t] = "idle"]
  /\ UNCHANGED <<calls, request, queued, finished, flag, outcome, returned>>

-----------------------------------------------------------------------------
(* The bus stores the outcome through r.  Into a dead frame the store has  *)
(* no defined effect: it misses every request, or hits the one that the    *)
(* same thread has meanwhile put in its place.                             *)
Store(r, o) ==
  LET hit == [request EXCEPT ![r.thread].retcode = o.retcode,
                             ![r.thread].recvsize = o.recvsize] IN
  \/ pc[r.thread] # "idle" /\ request' = hit
  \/ ~Live(r) /\ UNCHANGED request

(* The bus completes a request, in no particular order, with any outcome. *)
Complete(r) ==
  /\ r \in queued
  /\ queued' = queued \ {r}
  /\ finished' = finished \cup {r}
  /\ \E o \in Outcomes :
       /\ Store(r, o)
       /\ outcome' = IF calls[r.thread] = r.call
                     THEN [outcome EXCEPT ![r.thread] = o] ELSE outcome
  /\ UNCHANGED <<pc, calls, flag, returned>>

Waiters(e) == {t \in Threads : pc[t] = "waiting" /\ request[t].arg = e}

(* sceKernelSetEventFlag: one waiting thread is released and takes the bit *)
(* at once; the bit stays set only when nobody waits for it.               *)
SetEventFlag(e) ==
  \/ /\ Waiters(e) = {}
     /\ flag' = [flag EXCEPT ![e] = TRUE]
     /\ UNCHANGED pc
  \/ /\ \E t \in Waiters(e) : pc' = [pc EXCEPT ![t] = "woken"]
     /\ UNCHANGED flag

(* usbRequestDone reads the endpoint through r: through a dead frame it    *)
(* finds the old value, that of the request put in its place, or nothing   *)
(* that names an event flag.                                               *)
RequestDone(r) ==
  /\ r \in finished
  /\ finished' = finished \ {r}
  /\ \/ pc[r.thread] # "idle" /\ SetEventFlag(request[r.thread].arg)
     \/ ~Live(r) /\ SetEventFlag(r.ep)
     \/ ~Live(r) /\ UNCHANGED <<flag, pc>>
  /\ UNCHANGED <<calls, request, queued, outcome, returned>>

-----------------------------------------------------------------------------
ThreadStep(t) == Submit(t) \/ Refused(t) \/ WaitEventFlag(t) \/ Return(t)

Next ==
  \/ \E t \in Threads, e \in Endpoints : Prepare(t, e)
  \/ \E t \in Threads : Submit(t)
  \/ \E t \in Threads : Refused(t)
  \/ \E t \in Threads : WaitEventFlag(t)
  \/ \E t \in Threads : Return(t)
  \/ \E t \in Threads : Kill(t)
  \/ \E r \in queued : Complete(r)
  \/ \E r \in finished : RequestDone(r)

Spec == Init /\ [][Next]_vars

(* The kernel schedules every ready thread, the host serves every endpoint *)
(* it was offered, and the bus runs func for every request it completed.   *)
Fairness ==
  /\ \A t \in Threads : WF_vars(ThreadStep(t))
  /\ \A r \in Pointer : WF_vars(Complete(r)) /\ WF_vars(RequestDone(r))

FairSpec == Spec /\ Fairness
-----------------------------------------------------------------------------
(* Every variable has its type: requests, pointers and flags of endpoint.c *)
TypeOK ==
  /\ pc \in [Threads -> {"idle", "prepared", "submitted", "waiting", "woken"}]
  /\ calls \in [Threads -> 0..MaxCalls]
  /\ request \in [Threads -> Request]
  /\ queued \subseteq Pointer
  /\ finished \subseteq Pointer
  /\ flag \in [Endpoints -> BOOLEAN]
  /\ outcome \in [Threads -> Outcomes \cup {Pending}]
  /\ returned \in [Threads -> ErrorCodes \cup 0..MaxSize]

(* A thread that shares none of the endpoints it calls on, and that is not *)
(* terminated inside a call.                                               *)
SafeThreads ==
  {t \in Threads \ Killable : \A e \in Endpoints : t \in Users[e] => Users[e] = {t}}

(* The wait of requestTktUsbEndpoint ends for a safe thread only after the *)
(* bus has completed the very request it waits for, and the fields the     *)
(* call goes on to read are those of that completion, whatever the other   *)
(* threads do to their endpoints.                                          *)
WokenByOwnRequest ==
  \A t \in SafeThreads :
    pc[t] = "woken" =>
      /\ outcome[t].done
      /\ request[t].retcode = outcome[t].retcode
      /\ request[t].recvsize = outcome[t].recvsize

(* The bus holds no pointer into the stack of a safe thread that has left  *)
(* the call, so neither the bus nor usbRequestDone touches a dead frame.   *)
NoDanglingRequest ==
  \A r \in Held : r.thread \in SafeThreads => Live(r)

(* A waiting safe thread has its own request still with the bus: its       *)
(* signal was not lost between the submission and the wait.                *)
NoLostSignal ==
  \A t \in SafeThreads : pc[t] = "waiting" => PointerOf(t) \in Held

(* The inductive form of the three: a pointer held by the bus belongs to a *)
(* user of its endpoint...                                                 *)
UsersInv ==
  /\ \A t \in Threads : pc[t] # "idle" => t \in Users[request[t].arg]
  /\ \A r \in Held : r.thread \in Users[r.ep]

(* ... and a safe thread has one token under way from the submission to    *)
(* the wait: its pointer in queued, its pointer in finished, or the flag.  *)
Token(t) ==
  /\ \A r \in Held : r.thread = t =>
       r = PointerOf(t) /\ pc[t] \in {"submitted", "waiting"}
  /\ \A e \in Endpoints : t \in Users[e] /\ flag[e] =>
       pc[t] = "submitted" /\ e = request[t].arg /\ PointerOf(t) \notin Held
  /\ PointerOf(t) \notin queued \cap finished
  /\ pc[t] = "submitted" => flag[request[t].arg] \/ PointerOf(t) \in Held
  /\ pc[t] = "waiting" => PointerOf(t) \in Held

(* The request of a safe thread is filled in when the bus gives it up.     *)
Filled(t) ==
  /\ pc[t] = "prepared" \/ PointerOf(t) \in queued => outcome[t] = Pending
  /\ pc[t] \in {"submitted", "waiting", "woken"} /\ PointerOf(t) \notin queued =>
       /\ outcome[t].done
       /\ request[t].retcode = outcome[t].retcode
       /\ request[t].recvsize = outcome[t].recvsize

SafeInv == UsersInv /\ \A t \in SafeThreads : Token(t) /\ Filled(t)

(* An endpoint whose users call on no other endpoint and are not killed.   *)
Closed(e) ==
  \A t \in Users[e] : t \notin Killable /\ \A f \in Endpoints \ {e} : t \notin Users[f]

(* Threads may share an endpoint and take each other's signals, but when   *)
(* the last of them has returned, no signal and no request of the endpoint *)
(* is left over for the next call to trip on.                              *)
QuiescentIsClean ==
  \A e \in Endpoints :
    Closed(e) /\ (\A t \in Users[e] : pc[t] = "idle") =>
      ~flag[e] /\ \A r \in Held : r.ep # e

(* The calls on e that wait for a signal or are about to, and the requests *)
(* that are still to give one.                                             *)
Awaiting(e) == {t \in Users[e] : pc[t] \in {"submitted", "waiting"}}
Coming(e) == {r \in Held : r.ep = e}

(* The requests whose call has gone on without them, and the calls that    *)
(* await a signal although their own request has given its own.            *)
Deserted(e) == {r \in Coming(e) : ~\E t \in Awaiting(e) : r = PointerOf(t)}
Overtaken(e) == {t \in Awaiting(e) : PointerOf(t) \notin Held}

(* Nothing keeps a thread from going on before its own transfer has ended, *)
(* and from leaving its request to the bus, when it shares the endpoint.   *)
(* It does so only on the signal of another's request, whose call still    *)
(* awaits one: no fewer calls are overtaken than requests are deserted, so *)
(* that no call leaves early by itself or on a signal from the past.       *)
EarlyWakesAreMatched ==
  \A e \in Endpoints :
    Closed(e) => Cardinality(Deserted(e)) <= Cardinality(Overtaken(e))

(* Every call of a safe thread returns, although nothing bounds its wait,  *)
(* provided the host serves the endpoint.                                  *)
CallsReturn == \A t \in SafeThreads : pc[t] # "idle" ~> pc[t] = "idle"

(* To a safe thread the requests, the flags and the bus are exactly the    *)
(* transfer service: the value a call returns is that of its own transfer. *)
Service ==
  INSTANCE TransferService WITH
    Threads <- SafeThreads,
    phase <- [t \in SafeThreads |-> IF pc[t] = "idle" THEN "idle" ELSE "open"],
    target <- [t \in SafeThreads |-> request[t].arg],
    outcome <- [t \in SafeThreads |-> outcome[t]],
    returned <- [t \in SafeThreads |-> returned[t]]

ServiceSpec == Service!Spec
=============================================================================
