-------------------------- MODULE UsbEndpointProofs --------------------------
(***************************************************************************)
(* Proofs about UsbEndpoint, for every set of threads and endpoints, every *)
(* assignment of threads to endpoints and every bound.                     *)
(***************************************************************************)
EXTENDS UsbEndpoint, FiniteSetTheorems, TLAPS

(* Every variable keeps its type through every step. *)
LEMMA TypeStep == TypeOK /\ [Next]_vars => TypeOK'
<1> SUFFICES ASSUME TypeOK, [Next]_vars PROVE TypeOK'
  OBVIOUS
<1> USE EndpointAssumption DEF TypeOK
<1>1. ASSUME NEW t \in Threads, NEW e \in Endpoints, Prepare(t, e) PROVE TypeOK'
  BY <1>1 DEF Prepare, Request
<1>2. ASSUME NEW t \in Threads, Submit(t) PROVE TypeOK'
  BY <1>2 DEF Submit, PointerOf, Pointer, Request
<1>3. ASSUME NEW t \in Threads, Refused(t) PROVE TypeOK'
  BY <1>3 DEF Refused
<1>4. ASSUME NEW t \in Threads, WaitEventFlag(t) PROVE TypeOK'
  BY <1>4 DEF WaitEventFlag
<1>5. ASSUME NEW t \in Threads, Return(t) PROVE TypeOK'
  BY <1>5 DEF Return, Answer, Request
<1>6. ASSUME NEW t \in Threads, Kill(t) PROVE TypeOK'
  BY <1>6 DEF Kill
<1>7. ASSUME NEW r \in queued, Complete(r) PROVE TypeOK'
  <2>1. r \in Pointer /\ r.thread \in Threads
    BY DEF Pointer
  <2>2. PICK o \in Outcomes :
          /\ Store(r, o)
          /\ outcome' = IF calls[r.thread] = r.call
                        THEN [outcome EXCEPT ![r.thread] = o] ELSE outcome
    BY <1>7 DEF Complete
  <2>3. request' \in [Threads -> Request]
    BY <2>1, <2>2 DEF Store, Request, Outcomes
  <2>4. outcome' \in [Threads -> Outcomes \cup {Pending}]
    BY <2>1, <2>2
  <2>5. QED
    BY <1>7, <2>1, <2>3, <2>4 DEF Complete
<1>8. ASSUME NEW r \in finished, RequestDone(r) PROVE TypeOK'
  <2>1. r.thread \in Threads /\ r.ep \in Endpoints
    BY DEF Pointer
  <2>2. request[r.thread].arg \in Endpoints
    BY <2>1 DEF Request
  <2>3. ASSUME NEW e \in Endpoints, SetEventFlag(e) 
        PROVE  flag' \in [Endpoints -> BOOLEAN]
               /\ pc' \in [Threads -> {"idle", "prepared", "submitted", "waiting", "woken"}]
    BY <2>3 DEF SetEventFlag, Waiters
  <2>4. flag' \in [Endpoints -> BOOLEAN]
        /\ pc' \in [Threads -> {"idle", "prepared", "submitted", "waiting", "woken"}]
    BY <1>8, <2>1, <2>2, <2>3 DEF RequestDone
  <2>5. QED
    BY <1>8, <2>4 DEF RequestDone
<1>9. CASE UNCHANGED vars
  BY <1>9 DEF vars
<1>10. QED
  BY <1>1, <1>2, <1>3, <1>4, <1>5, <1>6, <1>7, <1>8, <1>9 DEF Next

(* Type correctness of the request protocol. *)
THEOREM TypeCorrect == Spec => []TypeOK
<1>1. Init => TypeOK
  BY EndpointAssumption DEF Init, TypeOK, Request
<1>2. QED
  BY <1>1, TypeStep, PTL DEF Spec

(* A pointer stays with a user of its endpoint through every step. *)
LEMMA UsersStep == TypeOK /\ UsersInv /\ [Next]_vars => UsersInv'
<1> SUFFICES ASSUME TypeOK, UsersInv, [Next]_vars PROVE UsersInv'
  OBVIOUS
<1> USE EndpointAssumption DEF TypeOK, UsersInv, Held
<1>1. ASSUME NEW t \in Threads, NEW e \in Endpoints, Prepare(t, e) PROVE UsersInv'
  BY <1>1 DEF Prepare
<1>2. ASSUME NEW t \in Threads, Submit(t) PROVE UsersInv'
  BY <1>2 DEF Submit, PointerOf
<1>3. ASSUME NEW t \in Threads, Refused(t) PROVE UsersInv'
  BY <1>3 DEF Refused
<1>4. ASSUME NEW t \in Threads, WaitEventFlag(t) PROVE UsersInv'
  BY <1>4 DEF WaitEventFlag
<1>5. ASSUME NEW t \in Threads, Return(t) PROVE UsersInv'
  BY <1>5 DEF Return
<1>6. ASSUME NEW t \in Threads, Kill(t) PROVE UsersInv'
  BY <1>6 DEF Kill
<1>7. ASSUME NEW r \in queued, Complete(r) PROVE UsersInv'
  BY <1>7 DEF Complete, Store, Pointer, Request
<1>8. ASSUME NEW r \in finished, RequestDone(r) PROVE UsersInv'
  BY <1>8 DEF RequestDone, SetEventFlag, Waiters
<1>9. CASE UNCHANGED vars
  BY <1>9 DEF vars
<1>10. QED
  BY <1>1, <1>2, <1>3, <1>4, <1>5, <1>6, <1>7, <1>8, <1>9 DEF Next

(* A safe thread keeps one token under way through every step. *)
LEMMA TokenStep ==
  ASSUME TypeOK, UsersInv, NEW t \in SafeThreads, Token(t), [Next]_vars
  PROVE  Token(t)'
<1> USE EndpointAssumption DEF TypeOK, UsersInv, Held, Token, PointerOf, SafeThreads
<1>1. ASSUME NEW u \in Threads, NEW e \in Endpoints, Prepare(u, e) PROVE Token(t)'
  BY <1>1 DEF Prepare
<1>2. ASSUME NEW u \in Threads, Submit(u) PROVE Token(t)'
  BY <1>2 DEF Submit
<1>3. ASSUME NEW u \in Threads, Refused(u) PROVE Token(t)'
  BY <1>3 DEF Refused
<1>4. ASSUME NEW u \in Threads, WaitEventFlag(u) PROVE Token(t)'
  <2>1. CASE u = t
    <3>1. \A e \in Endpoints : t \in Users[e] => ~flag'[e]
      BY <1>4, <2>1 DEF WaitEventFlag, Request
    <3>2. CASE flag[request[t].arg]
      <4>1. PointerOf(t) \notin Held /\ pc'[t] = "woken"
        BY <1>4, <2>1, <3>2 DEF WaitEventFlag, Request
      <4>2. QED
        BY <1>4, <2>1, <3>1, <4>1 DEF WaitEventFlag
    <3>3. CASE ~flag[request[t].arg]
      BY <1>4, <2>1, <3>1, <3>3 DEF WaitEventFlag
    <3>4. QED
      BY <3>2, <3>3
  <2>2. CASE u # t
    <3>1. \A e \in Endpoints : t \in Users[e] => flag'[e] = flag[e]
      BY <1>4, <2>2 DEF WaitEventFlag, Request
    <3>2. pc'[t] = pc[t] /\ UNCHANGED <<calls, request, queued, finished>>
      BY <1>4, <2>2 DEF WaitEventFlag
    <3>3. request[t].arg \in Endpoints
      BY DEF Request
    <3>4. pc[t] = "submitted" => flag'[request[t].arg] = flag[request[t].arg]
      BY <3>1, <3>3
    <3>5. QED
      BY <3>1, <3>2, <3>4
  <2>3. QED
    BY <2>1, <2>2
<1>5. ASSUME NEW u \in Threads, Return(u) PROVE Token(t)'
  BY <1>5 DEF Return
<1>6. ASSUME NEW u \in Threads, Kill(u) PROVE Token(t)'
  BY <1>6 DEF Kill
<1>7. ASSUME NEW r \in queued, Complete(r) PROVE Token(t)'
  BY <1>7 DEF Complete, Store, Pointer, Request
<1>8. ASSUME NEW r \in finished, RequestDone(r) PROVE Token(t)'
  <2>1. CASE r.thread = t
    <3>1. r = PointerOf(t) /\ pc[t] \in {"submitted", "waiting"} /\ Live(r)
      BY <2>1 DEF Live
    <3>2. \A s \in Held' : s.thread # t
      BY <1>8, <3>1 DEF RequestDone
    <3>3. SetEventFlag(request[t].arg) /\ UNCHANGED <<calls, request, queued>>
      BY <1>8, <2>1, <3>1 DEF RequestDone
    <3>4. t \in Users[request[t].arg] /\ request[t].arg \in Endpoints
      BY <3>1 DEF Request
    <3>5. CASE pc[t] = "waiting"
      <4>1. Waiters(request[t].arg) = {t}
        BY <3>4, <3>5 DEF Waiters, Request
      <4>2. pc'[t] = "woken" /\ UNCHANGED flag
        BY <3>3, <4>1 DEF SetEventFlag
      <4>3. QED
        BY <3>2, <3>3, <3>5, <4>2
    <3>6. CASE pc[t] = "submitted"
      <4>1. Waiters(request[t].arg) = {}
        BY <3>4, <3>6 DEF Waiters, Request
      <4>2. pc'[t] = "submitted" /\ flag' = [flag EXCEPT ![request[t].arg] = TRUE]
        BY <3>3, <3>6, <4>1 DEF SetEventFlag
      <4>3. PointerOf(t)' \notin Held'
        BY <3>2
      <4>4. QED
        BY <3>2, <3>3, <3>4, <3>6, <4>2, <4>3
    <3>7. QED
      BY <3>1, <3>5, <3>6
  <2>2. CASE r.thread # t
    <3>1. /\ UNCHANGED <<calls, request, queued>>
          /\ finished' = finished \ {r}
          /\ PointerOf(t) # r
      BY <1>8, <2>2 DEF RequestDone
    <3>2. /\ r.thread \in Threads /\ r.ep \in Endpoints
          /\ r.thread \in Users[r.ep] /\ t \notin Users[r.ep]
      BY <2>2 DEF Pointer
    <3>3. pc[r.thread] # "idle" =>
            /\ request[r.thread].arg \in Endpoints
            /\ t \notin Users[request[r.thread].arg]
      BY <2>2, <3>2 DEF Request
    <3>4. ASSUME NEW e \in Endpoints, t \notin Users[e], SetEventFlag(e)
          PROVE  /\ pc'[t] = pc[t]
                 /\ \A f \in Endpoints : t \in Users[f] => flag'[f] = flag[f]
      BY <3>4 DEF SetEventFlag, Waiters
    <3>5. /\ pc'[t] = pc[t]
          /\ \A f \in Endpoints : t \in Users[f] => flag'[f] = flag[f]
      BY <1>8, <3>2, <3>3, <3>4 DEF RequestDone
    <3>6. pc[t] = "submitted" => flag'[request[t].arg] = flag[request[t].arg]
      BY <3>5 DEF Request
    <3>7. QED
      BY <3>1, <3>5, <3>6
  <2>3. QED
    BY <2>1, <2>2
<1>9. CASE UNCHANGED vars
  BY <1>9 DEF vars
<1>10. QED
  BY <1>1, <1>2, <1>3, <1>4, <1>5, <1>6, <1>7, <1>8, <1>9 DEF Next

(* A safe thread's request is filled in exactly by its completion. *)
LEMMA FilledStep ==
  ASSUME TypeOK, UsersInv, NEW t \in SafeThreads, Token(t), Filled(t), [Next]_vars
  PROVE  Filled(t)'
<1> USE EndpointAssumption DEF TypeOK, UsersInv, Held, Token, Filled, PointerOf, SafeThreads
<1>1. ASSUME NEW u \in Threads, NEW e \in Endpoints, Prepare(u, e) PROVE Filled(t)'
  BY <1>1 DEF Prepare
<1>2. ASSUME NEW u \in Threads, Submit(u) PROVE Filled(t)'
  BY <1>2 DEF Submit
<1>3. ASSUME NEW u \in Threads, Refused(u) PROVE Filled(t)'
  BY <1>3 DEF Refused
<1>4. ASSUME NEW u \in Threads, WaitEventFlag(u) PROVE Filled(t)'
  BY <1>4 DEF WaitEventFlag
<1>5. ASSUME NEW u \in Threads, Return(u) PROVE Filled(t)'
  BY <1>5 DEF Return
<1>6. ASSUME NEW u \in Threads, Kill(u) PROVE Filled(t)'
  BY <1>6 DEF Kill
<1>7. ASSUME NEW r \in queued, Complete(r) PROVE Filled(t)'
  <2>1. PICK o \in Outcomes :
          /\ Store(r, o)
          /\ outcome' = IF calls[r.thread] = r.call
                        THEN [outcome EXCEPT ![r.thread] = o] ELSE outcome
    BY <1>7 DEF Complete
  <2>2. r.thread \in Threads /\ UNCHANGED <<pc, calls>>
    BY <1>7 DEF Complete, Pointer
  <2>3. CASE r.thread = t
    <3>1. r = PointerOf(t) /\ pc[t] \in {"submitted", "waiting"} /\ Live(r)
      BY <2>3 DEF Live
    <3>2. request' = [request EXCEPT ![t].retcode = o.retcode, ![t].recvsize = o.recvsize]
      BY <2>1, <2>3, <3>1 DEF Store
    <3>3. outcome' = [outcome EXCEPT ![t] = o]
      BY <2>1, <2>3, <3>1
    <3>4. request'[t].retcode = o.retcode /\ request'[t].recvsize = o.recvsize
          /\ request'[t].arg = request[t].arg
      BY <3>2 DEF Request
    <3>5. outcome'[t].done /\ outcome'[t] = o
      BY <3>3 DEF Outcomes
    <3>6. PointerOf(t)' = r /\ r \notin queued'
      BY <1>7, <2>2, <3>1, <3>4 DEF Complete
    <3>7. QED
      BY <2>2, <3>1, <3>4, <3>5, <3>6
  <2>4. CASE r.thread # t
    <3>1. request'[t] = request[t] /\ outcome'[t] = outcome[t]
      BY <2>1, <2>2, <2>4 DEF Store
    <3>2. PointerOf(t)' = PointerOf(t) /\ PointerOf(t) # r
      BY <2>2, <2>4, <3>1
    <3>3. PointerOf(t)' \in queued' <=> PointerOf(t) \in queued
      BY <1>7, <3>2 DEF Complete
    <3>4. QED
      BY <2>2, <3>1, <3>3
  <2>5. QED
    BY <2>3, <2>4
<1>8. ASSUME NEW r \in finished, RequestDone(r) PROVE Filled(t)'
  BY <1>8 DEF RequestDone, SetEventFlag, Waiters, Live, Pointer
<1>9. CASE UNCHANGED vars
  BY <1>9 DEF vars
<1>10. QED
  BY <1>1, <1>2, <1>3, <1>4, <1>5, <1>6, <1>7, <1>8, <1>9 DEF Next

(* The inductive invariant of the protocol. *)
THEOREM SafeInvariant == Spec => []SafeInv
<1>1. Init => SafeInv
  BY EndpointAssumption DEF Init, SafeInv, UsersInv, Token, Filled, Held, PointerOf, SafeThreads
<1>2. TypeOK /\ SafeInv /\ [Next]_vars => SafeInv'
  <2>1. SafeThreads' = SafeThreads
    BY DEF SafeThreads
  <2>2. QED
    BY <2>1, UsersStep, TokenStep, FilledStep DEF SafeInv
<1>3. QED
  BY <1>1, <1>2, TypeCorrect, PTL DEF Spec

(* A safe thread's wait ends only with the completion of its own request,  *)
(* and it reads that completion's fields.                                  *)
THEOREM OwnRequest == Spec => []WokenByOwnRequest
<1>1. SafeInv => WokenByOwnRequest
  BY DEF SafeInv, Token, Filled, WokenByOwnRequest, SafeThreads, Held, PointerOf
<1>2. QED
  BY <1>1, SafeInvariant, PTL

(* The bus never holds a pointer into a frame a safe thread has left. *)
THEOREM NoDangling == Spec => []NoDanglingRequest
<1>1. SafeInv => NoDanglingRequest
  <2> SUFFICES ASSUME SafeInv, NEW r \in Held, r.thread \in SafeThreads
               PROVE  Live(r)
    BY DEF NoDanglingRequest
  <2>1. Token(r.thread)
    BY DEF SafeInv
  <2>2. r = PointerOf(r.thread) /\ pc[r.thread] \in {"submitted", "waiting"}
    BY <2>1 DEF Token
  <2>3. PointerOf(r.thread).call = calls[r.thread]
    BY DEF PointerOf
  <2>4. QED
    BY <2>2, <2>3 DEF Live
<1>2. QED
  BY <1>1, SafeInvariant, PTL

(* A safe thread that waits has its signal still to come. *)
THEOREM SignalToCome == Spec => []NoLostSignal
<1>1. SafeInv => NoLostSignal
  BY DEF SafeInv, Token, NoLostSignal
<1>2. QED
  BY <1>1, SafeInvariant, PTL

(* The calls of safe threads are calls of the transfer service: every step *)
(* is a step of the service or leaves it as it is.                         *)
THEOREM Implements == Spec => ServiceSpec
<1>1. Init => Service!Init
  BY EndpointAssumption DEF Init, Service!Init, SafeThreads, Pending, Service!Pending, TypeOK
<1>2. TypeOK /\ SafeInv /\ [Next]_vars => [Service!Next]_(Service!vars)
  <2> SUFFICES ASSUME TypeOK, SafeInv, [Next]_vars
               PROVE  [Service!Next]_(Service!vars)
    OBVIOUS
  <2> USE EndpointAssumption DEF Service!vars, TypeOK
  <2>1. ASSUME NEW t \in Threads, NEW e \in Endpoints, Prepare(t, e)
        PROVE  [Service!Next]_(Service!vars)
    <3>1. CASE t \in SafeThreads
      <4>1. Service!Open(t, e)
        BY <2>1, <3>1 DEF Prepare, Service!Open, Pending, Service!Pending, SafeThreads
      <4>2. QED
        BY <3>1, <4>1 DEF Service!Next
    <3>2. CASE t \notin SafeThreads
      BY <2>1, <3>2 DEF Prepare
    <3>3. QED
      BY <3>1, <3>2
  <2>2. ASSUME NEW t \in Threads, Submit(t) PROVE UNCHANGED Service!vars
    BY <2>2 DEF Submit
  <2>3. ASSUME NEW t \in Threads, Refused(t)
        PROVE  [Service!Next]_(Service!vars)
    <3>1. CASE t \in SafeThreads
      <4>1. outcome[t] = Pending
        BY <2>3, <3>1 DEF Refused, SafeInv, Filled
      <4>2. Service!Refuse(t)
        BY <2>3, <3>1, <4>1 DEF Refused, Service!Refuse, Pending, Service!Pending, SafeThreads
      <4>3. QED
        BY <3>1, <4>2 DEF Service!Next
    <3>2. CASE t \notin SafeThreads
      BY <2>3, <3>2 DEF Refused
    <3>3. QED
      BY <3>1, <3>2
  <2>4. ASSUME NEW t \in Threads, WaitEventFlag(t) PROVE UNCHANGED Service!vars
    BY <2>4 DEF WaitEventFlag
  <2>5. ASSUME NEW t \in Threads, Return(t)
        PROVE  [Service!Next]_(Service!vars)
    <3>1. CASE t \in SafeThreads
      <4>1. PointerOf(t) \notin queued
        BY <2>5, <3>1 DEF Return, SafeInv, Token, Held, PointerOf
      <4>2. /\ outcome[t].done
            /\ request[t].retcode = outcome[t].retcode
            /\ request[t].recvsize = outcome[t].recvsize
        BY <2>5, <3>1, <4>1 DEF Return, SafeInv, Filled
      <4>3. Service!Return(t)
        BY <2>5, <3>1, <4>2 DEF Return, Answer, Service!Return, Service!Answer, SafeThreads
      <4>4. QED
        BY <3>1, <4>3 DEF Service!Next
    <3>2. CASE t \notin SafeThreads
      BY <2>5, <3>2 DEF Return
    <3>3. QED
      BY <3>1, <3>2
  <2>6. ASSUME NEW t \in Threads, Kill(t) PROVE UNCHANGED Service!vars
    BY <2>6 DEF Kill, SafeThreads
  <2>7. ASSUME NEW r \in queued, Complete(r)
        PROVE  [Service!Next]_(Service!vars)
    <3>1. PICK o \in Outcomes :
            /\ Store(r, o)
            /\ outcome' = IF calls[r.thread] = r.call
                          THEN [outcome EXCEPT ![r.thread] = o] ELSE outcome
      BY <2>7 DEF Complete
    <3>2. r.thread \in Threads /\ UNCHANGED <<pc, calls, returned>>
      BY <2>7 DEF Complete, Pointer
    <3>3. ASSUME NEW t \in Threads PROVE request'[t].arg = request[t].arg
      <4>1. CASE UNCHANGED request
        BY <4>1
      <4>2. CASE request' = [request EXCEPT ![r.thread].retcode = o.retcode,
                                            ![r.thread].recvsize = o.recvsize]
        <5>1. request[t] \in Request /\ request[r.thread] \in Request
          BY <3>2
        <5>2. QED
          BY <3>2, <4>2, <5>1 DEF Request
      <4>3. QED
        BY <3>1, <4>1, <4>2 DEF Store
    <3>4. CASE r.thread \in SafeThreads
      <4>1. Token(r.thread) /\ Filled(r.thread)
        BY <3>4 DEF SafeInv
      <4>2. r = PointerOf(r.thread) /\ pc[r.thread] \in {"submitted", "waiting"}
        BY <4>1 DEF Token, Held
      <4>3. calls[r.thread] = r.call /\ outcome[r.thread] = Pending
        BY <4>1, <4>2 DEF PointerOf, Filled
      <4>4. outcome' = [outcome EXCEPT ![r.thread] = o]
        BY <3>1, <4>3
      <4>5. o \in Service!Outcomes
        BY DEF Outcomes, Service!Outcomes
      <4>6. [t \in SafeThreads |-> outcome[t]]'
              = [[t \in SafeThreads |-> outcome[t]] EXCEPT ![r.thread] = o]
        BY <3>2, <3>4, <4>4 DEF SafeThreads
      <4>7. UNCHANGED <<[t \in SafeThreads |-> IF pc[t] = "idle" THEN "idle" ELSE "open"],
                        [t \in SafeThreads |-> request[t].arg],
                        [t \in SafeThreads |-> returned[t]]>>
        BY <3>2, <3>3 DEF SafeThreads
      <4>8. Service!Transfer(r.thread)
        BY <3>4, <4>2, <4>3, <4>5, <4>6, <4>7
           DEF Service!Transfer, Pending, Service!Pending
      <4>9. QED
        BY <3>4, <4>8 DEF Service!Next
    <3>5. CASE r.thread \notin SafeThreads
      <4>1. \A t \in SafeThreads : outcome'[t] = outcome[t]
        BY <3>1, <3>2, <3>5 DEF SafeThreads
      <4>2. QED
        BY <3>2, <3>3, <4>1 DEF SafeThreads
    <3>6. QED
      BY <3>4, <3>5
  <2>8. ASSUME NEW r \in finished, RequestDone(r) PROVE UNCHANGED Service!vars
    <3>1. \A t \in Threads : pc'[t] = "idle" <=> pc[t] = "idle"
      BY <2>8 DEF RequestDone, SetEventFlag, Waiters
    <3>2. QED
      BY <2>8, <3>1 DEF RequestDone, SafeThreads
  <2>9. CASE UNCHANGED vars
    BY <2>9 DEF vars
  <2>10. QED
    BY <2>1, <2>2, <2>3, <2>4, <2>5, <2>6, <2>7, <2>8, <2>9 DEF Next
<1>3. QED
  BY <1>1, <1>2, TypeCorrect, SafeInvariant, PTL DEF Spec, ServiceSpec, Service!Spec
-----------------------------------------------------------------------------
(* The signal that the flag of an endpoint holds for the next call. *)
Signals(e) == IF flag[e] THEN 1 ELSE 0

(* No pointer is held twice, and a thread about to submit one has not done *)
(* so before.                                                              *)
FreshInv ==
  /\ queued \cap finished = {}
  /\ \A r \in Held :
       r.call <= calls[r.thread] /\ (pc[r.thread] = "prepared" => r.call # calls[r.thread])

(* On a closed endpoint there is never more to come, with the flag counted *)
(* in, than there are calls to take it.                                    *)
Counted(e) ==
  /\ IsFiniteSet(Awaiting(e)) /\ IsFiniteSet(Coming(e))
  /\ Cardinality(Coming(e)) + Signals(e) <= Cardinality(Awaiting(e))

CountInv == FreshInv /\ \A e \in Endpoints : Closed(e) => Counted(e)

LEMMA FreshStep == TypeOK /\ FreshInv /\ [Next]_vars => FreshInv'
<1> SUFFICES ASSUME TypeOK, FreshInv, [Next]_vars PROVE FreshInv'
  OBVIOUS
<1>1. /\ \A r \in Held : r.thread \in Threads /\ r.call \in Int
      /\ \A t \in Threads : calls[t] \in Int
      /\ pc \in [Threads -> {"idle", "prepared", "submitted", "waiting", "woken"}]
      /\ calls \in [Threads -> 0..MaxCalls]
  BY EndpointAssumption DEF TypeOK, Held, Pointer
<1>2. ASSUME NEW t \in Threads, NEW e \in Endpoints, Prepare(t, e) PROVE FreshInv'
  BY <1>1, <1>2 DEF Prepare, FreshInv, Held
<1>3. ASSUME NEW t \in Threads, Submit(t) PROVE FreshInv'
  <2>1. PointerOf(t).thread = t /\ PointerOf(t).call = calls[t]
    BY DEF PointerOf
  <2>2. PointerOf(t) \notin Held
    BY <1>3, <2>1 DEF FreshInv, Submit
  <2> QED
    BY <1>1, <1>3, <2>1, <2>2 DEF Submit, FreshInv, Held
<1>4. ASSUME NEW t \in Threads, Refused(t) \/ WaitEventFlag(t) \/ Return(t) \/ Kill(t) PROVE FreshInv'
  <2>1. pc'[t] # "prepared" /\ \A u \in Threads \ {t} : pc'[u] = pc[u]
    BY <1>1, <1>4 DEF Refused, WaitEventFlag, Return, Kill
  <2>2. UNCHANGED <<calls, queued, finished>>
    BY <1>4 DEF Refused, WaitEventFlag, Return, Kill
  <2> QED
    BY <1>1, <2>1, <2>2 DEF FreshInv, Held
<1>5. ASSUME NEW r \in queued, Complete(r) PROVE FreshInv'
  BY <1>1, <1>5 DEF Complete, FreshInv, Held
<1>6. ASSUME NEW r \in finished, RequestDone(r) PROVE FreshInv'
  <2>1. \A u \in Threads : pc'[u] = "prepared" => pc[u] = "prepared"
    BY <1>1, <1>6 DEF RequestDone, SetEventFlag
  <2> QED
    BY <1>1, <1>6, <2>1 DEF RequestDone, FreshInv, Held
<1>7. CASE UNCHANGED vars
  BY <1>7 DEF vars, FreshInv, Held
<1> QED
  BY <1>2, <1>3, <1>4, <1>5, <1>6, <1>7 DEF Next

(* One more call and one more request, or one less on both sides, keep the *)
(* count; so do fewer requests.                                            *)
LEMMA CountKept ==
  ASSUME NEW e \in Endpoints, Counted(e),
         NEW x, NEW y,
         \/ /\ Awaiting(e)' = Awaiting(e) \cup {x} /\ x \notin Awaiting(e)
            /\ Coming(e)' = Coming(e) \cup {y}
            /\ Signals(e)' = Signals(e)
         \/ /\ Awaiting(e)' = Awaiting(e) \ {x}
            /\ Coming(e)' = Coming(e) \ {y} /\ y \in Coming(e)
            /\ Signals(e)' = Signals(e)
         \/ /\ Awaiting(e)' = Awaiting(e) \ {x}
            /\ Coming(e)' = Coming(e)
            /\ Signals(e) = 1 /\ Signals(e)' = 0
         \/ /\ Awaiting(e)' = Awaiting(e)
            /\ Coming(e)' = Coming(e) \ {y} /\ y \in Coming(e)
            /\ Signals(e)' \in {Signals(e), 1}
         \/ /\ Awaiting(e)' = Awaiting(e)
            /\ Coming(e)' = Coming(e)
            /\ Signals(e)' = Signals(e)
  PROVE  Counted(e)'
<1> DEFINE A == Awaiting(e)
           C == Coming(e)
           S == Signals(e)
<1>1. /\ IsFiniteSet(A) /\ IsFiniteSet(C)
      /\ Cardinality(A) \in Nat /\ Cardinality(C) \in Nat /\ S \in {0, 1}
      /\ Cardinality(C) + S <= Cardinality(A)
  BY FS_CardinalityType DEF Counted, Signals
<1>2. /\ IsFiniteSet(A \cup {x})
      /\ Cardinality(A \cup {x}) = IF x \in A THEN Cardinality(A) ELSE Cardinality(A) + 1
      /\ IsFiniteSet(A \ {x})
      /\ Cardinality(A \ {x}) = IF x \in A THEN Cardinality(A) - 1 ELSE Cardinality(A)
  BY <1>1, FS_AddElement, FS_RemoveElement, Zenon
<1>3. /\ IsFiniteSet(C \cup {y})
      /\ Cardinality(C \cup {y}) = IF y \in C THEN Cardinality(C) ELSE Cardinality(C) + 1
      /\ IsFiniteSet(C \ {y})
      /\ Cardinality(C \ {y}) = IF y \in C THEN Cardinality(C) - 1 ELSE Cardinality(C)
  BY <1>1, FS_AddElement, FS_RemoveElement, Zenon
<1> HIDE DEF A, C, S
<1>4. \/ A' = A \cup {x} /\ x \notin A /\ C' = C \cup {y} /\ S' = S
      \/ A' = A \ {x} /\ C' = C \ {y} /\ y \in C /\ S' = S
      \/ A' = A \ {x} /\ C' = C /\ S = 1 /\ S' = 0
      \/ A' = A /\ C' = C \ {y} /\ y \in C /\ S' \in {S, 1}
      \/ A' = A /\ C' = C /\ S' = S
  BY DEF A, C, S
<1>5. /\ IsFiniteSet(A') /\ IsFiniteSet(C')
      /\ Cardinality(C') + S' <= Cardinality(A')
  <2>1. CASE A' = A \cup {x} /\ x \notin A /\ C' = C \cup {y} /\ S' = S
    BY <1>1, <1>2, <1>3, <2>1
  <2>2. CASE A' = A \ {x} /\ C' = C \ {y} /\ y \in C /\ S' = S
    BY <1>1, <1>2, <1>3, <2>2
  <2>3. CASE A' = A \ {x} /\ C' = C /\ S = 1 /\ S' = 0
    BY <1>1, <1>2, <2>3
  <2>4. CASE A' = A /\ C' = C \ {y} /\ y \in C /\ S' \in {S, 1}
    BY <1>1, <1>3, <2>4
  <2>5. CASE A' = A /\ C' = C /\ S' = S
    BY <1>1, <2>5
  <2> QED
    BY <1>4, <2>1, <2>2, <2>3, <2>4, <2>5
<1> QED
  BY <1>5 DEF A, C, S, Counted

(* Every step keeps the count of a closed endpoint. *)
LEMMA CountStep ==
  ASSUME TypeOK, UsersInv, FreshInv, NEW e \in Endpoints, Closed(e), Counted(e), [Next]_vars
  PROVE  Counted(e)'
<1>1. /\ pc \in [Threads -> {"idle", "prepared", "submitted", "waiting", "woken"}]
      /\ flag \in [Endpoints -> BOOLEAN]
      /\ Users[e] \subseteq Threads
      /\ \A t \in Threads : request[t].arg \in Endpoints
      /\ \A r \in Held : r.thread \in Threads /\ r.ep \in Endpoints
  BY EndpointAssumption DEF TypeOK, Held, Pointer, Request
<1>2. /\ \A t \in Threads : pc[t] # "idle" => (t \in Users[e] <=> request[t].arg = e)
      /\ \A r \in Held : r.thread \in Users[e] <=> r.ep = e
  BY <1>1 DEF UsersInv, Closed
<1>3. ASSUME UNCHANGED <<Awaiting(e), Coming(e), Signals(e)>> PROVE Counted(e)'
  BY <1>3, CountKept
<1>4. ASSUME NEW t \in Threads, pc[t] \notin {"submitted", "waiting"},
             \E s \in {"idle", "prepared"} : pc' = [pc EXCEPT ![t] = s],
             UNCHANGED <<queued, finished, flag>>
      PROVE  Counted(e)'
  <2>1. Awaiting(e)' = Awaiting(e) /\ Coming(e)' = Coming(e) /\ Signals(e)' = Signals(e)
    BY <1>1, <1>4 DEF Awaiting, Coming, Signals, Held
  <2> QED
    BY <1>3, <2>1
<1>5. ASSUME NEW t \in Threads, NEW f \in Endpoints, Prepare(t, f) PROVE Counted(e)'
  BY <1>4, <1>5 DEF Prepare
<1>6. ASSUME NEW t \in Threads, Submit(t) PROVE Counted(e)'
  <2>1. /\ pc' = [pc EXCEPT ![t] = "submitted"] /\ pc[t] = "prepared"
        /\ Held' = Held \cup {PointerOf(t)}
        /\ PointerOf(t).ep = request[t].arg
        /\ flag' = flag
    BY <1>6 DEF Submit, Held, PointerOf
  <2>2. CASE t \in Users[e]
    <3>1. Awaiting(e)' = Awaiting(e) \cup {t} /\ t \notin Awaiting(e)
      BY <1>1, <2>1, <2>2 DEF Awaiting
    <3>2. Coming(e)' = Coming(e) \cup {PointerOf(t)}
      BY <1>2, <2>1, <2>2 DEF Coming
    <3>3. Signals(e)' = Signals(e)
      BY <2>1 DEF Signals
    <3> QED
      BY <3>1, <3>2, <3>3, CountKept
  <2>3. CASE t \notin Users[e]
    <3>1. Awaiting(e)' = Awaiting(e)
      BY <1>1, <2>1, <2>3 DEF Awaiting
    <3>2. Coming(e)' = Coming(e)
      BY <1>2, <2>1, <2>3 DEF Coming
    <3>3. Signals(e)' = Signals(e)
      BY <2>1 DEF Signals
    <3> QED
      BY <1>3, <3>1, <3>2, <3>3
  <2> QED
    BY <2>2, <2>3
<1>7. ASSUME NEW t \in Threads, Refused(t) \/ Return(t) PROVE Counted(e)'
  BY <1>4, <1>7 DEF Refused, Return
<1>8. ASSUME NEW t \in Threads, WaitEventFlag(t) PROVE Counted(e)'
  <2> DEFINE f == request[t].arg
  <2>1. /\ pc[t] = "submitted"
        /\ pc' = [pc EXCEPT ![t] = IF flag[f] THEN "woken" ELSE "waiting"]
        /\ flag' = [flag EXCEPT ![f] = FALSE]
        /\ Coming(e)' = Coming(e)
        /\ f \in Endpoints
    BY <1>1, <1>8 DEF WaitEventFlag, Coming, Held
  <2>2. CASE t \in Users[e] /\ flag[e]
    <3>1. f = e
      BY <1>2, <2>1, <2>2
    <3>2. Awaiting(e)' = Awaiting(e) \ {t}
      BY <1>1, <2>1, <2>2, <3>1 DEF Awaiting
    <3>3. Signals(e) = 1 /\ Signals(e)' = 0
      BY <1>1, <2>1, <2>2, <3>1 DEF Signals
    <3> QED
      BY <2>1, <3>2, <3>3, CountKept
  <2>3. CASE t \in Users[e] /\ ~flag[e]
    <3>1. f = e
      BY <1>2, <2>1, <2>3
    <3>2. Awaiting(e)' = Awaiting(e) /\ Signals(e)' = Signals(e)
      BY <1>1, <2>1, <2>3, <3>1 DEF Awaiting, Signals
    <3> QED
      BY <1>3, <2>1, <3>2
  <2>4. CASE t \notin Users[e]
    <3>1. f # e
      BY <1>2, <2>1, <2>4
    <3>2. Awaiting(e)' = Awaiting(e) /\ Signals(e)' = Signals(e)
      BY <1>1, <2>1, <2>4, <3>1 DEF Awaiting, Signals
    <3> QED
      BY <1>3, <2>1, <3>2
  <2> QED
    BY <2>2, <2>3, <2>4
<1>9. ASSUME NEW t \in Threads, Kill(t) PROVE Counted(e)'
  <2>1. t \notin Users[e] /\ pc' = [pc EXCEPT ![t] = "idle"]
    BY <1>9 DEF Kill, Closed
  <2>2. Awaiting(e)' = Awaiting(e)
    BY <1>1, <2>1 DEF Awaiting
  <2>3. Coming(e)' = Coming(e) /\ Signals(e)' = Signals(e)
    BY <1>9 DEF Kill, Coming, Signals, Held
  <2> QED
    BY <1>3, <2>2, <2>3
<1>10. ASSUME NEW r \in queued, Complete(r) PROVE Counted(e)'
  <2>1. Held' = Held /\ UNCHANGED <<pc, flag>>
    BY <1>10 DEF Complete, Held
  <2>2. UNCHANGED <<Awaiting(e), Coming(e), Signals(e)>>
    BY <2>1 DEF Awaiting, Coming, Signals
  <2> QED
    BY <1>3, <2>2
<1>11. ASSUME NEW r \in finished, RequestDone(r) PROVE Counted(e)'
  <2>1. r \in Held /\ Held' = Held \ {r}
    BY <1>11 DEF RequestDone, Held, FreshInv
  <2>2. \/ \E f \in Endpoints : (f = e <=> r.ep = e) /\ SetEventFlag(f)
        \/ UNCHANGED <<flag, pc>>
    <3>1. \/ pc[r.thread] # "idle" /\ SetEventFlag(request[r.thread].arg)
          \/ SetEventFlag(r.ep)
          \/ UNCHANGED <<flag, pc>>
      BY <1>11 DEF RequestDone
    <3> QED
      BY <1>1, <1>2, <2>1, <3>1
  <2>3. Coming(e)' = IF r.ep = e THEN Coming(e) \ {r} ELSE Coming(e)
    BY <2>1 DEF Coming
  <2>4. r.ep = e => r \in Coming(e)
    BY <2>1 DEF Coming
  <2>5. CASE UNCHANGED <<flag, pc>>
    <3>1. Awaiting(e)' = Awaiting(e) /\ Signals(e)' = Signals(e)
      BY <2>5 DEF Awaiting, Signals
    <3> QED
      BY <2>3, <2>4, <3>1, CountKept
  <2>6. ASSUME NEW f \in Endpoints, f = e <=> r.ep = e, Waiters(f) = {},
               flag' = [flag EXCEPT ![f] = TRUE], UNCHANGED pc
        PROVE  Counted(e)'
    <3>1. Awaiting(e)' = Awaiting(e)
      BY <2>6 DEF Awaiting
    <3>2. CASE f = e
      <4>1. Signals(e)' = 1
        BY <1>1, <2>6, <3>2 DEF Signals
      <4> QED
        BY <2>3, <2>4, <2>6, <3>1, <3>2, <4>1, CountKept
    <3>3. CASE f # e
      <4>1. Signals(e)' = Signals(e)
        BY <1>1, <2>6, <3>3 DEF Signals
      <4> QED
        BY <1>3, <2>3, <2>6, <3>1, <3>3, <4>1
    <3> QED
      BY <3>2, <3>3
  <2>7. ASSUME NEW f \in Endpoints, f = e <=> r.ep = e,
               NEW t \in Waiters(f), pc' = [pc EXCEPT ![t] = "woken"], UNCHANGED flag
        PROVE  Counted(e)'
    <3>1. /\ t \in Threads /\ pc[t] = "waiting" /\ request[t].arg = f
          /\ Signals(e)' = Signals(e)
      BY <2>7 DEF Waiters, Signals
    <3>2. t \in Users[e] <=> f = e
      BY <1>2, <3>1
    <3>3. CASE f = e
      <4>1. Awaiting(e)' = Awaiting(e) \ {t}
        BY <1>1, <2>7, <3>1 DEF Awaiting
      <4> QED
        BY <2>3, <2>4, <2>7, <3>1, <3>3, <4>1, CountKept
    <3>4. CASE f # e
      <4>1. Awaiting(e)' = Awaiting(e)
        BY <1>1, <2>7, <3>1, <3>2, <3>4 DEF Awaiting
      <4> QED
        BY <1>3, <2>3, <2>7, <3>1, <3>4, <4>1
    <3> QED
      BY <3>3, <3>4
  <2> QED
    BY <2>2, <2>5, <2>6, <2>7 DEF SetEventFlag
<1>12. CASE UNCHANGED vars
  <2>1. UNCHANGED <<Awaiting(e), Coming(e), Signals(e)>>
    BY <1>12 DEF vars, Awaiting, Coming, Signals, Held
  <2> QED
    BY <1>3, <2>1
<1> QED
  BY <1>5, <1>6, <1>7, <1>8, <1>9, <1>10, <1>11, <1>12 DEF Next

(* The count is an invariant. *)
THEOREM CountInvariant == Spec => []CountInv
<1>1. Init => CountInv
  <2> SUFFICES ASSUME Init PROVE CountInv
    OBVIOUS
  <2>1. FreshInv
    BY DEF Init, FreshInv, Held
  <2>2. ASSUME NEW e \in Endpoints PROVE Counted(e)
    <3>1. Users[e] \subseteq Threads
      BY EndpointAssumption
    <3>2. Awaiting(e) = {} /\ Coming(e) = {} /\ Signals(e) = 0
      BY <3>1 DEF Init, Awaiting, Coming, Signals, Held
    <3> QED
      BY <3>2, FS_EmptySet DEF Counted
  <2> QED
    BY <2>1, <2>2 DEF CountInv
<1>2. TypeOK /\ SafeInv /\ CountInv /\ [Next]_vars => CountInv'
  <2> SUFFICES ASSUME TypeOK, UsersInv, CountInv, [Next]_vars PROVE CountInv'
    BY DEF SafeInv
  <2>1. FreshInv'
    BY FreshStep DEF CountInv
  <2>2. ASSUME NEW e \in Endpoints, Closed(e) PROVE Counted(e)'
    BY <2>2, CountStep DEF CountInv
  <2>3. \A e \in Endpoints : Closed(e)' => Closed(e)
    BY DEF Closed
  <2> QED
    BY <2>1, <2>2, <2>3 DEF CountInv
<1>3. QED
  BY <1>1, <1>2, TypeCorrect, SafeInvariant, PTL DEF Spec

(* When the last call on a closed endpoint has returned, neither a signal  *)
(* nor a request is left for the next one, however the threads that shared *)
(* it took each other's signals.                                           *)
THEOREM Quiescent == Spec => []QuiescentIsClean
<1>1. CountInv => QuiescentIsClean
  <2> SUFFICES ASSUME CountInv, NEW e \in Endpoints, Closed(e), \A t \in Users[e] : pc[t] = "idle"
               PROVE  ~flag[e] /\ \A r \in Held : r.ep # e
    BY DEF QuiescentIsClean
  <2>1. Counted(e)
    BY DEF CountInv
  <2>2. Awaiting(e) = {}
    BY DEF Awaiting
  <2>3. Cardinality(Coming(e)) = 0 /\ Signals(e) = 0
    <3>1. Cardinality(Coming(e)) \in Nat /\ Cardinality(Awaiting(e)) = 0
      BY <2>1, <2>2, FS_CardinalityType, FS_EmptySet DEF Counted
    <3> QED
      BY <2>1, <3>1 DEF Counted, Signals
  <2>4. Coming(e) = {}
    BY <2>1, <2>3, FS_EmptySet DEF Counted
  <2> QED
    BY <2>3, <2>4 DEF Coming, Signals
<1>2. QED
  BY <1>1, CountInvariant, PTL

(* On a closed endpoint a call leaves its request to the bus only on the   *)
(* signal of a request whose own call still awaits one.  The calls that    *)
(* are not overtaken are as many as their requests, which are not          *)
(* deserted: what the count leaves for the others bounds the deserted ones *)
(* by the overtaken ones.                                                  *)
THEOREM EarlyWakesMatched == Spec => []EarlyWakesAreMatched
<1>1. TypeOK /\ UsersInv /\ CountInv => EarlyWakesAreMatched
  <2> SUFFICES ASSUME TypeOK, UsersInv, CountInv, NEW e \in Endpoints, Closed(e)
               PROVE  Cardinality(Deserted(e)) <= Cardinality(Overtaken(e))
    BY DEF EarlyWakesAreMatched
  <2> DEFINE Kept == Awaiting(e) \ Overtaken(e)
             Due == Coming(e) \ Deserted(e)
             own == [t \in Kept |-> PointerOf(t)]
  <2>1. IsFiniteSet(Awaiting(e)) /\ IsFiniteSet(Coming(e))
        /\ Cardinality(Coming(e)) + Signals(e) <= Cardinality(Awaiting(e))
    BY DEF CountInv, Counted
  <2>2. own \in Injection(Kept, Due)
    <3>1. ASSUME NEW t \in Kept PROVE PointerOf(t) \in Due
      <4>1. t \in Threads /\ t \in Users[e] /\ pc[t] # "idle"
            /\ t \in Awaiting(e) /\ PointerOf(t) \in Held
        BY EndpointAssumption DEF Awaiting, Overtaken
      <4>2. request[t].arg \in Endpoints
        BY <4>1 DEF TypeOK, Request
      <4>3. request[t].arg = e
        BY <4>1, <4>2 DEF UsersInv, Closed
      <4> QED
        BY <4>1, <4>3 DEF Coming, Deserted, PointerOf
    <3>2. ASSUME NEW t \in Kept, NEW u \in Kept, own[t] = own[u] PROVE t = u
      BY <3>2 DEF PointerOf
    <3> QED
      BY <3>1, <3>2 DEF Injection, IsInjective
  <2>3. /\ IsFiniteSet(Kept) /\ IsFiniteSet(Due) /\ Cardinality(Kept) <= Cardinality(Due)
        /\ Cardinality(Kept) \in Nat /\ Cardinality(Due) \in Nat
    <3>1. IsFiniteSet(Due)
      BY <2>1, FS_Subset
    <3> HIDE DEF Kept, Due, own
    <3> QED
      BY <2>2, <3>1, FS_Injection, FS_CardinalityType
  <2>4. Cardinality(Deserted(e)) = Cardinality(Coming(e)) - Cardinality(Due)
    <3>1. Coming(e) \ Due = Deserted(e) /\ Coming(e) \cap Due = Due
      BY DEF Deserted
    <3> QED
      BY <2>1, <3>1, FS_Difference
  <2>5. Cardinality(Overtaken(e)) = Cardinality(Awaiting(e)) - Cardinality(Kept)
    <3>1. Awaiting(e) \ Kept = Overtaken(e) /\ Awaiting(e) \cap Kept = Kept
      BY DEF Overtaken
    <3> QED
      BY <2>1, <3>1, FS_Difference
  <2>6. Cardinality(Coming(e)) <= Cardinality(Awaiting(e))
        /\ Cardinality(Coming(e)) \in Nat /\ Cardinality(Awaiting(e)) \in Nat
    BY <2>1, FS_CardinalityType DEF Signals
  <2> HIDE DEF Kept, Due
  <2> QED
    BY <2>3, <2>4, <2>5, <2>6
<1>2. QED
  BY <1>1, TypeCorrect, SafeInvariant, CountInvariant, PTL DEF SafeInv
=============================================================================
