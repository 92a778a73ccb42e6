----------------------------- MODULE TktUsbSystem -----------------------------
(***************************************************************************)
(* The manager and its endpoints together: clients look endpoints up by    *)
(* name in the table that TktUsbManager builds, and call on what they got, *)
(* as in UsbEndpoint, while the bus comes up, runs, and is taken down by   *)
(* module_stop, which neither waits for calls in flight nor ends them, and *)
(* does not look whether a layer is down when it turns to the next.        *)
(*                                                                         *)
(* What the bus does with requests is external: it refuses them while the  *)
(* driver is not registered, serves them while USB is active, and cancels  *)
(* what it holds once the driver is stopped.                               *)
(***************************************************************************)
EXTENDS TktUsbManager

CONSTANTS
  Asks,         (* Asks[c]: the names that client c looks up               *)
  ErrorCodes,   (* as in UsbEndpoint                                       *)
  MaxSize,
  MaxCalls

VARIABLES pc, calls, request, queued, finished, flag, outcome, returned

managerVars == <<step, config, built, table, driver, eventFlags, usb, handle>>
callVars == <<pc, calls, request, queued, finished, flag, outcome, returned>>
systemVars == <<managerVars, callVars>>

ASSUME SystemAssumption ==
  /\ Asks \in [Clients -> SUBSET Names]
  /\ ErrorCodes \subseteq Int \ {0}
  /\ MaxSize \in Nat
  /\ MaxCalls \in Nat

-----------------------------------------------------------------------------
(* An endpoint as a client holds it: the entry, as a TktUsbEndpointR or,   *)
(* with TRUE, a TktUsbEndpointW.  Its event flag is that of the entry.     *)
Pointers == (1..MaxUserEndpoints) \X BOOLEAN

Call == INSTANCE UsbEndpoint WITH
  Threads <- Clients,
  Endpoints <- Pointers,
  Users <- [e \in Pointers |-> Clients],
  Writable <- {e \in Pointers : e[2]},
  Killable <- {}

SystemInit ==
  /\ Init
  /\ Call!Init
  /\ request = [c \in Clients |-> [arg |-> <<1, FALSE>>, retcode |-> 0, recvsize |-> 0]]

(* module_start and module_stop. *)
ManagerStep ==
  /\ \/ LoadConfigFile
     \/ CreateEndpoint \/ CreateEndpointFails \/ Publish
     \/ InitializeDriver \/ BindEndpoints
     \/ Register \/ StartBus \/ StartDriver \/ Activate
  /\ UNCHANGED callVars

StopStep ==
  /\ Deactivate \/ StopDriver \/ StopBus \/ Unregister
  /\ UNCHANGED callVars

(* A client looks up and calls in one thread, and calls on what it got.    *)
LookupStep(c) ==
  /\ pc[c] = "idle"
  /\ \E name \in Asks[c], write \in BOOLEAN : Lookup(c, name, write)
  /\ UNCHANGED callVars

Prepare(c) ==
  /\ step \in {"returned", "stop", "stopBus", "unregister"}
  /\ handle[c].entry # 0
  /\ Call!Prepare(c, <<handle[c].entry, handle[c].write>>)
  /\ UNCHANGED managerVars

Submit(c) ==
  /\ usb["registered"]
  /\ Call!Submit(c)
  /\ UNCHANGED managerVars

Refused(c) ==
  /\ Call!Refused(c)
  /\ UNCHANGED managerVars

WaitEventFlag(c) ==
  /\ Call!WaitEventFlag(c)
  /\ UNCHANGED managerVars

Return(c) ==
  /\ Call!Return(c)
  /\ UNCHANGED managerVars

(* A transfer takes place, or the bus gives up on it... *)
Complete(r) ==
  /\ usb["active"]
  /\ Call!Complete(r)
  /\ UNCHANGED managerVars

(* ... and cancels what is left once the driver is stopped. *)
Cancel(r) ==
  /\ ~usb["started"]
  /\ Call!Complete(r)
  /\ outcome'[r.thread].retcode # 0
  /\ UNCHANGED managerVars

RequestDone(r) ==
  /\ Call!RequestDone(r)
  /\ UNCHANGED managerVars

ClientStep(c) == Submit(c) \/ Refused(c) \/ WaitEventFlag(c) \/ Return(c)

SystemNext ==
  \/ ManagerStep \/ StopStep
  \/ \E c \in Clients :
       LookupStep(c) \/ Prepare(c) \/ Submit(c) \/ Refused(c) \/ WaitEventFlag(c) \/ Return(c)
  \/ \E r \in queued : Complete(r) \/ Cancel(r)
  \/ \E r \in finished : RequestDone(r)

(* The kernel schedules every thread, module_stop goes on once it has      *)
(* begun, and the bus cancels what it must and runs func, for each client. *)
SystemSpec ==
  /\ SystemInit /\ [][SystemNext]_systemVars
  /\ WF_systemVars(step # "returned" /\ StopStep)
  /\ \A c \in Clients :
       /\ WF_systemVars(ClientStep(c))
       /\ WF_systemVars(\E r \in queued : r.thread = c /\ Cancel(r))
       /\ WF_systemVars(\E r \in finished : r.thread = c /\ RequestDone(r))
-----------------------------------------------------------------------------
(* Clients that ask only for names that no other client's name is cut to.  *)
SafeClients ==
  {c \in Clients : \A d \in Clients \ {c} :
     \A m \in Asks[c], n \in Asks[d] : Stored(m) # Stored(n)}

(* A request that the bus holds goes to the place in usbDriver of the      *)
(* endpoint that the file lists under the name the client asked for, cut   *)
(* to the field, and it is sent as a transfer in the direction that the    *)
(* host was told of.                                                       *)
RequestsReachTheirEndpoint ==
  \A r \in Call!Held :
    LET entry   == r.ep[1]
        address == driver.hi.endpoints[table[entry].usbEndpoint]
    IN  /\ entry \in DOMAIN table
        /\ table[entry].usbEndpoint \in DOMAIN driver.hi.endpoints
        /\ driver.endpnum[table[entry].usbEndpoint] = Number(address)
        /\ IsIn(address) = r.ep[2]
        /\ address = config[entry].address
        /\ \E name \in Asks[r.thread] : name = Stored(config[entry].name)

(* Clients whose names differ within the field do not disturb each other:  *)
(* one is woken only by the end of its own transfer, and reads its fields. *)
WokenByOwnTransfer ==
  \A c \in SafeClients :
    pc[c] = "woken" =>
      /\ outcome[c].done
      /\ request[c].retcode = outcome[c].retcode
      /\ request[c].recvsize = outcome[c].recvsize

(* When module_stop has begun, every call in flight of such a client comes *)
(* back, since its event flag outlives the driver, unless the kernel       *)
(* refuses to stop the driver.  The other calls of module_stop may fail as *)
(* they like.                                                              *)
StopReturnsCalls ==
  \A c \in SafeClients :
    step = "stop" /\ pc[c] # "idle"
      ~> pc[c] = "idle" \/ (step = "stopped" /\ usb["started"])
=============================================================================
