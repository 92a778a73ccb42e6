---------------------------- MODULE TktUsbManager ----------------------------
(***************************************************************************)
(* src/tktusbmanager/main.c with usb/endpoints.c, usb/driver.c, usb/usb.c  *)
(* and the initialisation in usb/endpoint.c: module_start builds the table *)
(* of endpoints from the configuration, describes it to the USB bus, and   *)
(* brings the bus up one layer at a time; any of its calls of the kernel   *)
(* may fail, and it then returns where it stands.  module_stop tries to    *)
(* take down every layer, whatever module_start left, and goes on when the *)
(* kernel refuses.  Client plugins look endpoints up by name once          *)
(* module_start has returned: the loader starts them later.                *)
(*                                                                         *)
(* The kernel's USB functions and event flags are external; nothing is     *)
(* assumed of the order in which the USB functions have to be called.      *)
(***************************************************************************)
EXTENDS Integers, Sequences

CONSTANTS
  Clients,        (* threads of the client plugins                         *)
  Names,          (* the names a client may ask for                        *)
  Configs,        (* the lists of endpoints tktusbmanager.cfg may hold     *)
  MaxNameSize     (* MAX_ENDPOINT_NAME_SIZE                                *)

Byte == 0..255

MaxUserEndpoints == 8

(* parson refuses a key that is there already, so that names differ.  The  *)
(* code does not check the length of the list against the room there is:   *)
(* the configurations considered are those that fit.                       *)
ASSUME ConfigAssumption ==
  /\ MaxNameSize \in Nat
  /\ Configs \subseteq Seq([name : Seq(Byte), address : Byte])
  /\ \A c \in Configs : \A i, j \in DOMAIN c : c[i].name = c[j].name => i = j
  /\ \A c \in Configs : Len(c) <= MaxUserEndpoints
  /\ Names \subseteq Seq(Byte)

VARIABLES
  step,           (* where module_start or module_stop stands              *)
  config,         (* the loaded configuration                              *)
  built,          (* usbEndpoints_, the table initializeUsbEndpoints fills *)
  table,          (* usbEndpoints, the table clients are given pointers to *)
  driver,         (* usbDriver                                             *)
  eventFlags,     (* the event flags the kernel holds, numbered from 1     *)
  usb,            (* the layers the USB functions have brought up          *)
  handle          (* what each client's latest lookup asked for and got    *)

vars == <<step, config, built, table, driver, eventFlags, usb, handle>>

-----------------------------------------------------------------------------
(* The bit USB_ENDPOINT_IN of an address, and its low seven bits. *)
IsIn(address) == address \div 128 = 1
Number(address) == address % 128

(* Mutant: the first endpoint taken for the control endpoint's slot. *)
SlotFromZero(i) == i - 1

(* An entry's usbEndpoint before it is bound. *)
Null == -1

(* The place in usbDriver.usbEndpoints of entry i of the table: place 0    *)
(* holds the control endpoint.                                             *)
Slot(i) == i

(* Mutants: room kept for a closing NUL; a longer name left as it is. *)
StoredWithNul(name) ==
  IF Len(name) < MaxNameSize THEN name ELSE SubSeq(name, 1, MaxNameSize - 1)
StoredWhole(name) == name

(* The name field holds MaxNameSize bytes: a longer name is cut. *)
Stored(name) ==
  IF Len(name) <= MaxNameSize THEN name ELSE SubSeq(name, 1, MaxNameSize)

(* Mutant: only the bytes asked for are compared. *)
EqualsPrefix(entry, name) ==
  Len(name) <= Len(entry.name) /\ SubSeq(entry.name, 1, Len(name)) = name

EqualsName(entry, name) == entry.name = name

(* isReadableTktUsbEndpoint and isWritableTktUsbEndpoint. *)
IsEnabled(entry, write) == IsIn(entry.address) = write

(* The first entry with the name, unless its direction is the other one; 0 *)
(* stands for NULL.                                                        *)
GetEndpoint(name, write) ==
  LET found == {i \in DOMAIN table : EqualsName(table[i], name)} IN
  IF \E i \in found : IsEnabled(table[i], write) /\ \A j \in found : i <= j
  THEN CHOOSE i \in found : \A j \in found : i <= j
  ELSE 0

(* A layer each that sceUsbbdRegister, sceUsbStart of the bus driver,      *)
(* sceUsbStart of this driver and sceUsbActivate bring up.                 *)
Layers == {"registered", "bus", "started", "active"}

(* The number of each endpoint past the control endpoint. *)
EndpointNumbers == [i \in DOMAIN table |-> Number(table[i].address)]

(* The descriptors of the endpoints; those for the two speeds differ only  *)
(* in the packet size, which is left out.                                  *)
EndpointDescriptors == [i \in DOMAIN table |-> table[i].address]

(* The lengths in bytes of the descriptors that follow one another. *)
ConfigLength == 9
InterfaceLength == 9
EndpointLength == 7

(* What the host is told of the configuration and its one interface. *)
UsbData ==
  [totalLength |-> ConfigLength + InterfaceLength + Len(table) * EndpointLength,
   numEndpoints |-> Len(table),
   endpoints |-> EndpointDescriptors]

(* The usbDriver that nothing has been written to: all zeroes. *)
NoData == [totalLength |-> 0, numEndpoints |-> 0, endpoints |-> <<>>]
NoDriver == [count |-> 0, endpnum |-> <<>>, hi |-> NoData, full |-> NoData]

Init ==
  /\ step = "load"
  /\ config = <<>>
  /\ built = <<>>
  /\ table = <<>>
  /\ driver = NoDriver
  /\ eventFlags = 0
  /\ usb = [l \in Layers |-> FALSE]
  /\ handle = [c \in Clients |-> [name |-> <<>>, write |-> FALSE, entry |-> 0]]

-----------------------------------------------------------------------------
(* The file cannot be read, is no JSON or names no endpoints; or it does.  *)
LoadConfigFile ==
  /\ step = "load"
  /\ \/ step' = "returned" /\ UNCHANGED config
     \/ step' = "create" /\ config' \in Configs
  /\ UNCHANGED <<built, table, driver, eventFlags, usb, handle>>

NewEntry(e) ==
  [name |-> Stored(e.name), address |-> e.address,
   flag |-> eventFlags + 1, usbEndpoint |-> Null]

(* initializeTktUsbEndpoint for the next endpoint: one event flag each.    *)
(* The entry gets its usbEndpoint later.                                   *)
CreateEndpoint ==
  /\ step = "create"
  /\ Len(built) < Len(config)
  /\ built' = Append(built, NewEntry(config[Len(built) + 1]))
  /\ eventFlags' = eventFlags + 1
  /\ UNCHANGED <<step, config, table, driver, usb, handle>>

(* Mutant: the table is handed over as far as it got. *)
PublishOnFailure ==
  /\ step = "create"
  /\ Len(built) < Len(config)
  /\ step' = "returned"
  /\ table' = built
  /\ UNCHANGED <<config, built, driver, eventFlags, usb, handle>>

(* The kernel has no event flag left: module_start gives up, and the event *)
(* flags of the entries before this one stay with the kernel.              *)
CreateEndpointFails ==
  /\ step = "create"
  /\ Len(built) < Len(config)
  /\ step' = "returned"
  /\ UNCHANGED <<config, built, table, driver, eventFlags, usb, handle>>

(* The memcpy at the end of initializeUsbEndpoints. *)
Publish ==
  /\ step = "create"
  /\ Len(built) = Len(config)
  /\ table' = built
  /\ step' = "describe"
  /\ UNCHANGED <<config, built, driver, eventFlags, usb, handle>>

(* initializeTktUsbDriver: usbEndpoints of the driver past the control     *)
(* endpoint, and the descriptors the host is sent at either speed.         *)
InitializeDriver ==
  /\ step = "describe"
  /\ driver' = [count |-> Len(table) + 1, endpnum |-> EndpointNumbers,
                hi |-> UsbData, full |-> UsbData]
  /\ step' = "bind"
  /\ UNCHANGED <<config, built, table, eventFlags, usb, handle>>

(* initializeTktUsbEndpoints. *)
BindEndpoints ==
  /\ step = "bind"
  /\ table' = [i \in DOMAIN table |-> [table[i] EXCEPT !.usbEndpoint = Slot(i)]]
  /\ step' = "register"
  /\ UNCHANGED <<config, built, driver, eventFlags, usb, handle>>

(* One of the calls of registerAndStartUsb, none of which is undone when a *)
(* later one fails.                                                        *)
BringUp(layer, from, to) ==
  /\ step = from
  /\ \/ usb' = [usb EXCEPT ![layer] = TRUE] /\ step' = to
     \/ step' = "returned" /\ UNCHANGED usb
  /\ UNCHANGED <<config, built, table, driver, eventFlags, handle>>

(* Mutant: the result of starting the bus is not looked at. *)
StartBusUnchecked ==
  /\ step = "startBus"
  /\ usb' = usb \/ usb' = [usb EXCEPT !["bus"] = TRUE]
  /\ step' = "start"
  /\ UNCHANGED <<config, built, table, driver, eventFlags, handle>>

Register == BringUp("registered", "register", "startBus")
StartBus == BringUp("bus", "startBus", "start")
StartDriver == BringUp("started", "start", "activate")
Activate == BringUp("active", "activate", "returned")

(* One of the calls of stopUsb: the layer is down, or the call has failed  *)
(* and left it as it was.  The result is not looked at.                    *)
TakeDown(layer, from, to) ==
  /\ step = from
  /\ \/ usb' = [usb EXCEPT ![layer] = FALSE]
     \/ UNCHANGED usb
  /\ step' = to
  /\ UNCHANGED <<config, built, table, driver, eventFlags, handle>>

Deactivate == TakeDown("active", "returned", "stop")
StopDriver == TakeDown("started", "stop", "stopBus")
StopBus == TakeDown("bus", "stopBus", "unregister")
Unregister == TakeDown("registered", "unregister", "stopped")

(* tktUsbGetEndpointR and tktUsbGetEndpointW. *)
Lookup(c, name, write) ==
  /\ step \in {"returned", "stop", "stopBus", "unregister"}
  /\ handle' = [handle EXCEPT ![c] = [name |-> name, write |-> write,
                                     entry |-> GetEndpoint(name, write)]]
  /\ UNCHANGED <<step, config, built, table, driver, eventFlags, usb>>

-----------------------------------------------------------------------------
Next ==
  \/ LoadConfigFile
  \/ CreateEndpoint \/ CreateEndpointFails \/ Publish
  \/ InitializeDriver \/ BindEndpoints
  \/ Register \/ StartBus \/ StartDriver \/ Activate
  \/ Deactivate \/ StopDriver \/ StopBus \/ Unregister
  \/ \E c \in Clients, name \in Names, write \in BOOLEAN : Lookup(c, name, write)

Spec == Init /\ [][Next]_vars
-----------------------------------------------------------------------------
Entry == [name : {n \in Seq(Byte) : Len(n) <= MaxNameSize}, address : Byte,
          flag : Nat \ {0}, usbEndpoint : {Null} \cup Nat]

Data == [totalLength : Nat, numEndpoints : Nat, endpoints : Seq(Byte)]

(* Every variable has its type: above all, no name overruns its field in   *)
(* the endpoint.                                                           *)
TypeOK ==
  /\ step \in {"load", "create", "describe", "bind", "register", "startBus", "start",
               "activate", "returned", "stop", "stopBus", "unregister", "stopped"}
  /\ config \in Configs \cup {<<>>}
  /\ built \in Seq(Entry)
  /\ table \in Seq(Entry)
  /\ driver \in [count : Nat, endpnum : Seq(0..127), hi : Data, full : Data]
  /\ eventFlags \in Nat
  /\ usb \in [Layers -> BOOLEAN]
  /\ handle \in [Clients -> [name : Seq(Byte), write : BOOLEAN, entry : Nat]]

(* Clients find a whole table or an empty one: when the kernel runs out of *)
(* event flags midway no endpoint is usable, and of the endpoints that are *)
(* each has what the file says of it and an event flag no other one has.   *)
WholeTable ==
  table # <<>> =>
    /\ Len(table) = Len(config)
    /\ \A i \in DOMAIN table :
         /\ table[i].name = Stored(config[i].name)
         /\ table[i].address = config[i].address
         /\ table[i].flag <= eventFlags
         /\ \A j \in DOMAIN table : table[i].flag = table[j].flag => i = j

(* While the bus knows the driver, what the host is told at either speed   *)
(* is what the requests of the table's endpoints go to: the place each is  *)
(* bound to has the number and the descriptors of the address in the file. *)
AnnouncedIsServed ==
  usb["registered"] =>
    /\ Len(table) = Len(config) /\ driver.count = Len(config) + 1
    /\ \A data \in {driver.hi, driver.full} :
         /\ data.numEndpoints = Len(config)
         /\ data.totalLength = ConfigLength + InterfaceLength + Len(config) * EndpointLength
    /\ \A i \in DOMAIN table :
         LET u == table[i].usbEndpoint IN
         /\ u \in 1..Len(config)
         /\ driver.endpnum[u] = Number(config[i].address)
         /\ driver.hi.endpoints[u] = config[i].address
         /\ driver.full.endpoints[u] = config[i].address

(* A name that fits its field, and that no other name is cut to, leads its *)
(* client to the endpoint the file gives it, at any time until the module  *)
(* is gone and even when the USB bus never came up.                        *)
Reachable ==
  table # <<>> =>
    \A i \in DOMAIN config :
      /\ Len(config[i].name) <= MaxNameSize
      /\ \A j \in DOMAIN config :
           Stored(config[j].name) = Stored(config[i].name) => i = j
      => GetEndpoint(config[i].name, IsIn(config[i].address)) = i

(* A client that was given an endpoint was given one that the file lists   *)
(* under the name it asked for, or a longer one cut to that name, and that *)
(* transfers in the direction it asked for.                                *)
HandleHonest ==
  \A c \in Clients :
    LET h == handle[c] IN
    h.entry # 0 =>
      /\ h.entry \in DOMAIN config
      /\ Stored(config[h.entry].name) = h.name
      /\ IsIn(config[h.entry].address) = h.write

(* Whichever calls fail, no layer is brought up before those it rests on,  *)
(* and none is pulled from under another that module_stop has not tried to *)
(* take down before: USB is active without the driver started, and the     *)
(* driver started without the bus or its registration, only when the call  *)
(* that was to stop it has been refused.                                   *)
LayersNested ==
  /\ usb["active"] => usb["started"] \/ step \in {"stopBus", "unregister", "stopped"}
  /\ usb["started"] => usb["bus"] \/ step \in {"unregister", "stopped"}
  /\ usb["started"] => usb["registered"] \/ step = "stopped"
=============================================================================
