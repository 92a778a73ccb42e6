-------------------------- MODULE TktUsbSystemProofs --------------------------
(***************************************************************************)
(* Proofs about TktUsbManager and TktUsbSystem, for every configuration    *)
(* that fits, any clients and names, and every call of the kernel that may *)
(* fail.  First those about the manager alone, whose behaviours are        *)
(* Spec; then those about the whole, whose behaviours are SystemSpec: the  *)
(* manager and the endpoints keep, together, what is proved of each, and   *)
(* from both follows what neither could promise alone.                     *)
(***************************************************************************)
EXTENDS TktUsbSystem, SequenceTheorems, TLAPS

-----------------------------------------------------------------------------
(* The manager. *)

(* The steps of module_start from the publication of the table on.         *)
Starting == {"describe", "bind", "register", "startBus", "start", "activate"}
Stopping == {"returned", "stop", "stopBus", "unregister", "stopped"}

(* Entry i of the configuration is faithfully entry i of tab. *)
Copied(tab, i) ==
  /\ tab[i].name = Stored(config[i].name)
  /\ tab[i].address = config[i].address
  /\ tab[i].flag = i

(* The local table agrees with the configuration as far as it got.         *)
BuiltInv ==
  /\ step = "load" => built = <<>>
  /\ step \in {"load", "create"} => eventFlags = Len(built) /\ table = <<>>
  /\ Len(built) <= Len(config) /\ Len(built) <= eventFlags
  /\ \A i \in DOMAIN built : Copied(built, i)

(* The published table agrees with all of it. *)
TableInv ==
  /\ step \in Starting \/ usb["registered"] => Len(table) = Len(config)
  /\ table # <<>> =>
       /\ Len(table) = Len(config) /\ Len(table) <= eventFlags
       /\ \A i \in DOMAIN table : Copied(table, i)

(* The driver is described before it is bound, and bound before the bus    *)
(* comes to know it.                                                       *)
DriverInv ==
  /\ step \in Starting \ {"describe"} \/ usb["registered"] =>
       /\ driver.count = Len(config) + 1
       /\ \A data \in {driver.hi, driver.full} :
            /\ data.numEndpoints = Len(config)
            /\ data.totalLength = ConfigLength + InterfaceLength + Len(config) * EndpointLength
            /\ DOMAIN data.endpoints = DOMAIN table
            /\ \A i \in DOMAIN table : data.endpoints[i] = config[i].address
       /\ \A i \in DOMAIN table : driver.endpnum[i] = Number(config[i].address)
  /\ step \in Starting \ {"describe", "bind"} \/ usb["registered"] =>
       \A i \in DOMAIN table : table[i].usbEndpoint = i

(* The layers that may be up at each step of module_start, and the order   *)
(* of them that module_stop keeps to although its calls may fail.          *)
LayersInv ==
  /\ step \in {"load", "create", "describe", "bind", "register"} =>
       \A l \in Layers : ~usb[l]
  /\ step \in {"startBus", "start", "activate"} => usb["registered"]
  /\ step \in {"start", "activate"} => usb["bus"]
  /\ step = "activate" => usb["started"]
  /\ step \in {"startBus", "start"} => ~usb["started"]
  /\ step \in Starting => ~usb["active"]
  /\ LayersNested

(* No lookup is answered before module_start returns. *)
HandleInv ==
  /\ step \notin Stopping => \A c \in Clients : handle[c].entry = 0
  /\ HandleHonest

ManagerInv == BuiltInv /\ TableInv /\ DriverInv /\ LayersInv /\ HandleInv

-----------------------------------------------------------------------------
(* A function on 1..n is a sequence of length n. *)
LEMMA MadeSeq ==
  ASSUME NEW S, NEW n \in Nat, NEW f \in [1..n -> S]
  PROVE  f \in Seq(S) /\ Len(f) = n
  BY SeqDef

(* The low bits of an address are a number of seven bits. *)
LEMMA NumberType == \A address \in Byte : Number(address) \in 0..127
  BY DEF Byte, Number

(* A stored name fits its field. *)
LEMMA StoredType ==
  ASSUME NEW name \in Seq(Byte)
  PROVE  Stored(name) \in Seq(Byte) /\ Len(Stored(name)) <= MaxNameSize
<1>1. CASE Len(name) <= MaxNameSize
  BY <1>1 DEF Stored
<1>2. CASE ~(Len(name) <= MaxNameSize)
  <2>1. MaxNameSize \in Nat /\ Len(name) \in Nat /\ MaxNameSize <= Len(name)
    BY <1>2, ConfigAssumption
  <2>2. SubSeq(name, 1, MaxNameSize) \in Seq(Byte)
        /\ Len(SubSeq(name, 1, MaxNameSize)) = MaxNameSize
    BY <2>1
  <2>3. QED
    BY <1>2, <2>1, <2>2 DEF Stored
<1>3. QED
  BY <1>1, <1>2

(* A configuration is a sequence of endpoints. *)
LEMMA ConfigType ==
  ASSUME NEW c \in Configs \cup {<<>>}
  PROVE  c \in Seq([name : Seq(Byte), address : Byte])
<1>1. CASE c \in Configs
  BY <1>1, ConfigAssumption
<1>2. CASE c = <<>>
  BY <1>2, EmptySeq
<1>3. QED
  BY <1>1, <1>2

(* The indices of the sequences, and what they hold.                       *)
LEMMA Shapes ==
  ASSUME TypeOK
  PROVE  /\ DOMAIN config = 1..Len(config) /\ Len(config) \in Nat
         /\ \A i \in DOMAIN config : config[i] \in [name : Seq(Byte), address : Byte]
         /\ DOMAIN built = 1..Len(built) /\ Len(built) \in Nat
         /\ \A i \in DOMAIN built : built[i] \in Entry
         /\ DOMAIN table = 1..Len(table) /\ Len(table) \in Nat
         /\ \A i \in DOMAIN table : table[i] \in Entry
<1>1. config \in Seq([name : Seq(Byte), address : Byte])
  BY ConfigType DEF TypeOK
<1>2. built \in Seq(Entry) /\ table \in Seq(Entry)
  BY DEF TypeOK
<1>3. QED
  BY <1>1, <1>2, LenProperties, ElementOfSeq

(* A lookup gives NULL or an entry with the name and the direction.        *)
LEMMA LookupSound ==
  ASSUME TypeOK, NEW name \in Names, NEW write \in BOOLEAN, GetEndpoint(name, write) # 0
  PROVE  LET i == GetEndpoint(name, write) IN
         /\ i \in DOMAIN table
         /\ table[i].name = name
         /\ IsIn(table[i].address) = write
<1> DEFINE found == {i \in DOMAIN table : EqualsName(table[i], name)}
<1>1. PICK i \in found : IsEnabled(table[i], write) /\ \A j \in found : i <= j
  BY DEF GetEndpoint
<1>2. ASSUME NEW k \in found, \A j \in found : k <= j PROVE k = i
  BY <1>1, <1>2 DEF TypeOK
<1>3. (CHOOSE k \in found : \A j \in found : k <= j) = i
  BY <1>1, <1>2
<1>4. GetEndpoint(name, write) = i
  BY <1>1, <1>3 DEF GetEndpoint
<1>5. QED
  BY <1>1, <1>4 DEF EqualsName, IsEnabled

(* An entry that alone has a name is the one a lookup of the name gives.   *)
LEMMA LookupComplete ==
  ASSUME TypeOK, NEW i \in DOMAIN table,
         \A j \in DOMAIN table : table[j].name = table[i].name => j = i
  PROVE  GetEndpoint(table[i].name, IsIn(table[i].address)) = i
<1> DEFINE found == {j \in DOMAIN table : EqualsName(table[j], table[i].name)}
<1>1. found = {i}
  BY DEF EqualsName
<1>2. i <= i
  BY DEF TypeOK
<1>3. QED
  BY <1>1, <1>2 DEF GetEndpoint, IsEnabled
-----------------------------------------------------------------------------
(* What initializeTktUsbEndpoint makes of an endpoint is an entry. *)
LEMMA NewEntryType ==
  ASSUME TypeOK, NEW e \in [name : Seq(Byte), address : Byte]
  PROVE  NewEntry(e) \in Entry
<1>1. Stored(e.name) \in {n \in Seq(Byte) : Len(n) <= MaxNameSize}
  BY StoredType
<1>2. QED
  BY <1>1 DEF TypeOK, NewEntry, Entry, Null

(* Every variable keeps its type through every step. *)
LEMMA TypeStep == TypeOK /\ [Next]_vars => TypeOK'
<1> SUFFICES ASSUME TypeOK, [Next]_vars PROVE TypeOK'
  OBVIOUS
<1> USE DEF TypeOK
<1>0. /\ DOMAIN config = 1..Len(config) /\ Len(config) \in Nat
      /\ \A i \in DOMAIN config : config[i] \in [name : Seq(Byte), address : Byte]
      /\ Len(built) \in Nat
      /\ DOMAIN table = 1..Len(table) /\ Len(table) \in Nat
      /\ \A i \in DOMAIN table : table[i] \in Entry
  BY Shapes
<1>1. CASE LoadConfigFile
  BY <1>1 DEF LoadConfigFile
<1>2. CASE CreateEndpoint
  <2>1. NewEntry(config[Len(built) + 1]) \in Entry
    BY <1>0, <1>2, NewEntryType DEF CreateEndpoint
  <2>2. QED
    BY <1>2, <2>1 DEF CreateEndpoint
<1>3. CASE CreateEndpointFails
  BY <1>3 DEF CreateEndpointFails
<1>4. CASE Publish
  BY <1>4 DEF Publish
<1>5. CASE InitializeDriver
  <2>1. \A i \in 1..Len(table) : table[i].address \in Byte
    BY <1>0 DEF Entry
  <2>2. EndpointDescriptors \in Seq(Byte)
    <3>1. EndpointDescriptors \in [1..Len(table) -> Byte]
      BY <1>0, <2>1 DEF EndpointDescriptors
    <3>2. QED
      BY <1>0, <3>1, MadeSeq
  <2>3. EndpointNumbers \in Seq(0..127)
    <3>1. EndpointNumbers \in [1..Len(table) -> 0..127]
      BY <1>0, <2>1, NumberType DEF EndpointNumbers
    <3>2. QED
      BY <1>0, <3>1, MadeSeq
  <2>4. UsbData \in Data
    BY <1>0, <2>2 DEF UsbData, Data, ConfigLength, InterfaceLength, EndpointLength
  <2>5. QED
    BY <1>0, <1>5, <2>3, <2>4 DEF InitializeDriver
<1>6. CASE BindEndpoints
  <2>1. [i \in DOMAIN table |-> [table[i] EXCEPT !.usbEndpoint = Slot(i)]]
          \in [1..Len(table) -> Entry]
    <3>1. ASSUME NEW i \in 1..Len(table)
          PROVE  [table[i] EXCEPT !.usbEndpoint = Slot(i)] \in Entry
      <4>1. table[i] \in Entry /\ Slot(i) \in Nat
        BY <1>0 DEF Slot
      <4>2. QED
        BY <4>1 DEF Entry
    <3>2. QED
      BY <1>0, <3>1
  <2>2. table' \in Seq(Entry)
    BY <1>0, <1>6, <2>1, MadeSeq DEF BindEndpoints
  <2>3. QED
    BY <1>6, <2>2 DEF BindEndpoints
<1>7. ASSUME NEW l \in Layers, NEW from, NEW to, BringUp(l, from, to),
             to \in {"startBus", "start", "activate", "returned"}
      PROVE  TypeOK'
  BY <1>7 DEF BringUp
<1>8. ASSUME NEW l \in Layers, NEW from, NEW to, TakeDown(l, from, to),
             to \in {"stop", "stopBus", "unregister", "stopped"}
      PROVE  TypeOK'
  BY <1>8 DEF TakeDown
<1>9. ASSUME NEW c \in Clients, NEW name \in Names, NEW write \in BOOLEAN,
             Lookup(c, name, write)
      PROVE  TypeOK'
  <2>1. GetEndpoint(name, write) \in Nat
    <3>1. CASE GetEndpoint(name, write) = 0
      BY <3>1
    <3>2. CASE GetEndpoint(name, write) # 0
      BY <1>0, <3>2, LookupSound
    <3>3. QED
      BY <3>1, <3>2
  <2>2. QED
    BY <1>9, <2>1, ConfigAssumption DEF Lookup
<1>10. CASE UNCHANGED vars
  BY <1>10 DEF vars
<1>11. QED
  BY <1>1, <1>2, <1>3, <1>4, <1>5, <1>6, <1>7, <1>8, <1>9, <1>10
     DEF Next, Register, StartBus, StartDriver, Activate, Deactivate, StopDriver,
         StopBus, Unregister, Layers

(* Type correctness, and with it the bound on the stored names. *)
THEOREM TypeCorrect == Spec => []TypeOK
<1>1. Init => TypeOK
  BY DEF Init, TypeOK, NoDriver, NoData, Data, Layers
<1>2. QED
  BY <1>1, TypeStep, PTL DEF Spec
-----------------------------------------------------------------------------
(* The calls of the kernel's USB functions, and the lookups. *)
UsbStep == 
  \/ Register \/ StartBus \/ StartDriver \/ Activate
  \/ Deactivate \/ StopDriver \/ StopBus \/ Unregister
LooksUp == \E c \in Clients, name \in Names, write \in BOOLEAN : Lookup(c, name, write)

(* They leave the tables and the driver alone, and module_start does not   *)
(* go back to them.                                                        *)
LEMMA UsbStepFrame ==
  ASSUME UsbStep
  PROVE  /\ UNCHANGED <<config, built, table, driver, eventFlags, handle>>
         /\ step \notin {"load", "create", "describe", "bind"}
         /\ step' \notin {"load", "create", "describe", "bind", "register"}
  BY DEF UsbStep, Register, StartBus, StartDriver, Activate, BringUp,
         Deactivate, StopDriver, StopBus, Unregister, TakeDown

(* The local table keeps agreeing with the configuration.                  *)
LEMMA BuiltStep == TypeOK /\ BuiltInv /\ [Next]_vars => BuiltInv'
<1> SUFFICES ASSUME TypeOK, BuiltInv, [Next]_vars PROVE BuiltInv'
  OBVIOUS
<1>0. /\ Len(config) \in Nat /\ Len(built) \in Nat /\ DOMAIN built = 1..Len(built)
      /\ eventFlags \in Nat /\ built \in Seq(Entry)
  BY Shapes DEF TypeOK
<1>1. CASE LoadConfigFile
  <2>1. built = <<>> /\ built' = <<>> /\ Len(built) = 0
    BY <1>1, EmptySeq DEF LoadConfigFile, BuiltInv
  <2>2. Len(config') \in Nat
    BY <1>1, ConfigAssumption DEF LoadConfigFile
  <2>3. QED
    BY <1>1, <2>1, <2>2 DEF LoadConfigFile, BuiltInv
<1>2. CASE CreateEndpoint
  <2>0. PICK n \in Nat : n = Len(built) + 1
    BY <1>0
  <2> DEFINE entry == NewEntry(config[n])
  <2>1. n \in DOMAIN config /\ entry \in Entry
    BY <1>0, <1>2, <2>0, Shapes, NewEntryType DEF CreateEndpoint
  <2>2. /\ Len(built') = n /\ DOMAIN built' = 1..n
        /\ \A i \in 1..Len(built) : built'[i] = built[i]
        /\ built'[n] = entry
    <3>1. built' = Append(built, entry)
      BY <1>2, <2>0 DEF CreateEndpoint
    <3>2. built' \in Seq(Entry)
      BY <1>0, <2>1, <3>1, AppendProperties
    <3>3. DOMAIN built' = 1..Len(built')
      BY <3>2, LenProperties
    <3>4. /\ Len(Append(built, entry)) = Len(built) + 1
          /\ \A i \in 1..Len(built) : Append(built, entry)[i] = built[i]
          /\ Append(built, entry)[Len(built) + 1] = entry
      BY <1>0, <2>1, AppendProperties
    <3>5. QED
      BY <2>0, <3>1, <3>3, <3>4
  <2>3. UNCHANGED <<step, config, table>> /\ eventFlags' = eventFlags + 1 /\ eventFlags + 1 = n
    BY <1>0, <1>2, <2>0 DEF CreateEndpoint, BuiltInv
  <2>4. \A i \in 1..Len(built) : Copied(built, i)'
    BY <1>0, <2>0, <2>2, <2>3 DEF BuiltInv, Copied
  <2>5. Copied(built, n)'
    BY <2>2, <2>3 DEF NewEntry, Copied
  <2>6. QED
    BY <1>0, <1>2, <2>0, <2>2, <2>3, <2>4, <2>5 DEF CreateEndpoint, BuiltInv
<1>3. CASE CreateEndpointFails
  BY <1>3 DEF CreateEndpointFails, BuiltInv, Copied
<1>4. CASE Publish
  BY <1>4 DEF Publish, BuiltInv, Copied
<1>5. CASE InitializeDriver
  BY <1>5 DEF InitializeDriver, BuiltInv, Copied
<1>6. CASE BindEndpoints
  BY <1>6 DEF BindEndpoints, BuiltInv, Copied
<1>7. CASE UsbStep
  BY <1>7, UsbStepFrame DEF BuiltInv, Copied
<1>8. CASE LooksUp
  BY <1>8 DEF LooksUp, Lookup, BuiltInv, Copied
<1>9. CASE UNCHANGED vars
  BY <1>9 DEF vars, BuiltInv, Copied
<1>10. QED
  BY <1>1, <1>2, <1>3, <1>4, <1>5, <1>6, <1>7, <1>8, <1>9 DEF Next, UsbStep, LooksUp

(* The layers come up and go down in their order. *)
LEMMA LayersStep == TypeOK /\ LayersInv /\ [Next]_vars => LayersInv'
<1> SUFFICES ASSUME TypeOK, LayersInv, [Next]_vars PROVE LayersInv'
  OBVIOUS
<1> USE DEF TypeOK, LayersInv, LayersNested, Layers, Starting, Stopping
<1>1. CASE LoadConfigFile
  BY <1>1 DEF LoadConfigFile
<1>2. CASE CreateEndpoint \/ CreateEndpointFails \/ Publish
  BY <1>2 DEF CreateEndpoint, CreateEndpointFails, Publish
<1>3. CASE InitializeDriver \/ BindEndpoints
  BY <1>3 DEF InitializeDriver, BindEndpoints
<1>4. CASE Register
  BY <1>4 DEF Register, BringUp
<1>5. CASE StartBus
  BY <1>5 DEF StartBus, BringUp
<1>6. CASE StartDriver
  BY <1>6 DEF StartDriver, BringUp
<1>7. CASE Activate
  BY <1>7 DEF Activate, BringUp
<1>8. CASE Deactivate
  BY <1>8 DEF Deactivate, TakeDown
<1>9. CASE StopDriver
  BY <1>9 DEF StopDriver, TakeDown
<1>10. CASE StopBus
  BY <1>10 DEF StopBus, TakeDown
<1>11. CASE Unregister
  BY <1>11 DEF Unregister, TakeDown
<1>12. CASE LooksUp
  BY <1>12 DEF LooksUp, Lookup
<1>13. CASE UNCHANGED vars
  BY <1>13 DEF vars
<1>14. QED
  BY <1>1, <1>2, <1>3, <1>4, <1>5, <1>6, <1>7, <1>8, <1>9, <1>10, <1>11, <1>12, <1>13
     DEF Next, LooksUp

(* The published table keeps agreeing with all of the configuration.       *)
LEMMA TableStep ==
  TypeOK /\ BuiltInv /\ LayersInv /\ TableInv /\ [Next]_vars => TableInv'
<1> SUFFICES ASSUME TypeOK, BuiltInv, LayersInv, TableInv, [Next]_vars PROVE TableInv'
  OBVIOUS
<1>0. /\ Len(table) \in Nat /\ DOMAIN table = 1..Len(table) /\ Len(config) \in Nat
      /\ \A i \in DOMAIN table : table[i] \in Entry
      /\ "registered" \in Layers
  BY Shapes DEF Layers
<1>1. CASE LoadConfigFile
  BY <1>1 DEF LoadConfigFile, TableInv, Starting, BuiltInv, LayersInv, Layers
<1>2. CASE CreateEndpoint
  <2>1. table = <<>> /\ table' = <<>> /\ step' = "create" /\ ~usb'["registered"]
    BY <1>0, <1>2 DEF CreateEndpoint, BuiltInv, LayersInv
  <2>2. QED
    BY <2>1 DEF TableInv, Starting
<1>3. CASE CreateEndpointFails
  <2>1. table = <<>> /\ table' = <<>> /\ step' = "returned" /\ ~usb'["registered"]
    BY <1>0, <1>3 DEF CreateEndpointFails, BuiltInv, LayersInv
  <2>2. QED
    BY <2>1 DEF TableInv, Starting
<1>4. CASE Publish
  BY <1>4 DEF Publish, TableInv, BuiltInv, Copied
<1>5. CASE InitializeDriver
  BY <1>5 DEF InitializeDriver, TableInv, Copied, Starting
<1>6. CASE BindEndpoints
  <2>1. table' \in [1..Len(table) -> Entry]
    <3>1. table' \in Seq(Entry)
      BY TypeStep DEF TypeOK
    <3>2. table' \in [DOMAIN table' -> Entry]
      BY <3>1, LenProperties
    <3>3. DOMAIN table' = 1..Len(table)
      BY <1>0, <1>6 DEF BindEndpoints
    <3>4. QED
      BY <3>2, <3>3
  <2>2. DOMAIN table' = 1..Len(table) /\ Len(table') = Len(table)
    BY <1>0, <2>1, MadeSeq
  <2>3. \A i \in 1..Len(table) : /\ table'[i].name = table[i].name
                                 /\ table'[i].address = table[i].address
                                 /\ table'[i].flag = table[i].flag
    BY <1>0, <1>6 DEF BindEndpoints, Entry
  <2>4. /\ UNCHANGED <<config, eventFlags, usb>>
        /\ step \in Starting /\ step' \in Starting
    BY <1>6 DEF BindEndpoints, Starting
  <2>5. table' # <<>> => table # <<>>
    BY <1>0, <2>2
  <2>6. QED
    BY <1>0, <2>2, <2>3, <2>4, <2>5 DEF TableInv, Copied
<1>7. CASE UsbStep
  <2>1. step \in Starting \/ usb["registered"] \/ ~usb'["registered"]
    BY <1>0, <1>7 DEF UsbStep, Register, StartBus, StartDriver, Activate, BringUp,
         Deactivate, StopDriver, StopBus, Unregister, TakeDown, Starting, TypeOK, Layers
  <2>2. step' \in Starting => step \in Starting
    BY <1>7 DEF UsbStep, Register, StartBus, StartDriver, Activate, BringUp,
         Deactivate, StopDriver, StopBus, Unregister, TakeDown, Starting
  <2>3. QED
    BY <1>7, <2>1, <2>2, UsbStepFrame DEF TableInv, Copied
<1>8. CASE LooksUp
  BY <1>8 DEF LooksUp, Lookup, TableInv, Copied
<1>9. CASE UNCHANGED vars
  BY <1>9 DEF vars, TableInv, Copied
<1>10. QED
  BY <1>1, <1>2, <1>3, <1>4, <1>5, <1>6, <1>7, <1>8, <1>9 DEF Next, UsbStep, LooksUp

(* The driver keeps describing the configuration, and the table bound.     *)
LEMMA DriverStep ==
  TypeOK /\ BuiltInv /\ LayersInv /\ TableInv /\ DriverInv /\ [Next]_vars => DriverInv'
<1> SUFFICES ASSUME TypeOK, BuiltInv, LayersInv, TableInv, DriverInv, [Next]_vars
             PROVE  DriverInv'
  OBVIOUS
<1>0. /\ Len(table) \in Nat /\ DOMAIN table = 1..Len(table) /\ Len(config) \in Nat
      /\ \A i \in DOMAIN table : table[i] \in Entry
      /\ "registered" \in Layers
  BY Shapes DEF Layers
<1>1. CASE LoadConfigFile \/ CreateEndpoint \/ CreateEndpointFails \/ Publish
  <2>1. ~usb'["registered"] /\ step' \notin Starting \ {"describe"}
    BY <1>0, <1>1 DEF LoadConfigFile, CreateEndpoint, CreateEndpointFails, Publish,
                      LayersInv, Starting
  <2>2. QED
    BY <2>1 DEF DriverInv
<1>2. CASE InitializeDriver
  <2>1. ~usb'["registered"] /\ step' = "bind" /\ step \in Starting
        /\ UNCHANGED <<table, config>>
    BY <1>0, <1>2 DEF InitializeDriver, LayersInv, Starting
  <2>2. Len(table) = Len(config)
    BY <2>1 DEF TableInv
  <2>3. \A i \in DOMAIN table : table[i].address = config[i].address
    BY <1>0 DEF TableInv, Copied
  <2>4. /\ driver'.count = Len(config) + 1
        /\ \A i \in DOMAIN table : driver'.endpnum[i] = Number(config[i].address)
    BY <1>2, <2>2, <2>3 DEF InitializeDriver, EndpointNumbers
  <2>5. /\ UsbData.numEndpoints = Len(config)
        /\ UsbData.totalLength = ConfigLength + InterfaceLength + Len(config) * EndpointLength
        /\ DOMAIN UsbData.endpoints = DOMAIN table
        /\ \A i \in DOMAIN table : UsbData.endpoints[i] = config[i].address
    BY <2>2, <2>3 DEF UsbData, EndpointDescriptors
  <2>6. driver'.hi = UsbData /\ driver'.full = UsbData
    BY <1>2 DEF InitializeDriver
  <2>7. QED
    BY <2>1, <2>4, <2>5, <2>6 DEF DriverInv
<1>3. CASE BindEndpoints
  <2>1. /\ UNCHANGED <<config, driver>> /\ step = "bind" /\ DOMAIN table' = DOMAIN table
        /\ \A i \in DOMAIN table : table'[i].usbEndpoint = i
    BY <1>0, <1>3 DEF BindEndpoints, Slot, Entry
  <2>2. step \in Starting \ {"describe"}
    BY <2>1 DEF Starting
  <2>3. QED
    BY <2>1, <2>2 DEF DriverInv
<1>4. CASE UsbStep
  <2>1. step \in Starting \ {"describe", "bind"} \/ usb["registered"] \/ ~usb'["registered"]
    BY <1>0, <1>4 DEF UsbStep, Register, StartBus, StartDriver, Activate, BringUp,
         Deactivate, StopDriver, StopBus, Unregister, TakeDown, Starting, TypeOK, Layers
  <2>2. step' \in Starting => step \in Starting \ {"describe", "bind"}
    BY <1>4 DEF UsbStep, Register, StartBus, StartDriver, Activate, BringUp,
         Deactivate, StopDriver, StopBus, Unregister, TakeDown, Starting
  <2>3. QED
    BY <1>4, <2>1, <2>2, UsbStepFrame DEF DriverInv
<1>5. CASE LooksUp
  BY <1>5 DEF LooksUp, Lookup, DriverInv
<1>6. CASE UNCHANGED vars
  BY <1>6 DEF vars, DriverInv
<1>7. QED
  BY <1>1, <1>2, <1>3, <1>4, <1>5, <1>6 DEF Next, UsbStep, LooksUp

(* A client keeps what an honest lookup gave it.                           *)
LEMMA HandleStep ==
  TypeOK /\ TableInv /\ HandleInv /\ [Next]_vars => HandleInv'
<1> SUFFICES ASSUME TypeOK, TableInv, HandleInv, [Next]_vars PROVE HandleInv'
  OBVIOUS
<1>1. CASE LoadConfigFile
  BY <1>1 DEF LoadConfigFile, HandleInv, HandleHonest, Stopping
<1>2. CASE \/ CreateEndpoint \/ CreateEndpointFails \/ Publish
           \/ InitializeDriver \/ BindEndpoints
  BY <1>2 DEF CreateEndpoint, CreateEndpointFails, Publish, InitializeDriver,
              BindEndpoints, HandleInv, HandleHonest, Stopping
<1>3. CASE UsbStep
  <2>1. step' \notin Stopping => step \notin Stopping
    BY <1>3 DEF UsbStep, Register, StartBus, StartDriver, Activate, BringUp,
         Deactivate, StopDriver, StopBus, Unregister, TakeDown, Stopping
  <2>2. QED
    BY <1>3, <2>1, UsbStepFrame DEF HandleInv, HandleHonest
<1>4. ASSUME NEW c \in Clients, NEW name \in Names, NEW write \in BOOLEAN,
             Lookup(c, name, write)
      PROVE  HandleInv'
  <2> DEFINE e == GetEndpoint(name, write)
  <2>1. /\ step' = step /\ step \in Stopping /\ UNCHANGED <<config, table>>
        /\ handle' = [handle EXCEPT ![c] = [name |-> name, write |-> write, entry |-> e]]
    BY <1>4 DEF Lookup, Stopping
  <2>2. e # 0 => /\ e \in DOMAIN config
                 /\ Stored(config[e].name) = name
                 /\ IsIn(config[e].address) = write
    <3>1. SUFFICES ASSUME e # 0
                   PROVE  /\ e \in DOMAIN config
                          /\ Stored(config[e].name) = name
                          /\ IsIn(config[e].address) = write
      OBVIOUS
    <3>2. e \in DOMAIN table /\ table[e].name = name /\ IsIn(table[e].address) = write
      BY <3>1, LookupSound
    <3>3. table # <<>> /\ DOMAIN table = 1..Len(table) /\ DOMAIN config = 1..Len(config)
      BY <3>2, Shapes
    <3>4. Len(table) = Len(config) /\ Copied(table, e)
      BY <3>2, <3>3 DEF TableInv
    <3>5. QED
      BY <3>2, <3>3, <3>4 DEF Copied
  <2>3. ASSUME NEW d \in Clients, handle'[d].entry # 0
        PROVE  /\ handle'[d].entry \in DOMAIN config
               /\ Stored(config[handle'[d].entry].name) = handle'[d].name
               /\ IsIn(config[handle'[d].entry].address) = handle'[d].write
    <3>1. CASE d = c
      BY <2>1, <2>2, <2>3, <3>1 DEF TypeOK
    <3>2. CASE d # c
      BY <2>1, <2>3, <3>2 DEF HandleInv, HandleHonest, TypeOK
    <3>3. QED
      BY <3>1, <3>2
  <2>4. QED
    BY <2>1, <2>3 DEF HandleInv, HandleHonest
<1>5. CASE UNCHANGED vars
  BY <1>5 DEF vars, HandleInv, HandleHonest
<1>6. QED
  BY <1>1, <1>2, <1>3, <1>4, <1>5 DEF Next, UsbStep

(* The inductive invariant of the manager. *)
THEOREM ManagerInvariant == Spec => []ManagerInv
<1>1. Init => ManagerInv
  <2> SUFFICES ASSUME Init PROVE ManagerInv
    OBVIOUS
  <2>1. BuiltInv /\ TableInv /\ DriverInv
    BY EmptySeq DEF Init, BuiltInv, TableInv, DriverInv, Starting, Layers
  <2>2. LayersInv
    BY DEF Init, LayersInv, LayersNested, Layers, Starting, Stopping
  <2>3. HandleInv
    BY DEF Init, HandleInv, HandleHonest
  <2>4. QED
    BY <2>1, <2>2, <2>3 DEF ManagerInv
<1>2. TypeOK /\ ManagerInv /\ [Next]_vars => ManagerInv'
  BY BuiltStep, LayersStep, TableStep, DriverStep, HandleStep DEF ManagerInv
<1>3. QED
  BY <1>1, <1>2, TypeCorrect, PTL DEF Spec
-----------------------------------------------------------------------------
(* Clients find a whole table or an empty one, with one event flag each.   *)
THEOREM Whole == Spec => []WholeTable
<1>1. TypeOK /\ ManagerInv => WholeTable
  <2> SUFFICES ASSUME TypeOK, ManagerInv, table # <<>> PROVE WholeTable
    BY DEF WholeTable
  <2>1. /\ Len(table) = Len(config) /\ Len(table) <= eventFlags
        /\ \A i \in DOMAIN table : Copied(table, i)
    BY DEF ManagerInv, TableInv
  <2>2. DOMAIN table = 1..Len(table) /\ Len(table) \in Nat /\ eventFlags \in Nat
    BY Shapes DEF TypeOK
  <2>3. QED
    BY <2>1, <2>2 DEF WholeTable, Copied
<1>2. QED
  BY <1>1, TypeCorrect, ManagerInvariant, PTL

(* What the host is told is what the endpoints' requests go to.            *)
THEOREM Served == Spec => []AnnouncedIsServed
<1>1. TypeOK /\ ManagerInv => AnnouncedIsServed
  <2> SUFFICES ASSUME TypeOK, ManagerInv, usb["registered"] PROVE AnnouncedIsServed
    BY DEF AnnouncedIsServed
  <2>1. Len(table) = Len(config) /\ DOMAIN table = 1..Len(config)
    BY Shapes DEF ManagerInv, TableInv
  <2>2. /\ driver.count = Len(config) + 1
        /\ \A data \in {driver.hi, driver.full} :
             /\ data.numEndpoints = Len(config)
             /\ data.totalLength = ConfigLength + InterfaceLength + Len(config) * EndpointLength
             /\ \A i \in DOMAIN table : data.endpoints[i] = config[i].address
        /\ \A i \in DOMAIN table :
             /\ table[i].usbEndpoint = i
             /\ driver.endpnum[i] = Number(config[i].address)
    BY DEF ManagerInv, DriverInv
  <2>3. QED
    BY <2>1, <2>2 DEF AnnouncedIsServed
<1>2. QED
  BY <1>1, TypeCorrect, ManagerInvariant, PTL

(* A name that fits and is no other's leads to its endpoint.               *)
THEOREM Findable == Spec => []Reachable
<1>1. TypeOK /\ ManagerInv => Reachable
  <2> SUFFICES ASSUME TypeOK, ManagerInv, table # <<>>, NEW i \in DOMAIN config,
                      Len(config[i].name) <= MaxNameSize,
                      \A j \in DOMAIN config :
                        Stored(config[j].name) = Stored(config[i].name) => i = j
               PROVE  GetEndpoint(config[i].name, IsIn(config[i].address)) = i
    BY DEF Reachable
  <2>1. DOMAIN table = DOMAIN config
    BY Shapes DEF ManagerInv, TableInv
  <2>2. \A j \in DOMAIN table : Copied(table, j)
    BY DEF ManagerInv, TableInv
  <2>3. Stored(config[i].name) = config[i].name
    BY DEF Stored
  <2>4. table[i].name = config[i].name /\ table[i].address = config[i].address
    BY <2>1, <2>2, <2>3 DEF Copied
  <2>5. \A j \in DOMAIN table : table[j].name = table[i].name => j = i
    BY <2>1, <2>2 DEF Copied
  <2>6. GetEndpoint(table[i].name, IsIn(table[i].address)) = i
    BY <2>1, <2>5, LookupComplete
  <2>7. QED
    BY <2>4, <2>6
<1>2. QED
  BY <1>1, TypeCorrect, ManagerInvariant, PTL

(* A client that is given an endpoint is given one it asked for.           *)
THEOREM Honest == Spec => []HandleHonest
<1>1. ManagerInv => HandleHonest
  BY DEF ManagerInv, HandleInv
<1>2. QED
  BY <1>1, ManagerInvariant, PTL

(* No layer is up without those it rests on, unless the call of            *)
(* module_stop that was to take it down has failed.                        *)
THEOREM Nested == Spec => []LayersNested
<1>1. ManagerInv => LayersNested
  BY DEF ManagerInv, LayersInv
<1>2. QED
  BY <1>1, ManagerInvariant, PTL

-----------------------------------------------------------------------------
(* The manager and its clients. *)

(* What is proved of UsbEndpoint, for clients that may call on any of the  *)
(* endpoints.                                                              *)
CallFacts == INSTANCE UsbEndpointProofs WITH
  Threads <- Clients,
  Endpoints <- Pointers,
  Users <- [e \in Pointers |-> Clients],
  Writable <- {e \in Pointers : e[2]},
  Killable <- {}

(* An endpoint that the file lists under a name that c asks for, cut to    *)
(* the field, with the direction of its address.                           *)
Mine(c, e) ==
  /\ e[1] \in DOMAIN config
  /\ IsIn(config[e[1]].address) = e[2]
  /\ Stored(config[e[1]].name) \in Asks[c]

(* An entry whose place in usbDriver is that of its address. *)
Bound(i) ==
  /\ i \in DOMAIN table
  /\ table[i].usbEndpoint \in DOMAIN driver.hi.endpoints
  /\ driver.hi.endpoints[table[i].usbEndpoint] = config[i].address
  /\ driver.endpnum[table[i].usbEndpoint] = Number(config[i].address)

(* No call is made before module_start has returned... *)
QuietInv ==
  step \notin Stopping =>
    /\ \A c \in Clients : pc[c] = "idle"
    /\ queued = {} /\ finished = {}
    /\ \A e \in Pointers : ~flag[e]

(* ... and then clients call on what their own names lead to. *)
ClientsInv ==
  /\ \A c \in Clients : handle[c].entry # 0 => handle[c].name \in Asks[c]
  /\ \A c \in Clients : pc[c] # "idle" => Mine(c, request[c].arg)
  /\ \A r \in queued \cup finished : Mine(r.thread, r.ep) /\ Bound(r.ep[1])

Parts == TypeOK /\ ManagerInv /\ AnnouncedIsServed /\ CallFacts!TypeOK
-----------------------------------------------------------------------------
LEMMA CallAssumption == CallFacts!EndpointAssumption
  BY SystemAssumption DEF CallFacts!EndpointAssumption

(* A step of the system is a step of the manager or leaves it as it is...  *)
LEMMA ManagerSimulated == [SystemNext]_systemVars => [Next]_vars
<1> SUFFICES ASSUME [SystemNext]_systemVars PROVE [Next]_vars
  OBVIOUS
<1>1. ASSUME NEW c \in Clients, LookupStep(c) PROVE Next
  <2>1. PICK name \in Asks[c], write \in BOOLEAN : Lookup(c, name, write)
    BY <1>1 DEF LookupStep
  <2>2. name \in Names
    BY SystemAssumption
  <2> QED
    BY <2>1, <2>2 DEF Next
<1>2. CASE ManagerStep \/ StopStep
  BY <1>2 DEF ManagerStep, StopStep, Next
<1>3. ASSUME NEW c \in Clients,
             Prepare(c) \/ Submit(c) \/ Refused(c) \/ WaitEventFlag(c) \/ Return(c)
      PROVE  UNCHANGED vars
  BY <1>3 DEF Prepare, Submit, Refused, WaitEventFlag, Return, managerVars, vars
<1>4. ASSUME NEW r, Complete(r) \/ Cancel(r) \/ RequestDone(r) PROVE UNCHANGED vars
  BY <1>4 DEF Complete, Cancel, RequestDone, managerVars, vars
<1>5. CASE UNCHANGED systemVars
  BY <1>5 DEF systemVars, managerVars, vars
<1>6. CASE \E c \in Clients :
             LookupStep(c) \/ Prepare(c) \/ Submit(c) \/ Refused(c) \/ WaitEventFlag(c) \/ Return(c)
  BY <1>1, <1>3, <1>6
<1>7. CASE (\E r \in queued : Complete(r) \/ Cancel(r)) \/ (\E r \in finished : RequestDone(r))
  BY <1>4, <1>7
<1> QED
  BY <1>2, <1>5, <1>6, <1>7 DEF SystemNext

(* A completion is one to UsbEndpoint too, and leaves every request for    *)
(* the endpoint that it is for.                                            *)
LEMMA SameCompletion ==
  ASSUME NEW r, Call!Complete(r)
  PROVE  CallFacts!Complete(r)
  BY DEF Call!Complete, CallFacts!Complete, Call!Store, CallFacts!Store, Call!Live,
     CallFacts!Live, Call!Outcomes, CallFacts!Outcomes

LEMMA StoreKeepsArgs ==
  ASSUME CallFacts!TypeOK, NEW r \in queued, CallFacts!Complete(r)
  PROVE  \A c \in Clients : request'[c].arg = request[c].arg
<1> SUFFICES ASSUME NEW c \in Clients PROVE request'[c].arg = request[c].arg
  OBVIOUS
<1>1. PICK o \in CallFacts!Outcomes : CallFacts!Store(r, o)
  BY DEF CallFacts!Complete
<1>2. /\ request[c] \in CallFacts!Request /\ request[r.thread] \in CallFacts!Request
      /\ DOMAIN request = Clients
  BY DEF CallFacts!TypeOK, CallFacts!Pointer
<1>3. CASE request' = [request EXCEPT ![r.thread].retcode = o.retcode,
                                      ![r.thread].recvsize = o.recvsize]
  BY <1>2, <1>3 DEF CallFacts!Request
<1> QED
  BY <1>1, <1>3 DEF CallFacts!Store

(* What a lookup gave out is one of the pointers there can be. *)
LEMMA HandleIsPointer ==
  ASSUME TypeOK, ManagerInv, NEW c \in Clients, handle[c].entry # 0
  PROVE  <<handle[c].entry, handle[c].write>> \in Pointers
<1>1. handle[c].write \in BOOLEAN
  BY DEF TypeOK
<1>2. handle[c].entry \in 1..Len(config) /\ Len(config) \in Nat
  BY Shapes DEF ManagerInv, HandleInv, HandleHonest
<1>3. Len(config) <= MaxUserEndpoints
  <2>1. CASE config \in Configs
    BY <2>1, ConfigAssumption
  <2>2. CASE config = <<>>
    BY <1>2, <2>2
  <2> QED
    BY <2>1, <2>2 DEF TypeOK
<1> QED
  BY <1>1, <1>2, <1>3 DEF Pointers, MaxUserEndpoints

(* ... and of the calls on endpoints. *)
LEMMA CallsSimulated ==
  TypeOK /\ ManagerInv /\ [SystemNext]_systemVars => [CallFacts!Next]_(CallFacts!vars)
<1> SUFFICES ASSUME TypeOK, ManagerInv, [SystemNext]_systemVars
             PROVE  [CallFacts!Next]_(CallFacts!vars)
  OBVIOUS
<1>1. ASSUME NEW c \in Clients, LookupStep(c) PROVE UNCHANGED CallFacts!vars
  BY <1>1 DEF LookupStep, callVars, CallFacts!vars
<1>2. CASE ManagerStep \/ StopStep
  BY <1>2 DEF ManagerStep, StopStep, callVars, CallFacts!vars
<1>3. ASSUME NEW c \in Clients, Prepare(c) PROVE CallFacts!Next
  <2> DEFINE e == <<handle[c].entry, handle[c].write>>
  <2>1. Call!Prepare(c, e)
    BY <1>3 DEF Prepare
  <2>2. e \in Pointers
    BY <1>3, HandleIsPointer DEF Prepare
  <2>3. CallFacts!Prepare(c, e)
    BY <2>1 DEF Call!Prepare, CallFacts!Prepare, Call!Pending, CallFacts!Pending
  <2> QED
    BY <2>2, <2>3 DEF CallFacts!Next
<1>4. ASSUME NEW c \in Clients, Submit(c) \/ Refused(c) \/ WaitEventFlag(c) \/ Return(c)
      PROVE  CallFacts!Next
  <2>1. \/ CallFacts!Submit(c) \/ CallFacts!Refused(c)
        \/ CallFacts!WaitEventFlag(c) \/ CallFacts!Return(c)
    BY <1>4 DEF Submit, Refused, WaitEventFlag, Return,
         Call!Submit, CallFacts!Submit, Call!PointerOf, CallFacts!PointerOf,
         Call!Refused, CallFacts!Refused, Call!WaitEventFlag, CallFacts!WaitEventFlag,
         Call!Return, CallFacts!Return, Call!Answer, CallFacts!Answer
  <2> QED
    BY <2>1 DEF CallFacts!Next
<1>5. ASSUME NEW r \in queued, Complete(r) \/ Cancel(r) PROVE CallFacts!Next
  <2>1. Call!Complete(r)
    BY <1>5 DEF Complete, Cancel
  <2>2. CallFacts!Complete(r)
    BY <2>1, SameCompletion
  <2> QED
    BY <2>2 DEF CallFacts!Next
<1>6. ASSUME NEW r \in finished, RequestDone(r) PROVE CallFacts!Next
  <2>1. Call!RequestDone(r)
    BY <1>6 DEF RequestDone
  <2>2. CallFacts!RequestDone(r)
    BY <2>1 DEF Call!RequestDone, CallFacts!RequestDone, Call!SetEventFlag,
         CallFacts!SetEventFlag, Call!Waiters, CallFacts!Waiters, Call!Live, CallFacts!Live
  <2> QED
    BY <2>2 DEF CallFacts!Next
<1>7. CASE UNCHANGED systemVars
  BY <1>7 DEF systemVars, callVars, CallFacts!vars
<1>8. CASE \E c \in Clients :
             LookupStep(c) \/ Prepare(c) \/ Submit(c) \/ Refused(c) \/ WaitEventFlag(c) \/ Return(c)
  BY <1>1, <1>3, <1>4, <1>8
<1>9. CASE (\E r \in queued : Complete(r) \/ Cancel(r)) \/ (\E r \in finished : RequestDone(r))
  BY <1>5, <1>6, <1>9
<1> QED
  BY <1>2, <1>7, <1>8, <1>9 DEF SystemNext

(* The manager is what TktUsbManager specifies, whatever its clients do.   *)
THEOREM ManagerKept == SystemSpec => Spec
<1>1. SystemInit => Init
  BY DEF SystemInit
<1>2. QED
  BY <1>1, ManagerSimulated, PTL DEF SystemSpec, Spec

(* The calls are what UsbEndpoint specifies, whatever the manager does.    *)
THEOREM CallsKept == SystemSpec => CallFacts!Spec
<1>1. SystemInit => CallFacts!Init
  <2>1. <<1, FALSE>> \in Pointers
    <3>1. 1 \in 1..MaxUserEndpoints /\ FALSE \in BOOLEAN
      BY DEF MaxUserEndpoints
    <3> QED
      BY <3>1, Zenon DEF Pointers
  <2> QED
    BY <2>1 DEF SystemInit, Call!Init, CallFacts!Init, Call!Pending, CallFacts!Pending
<1>2. QED
  BY <1>1, CallsSimulated, ManagerKept, TypeCorrect, ManagerInvariant, PTL
     DEF SystemSpec, CallFacts!Spec

(* What each part keeps, it keeps in the system. *)
LEMMA PartsInvariant == SystemSpec => []Parts
<1>1. CallFacts!Spec => []CallFacts!TypeOK
  BY CallAssumption, CallFacts!TypeCorrect, PTL
<1>2. QED
  BY <1>1, ManagerKept, CallsKept, TypeCorrect, ManagerInvariant, Served, PTL DEF Parts
-----------------------------------------------------------------------------
(* The types of the calls, as later steps need them. *)
LEMMA CallTypes ==
  ASSUME Parts
  PROVE  /\ pc \in [Clients -> {"idle", "prepared", "submitted", "waiting", "woken"}]
         /\ calls \in [Clients -> 0..MaxCalls]
         /\ flag \in [Pointers -> BOOLEAN]
         /\ DOMAIN request = Clients
         /\ \A c \in Clients : request[c].arg \in Pointers
         /\ \A r \in queued \cup finished : r.thread \in Clients /\ r.ep \in Pointers
  BY DEF Parts, CallFacts!TypeOK, CallFacts!Request, CallFacts!Pointer

(* The manager and the calls take turns: until module_start returns only   *)
(* the manager steps, and then what it has built stays as it is.           *)
LEMMA Frames ==
  ASSUME Parts, QuietInv, [SystemNext]_systemVars
  PROVE  \/ step \notin Stopping /\ UNCHANGED <<callVars, handle>>
         \/ step \in Stopping /\ step' \in Stopping /\ UNCHANGED <<config, table, driver>>
<1>1. CASE ManagerStep
  <2>1. step \notin Stopping /\ UNCHANGED <<callVars, handle>>
    BY <1>1 DEF ManagerStep, LoadConfigFile, CreateEndpoint, CreateEndpointFails, Publish,
         InitializeDriver, BindEndpoints, Register, StartBus, StartDriver, Activate, BringUp,
         Stopping
  <2> QED
    BY <2>1
<1>2. CASE StopStep
  BY <1>2 DEF StopStep, Deactivate, StopDriver, StopBus, Unregister, TakeDown, Stopping
<1>3. ASSUME NEW c \in Clients, LookupStep(c)
      PROVE  step \in Stopping /\ step' = step /\ UNCHANGED <<config, table, driver>>
  BY <1>3 DEF LookupStep, Lookup, Stopping
<1>4. ASSUME NEW c \in Clients,
             Prepare(c) \/ Submit(c) \/ Refused(c) \/ WaitEventFlag(c) \/ Return(c)
      PROVE  step \in Stopping /\ UNCHANGED <<step, config, table, driver>>
  <2>1. UNCHANGED <<step, config, table, driver>>
    BY <1>4 DEF Prepare, Submit, Refused, WaitEventFlag, Return, managerVars
  <2>2. step \in Stopping \/ pc[c] # "idle"
    BY <1>4 DEF Prepare, Submit, Refused, WaitEventFlag, Return, Stopping,
         Call!Submit, Call!Refused, Call!WaitEventFlag, Call!Return
  <2> QED
    BY <2>1, <2>2 DEF QuietInv
<1>5. ASSUME NEW r \in queued \cup finished, Complete(r) \/ Cancel(r) \/ RequestDone(r)
      PROVE  step \in Stopping /\ UNCHANGED <<step, config, table, driver>>
  <2>1. UNCHANGED <<step, config, table, driver>>
    BY <1>5 DEF Complete, Cancel, RequestDone, managerVars
  <2> QED
    BY <2>1 DEF QuietInv
<1>6. CASE \E c \in Clients :
             LookupStep(c) \/ Prepare(c) \/ Submit(c) \/ Refused(c) \/ WaitEventFlag(c) \/ Return(c)
  BY <1>3, <1>4, <1>6
<1>7. CASE (\E r \in queued : Complete(r) \/ Cancel(r)) \/ (\E r \in finished : RequestDone(r))
  BY <1>5, <1>7
<1>8. CASE UNCHANGED systemVars
  BY <1>8 DEF systemVars, managerVars, callVars
<1> QED
  BY <1>1, <1>2, <1>6, <1>7, <1>8 DEF SystemNext

LEMMA QuietStep ==
  ASSUME Parts, QuietInv, [SystemNext]_systemVars
  PROVE  QuietInv'
<1>1. CASE step \notin Stopping /\ UNCHANGED <<callVars, handle>>
  BY <1>1 DEF QuietInv, callVars
<1>2. CASE step' \in Stopping
  BY <1>2 DEF QuietInv
<1> QED
  BY <1>1, <1>2, Frames

(* What a client calls on is bound when the bus takes its request.         *)
LEMMA SubmittedIsBound ==
  ASSUME Parts, NEW i \in DOMAIN config, usb["registered"]
  PROVE  Bound(i)
<1>1. DOMAIN table = 1..Len(table) /\ DOMAIN config = 1..Len(config)
  BY Shapes DEF Parts
<1>2. Len(table) = Len(config) /\ i \in DOMAIN table
  BY <1>1 DEF Parts, AnnouncedIsServed
<1>3. /\ table[i].usbEndpoint \in 1..Len(config)
      /\ driver.endpnum[table[i].usbEndpoint] = Number(config[i].address)
      /\ driver.hi.endpoints[table[i].usbEndpoint] = config[i].address
  BY <1>2 DEF Parts, AnnouncedIsServed
<1>4. DOMAIN driver.hi.endpoints = DOMAIN table
  BY DEF Parts, ManagerInv, DriverInv
<1> QED
  BY <1>1, <1>2, <1>3, <1>4 DEF Bound

(* Clients keep to their own endpoints through every step.                 *)
LEMMA ClientsStep ==
  ASSUME Parts, QuietInv, ClientsInv, [SystemNext]_systemVars
  PROVE  ClientsInv'
<1> DEFINE Held == queued \cup finished
<1>1. CASE step \notin Stopping /\ UNCHANGED <<callVars, handle>>
  BY <1>1 DEF ClientsInv, QuietInv, callVars
<1>2. CASE step \in Stopping /\ UNCHANGED <<config, table, driver>>
  <2>1. /\ \A c, e : Mine(c, e)' <=> Mine(c, e)
        /\ \A i : Bound(i)' <=> Bound(i)
    BY <1>2 DEF Mine, Bound
  <2>2. ASSUME UNCHANGED <<handle, request, queued, finished>>,
               \A c \in Clients : pc'[c] # "idle" => pc[c] # "idle"
        PROVE  ClientsInv'
    BY <2>1, <2>2 DEF ClientsInv
  <2>3. CASE ManagerStep \/ StopStep \/ UNCHANGED systemVars
    <3>1. UNCHANGED <<callVars, handle>>
      BY <2>3 DEF ManagerStep, StopStep, LoadConfigFile, CreateEndpoint, CreateEndpointFails,
           Publish, InitializeDriver, BindEndpoints, Register, StartBus, StartDriver, Activate,
           BringUp, Deactivate, StopDriver, StopBus, Unregister, TakeDown, systemVars, managerVars
    <3> QED
      BY <2>2, <3>1 DEF callVars
  <2>4. ASSUME NEW c \in Clients, LookupStep(c) PROVE ClientsInv'
    <3>1. PICK name \in Asks[c], write \in BOOLEAN : Lookup(c, name, write)
      BY <2>4 DEF LookupStep
    <3>2. \A d \in Clients : handle'[d].entry # 0 => handle'[d].name \in Asks[d]
      BY <3>1 DEF Lookup, ClientsInv, Parts, TypeOK
    <3>3. UNCHANGED <<pc, request, queued, finished>>
      BY <2>4 DEF LookupStep, callVars
    <3> QED
      BY <2>1, <3>2, <3>3 DEF ClientsInv
  <2>5. ASSUME NEW c \in Clients, Prepare(c) PROVE ClientsInv'
    <3> DEFINE e == <<handle[c].entry, handle[c].write>>
    <3>1. /\ pc' = [pc EXCEPT ![c] = "prepared"]
          /\ request' = [request EXCEPT ![c] = [arg |-> e, retcode |-> 0, recvsize |-> 0]]
          /\ UNCHANGED <<queued, finished, handle>>
          /\ handle[c].entry # 0
      BY <2>5 DEF Prepare, Call!Prepare, managerVars
    <3>2. Mine(c, e)
      BY <3>1 DEF Mine, Parts, ManagerInv, HandleInv, HandleHonest, ClientsInv
    <3>3. /\ request'[c].arg = e
          /\ \A d \in Clients \ {c} : request'[d] = request[d] /\ pc'[d] = pc[d]
      BY <3>1, CallTypes
    <3> QED
      BY <2>1, <3>1, <3>2, <3>3 DEF ClientsInv
  <2>6. ASSUME NEW c \in Clients, Submit(c) PROVE ClientsInv'
    <3> DEFINE r == Call!PointerOf(c)
    <3>1. /\ pc[c] = "prepared" /\ pc' = [pc EXCEPT ![c] = "submitted"]
          /\ queued' = queued \cup {r} /\ usb["registered"]
          /\ UNCHANGED <<request, finished, handle>>
      BY <2>6 DEF Submit, Call!Submit, managerVars
    <3>2. r.thread = c /\ r.ep = request[c].arg
      BY DEF Call!PointerOf
    <3>3. Mine(c, request[c].arg)
      BY <3>1 DEF ClientsInv
    <3>4. Bound(request[c].arg[1])
      BY <3>1, <3>3, SubmittedIsBound DEF Mine
    <3>5. \A d \in Clients : pc'[d] # "idle" => pc[d] # "idle"
      BY <3>1, CallTypes
    <3> HIDE DEF r
    <3> QED
      BY <2>1, <3>1, <3>2, <3>3, <3>4, <3>5 DEF ClientsInv
  <2>7. ASSUME NEW c \in Clients, Refused(c) \/ WaitEventFlag(c) \/ Return(c) PROVE ClientsInv'
    <3>1. pc[c] # "idle" /\ \A d \in Clients \ {c} : pc'[d] = pc[d]
      BY <2>7, CallTypes DEF Refused, WaitEventFlag, Return,
           Call!Refused, Call!WaitEventFlag, Call!Return
    <3>2. UNCHANGED <<request, queued, finished, handle>>
      BY <2>7 DEF Refused, WaitEventFlag, Return,
           Call!Refused, Call!WaitEventFlag, Call!Return, managerVars
    <3> QED
      BY <2>2, <3>1, <3>2
  <2>8. ASSUME NEW r \in queued, Complete(r) \/ Cancel(r) PROVE ClientsInv'
    <3>1. Call!Complete(r) /\ UNCHANGED <<handle, pc>>
      BY <2>8 DEF Complete, Cancel, Call!Complete, managerVars
    <3>2. CallFacts!Complete(r)
      BY <3>1, SameCompletion
    <3>3. \A c \in Clients : request'[c].arg = request[c].arg
      BY <3>2, StoreKeepsArgs DEF Parts
    <3>4. queued' \cup finished' = queued \cup finished
      BY <3>1 DEF Call!Complete
    <3> QED
      BY <2>1, <3>1, <3>3, <3>4 DEF ClientsInv
  <2>9. ASSUME NEW r \in finished, RequestDone(r) PROVE ClientsInv'
    <3>1. /\ UNCHANGED <<handle, request, queued>> /\ finished' = finished \ {r}
          /\ \A c \in Clients : pc'[c] # "idle" => pc[c] # "idle"
      BY <2>9, CallTypes DEF RequestDone, Call!RequestDone, Call!SetEventFlag, Call!Waiters,
           managerVars
    <3> QED
      BY <2>1, <3>1 DEF ClientsInv
  <2>10. CASE \E c \in Clients :
              LookupStep(c) \/ Prepare(c) \/ Submit(c) \/ Refused(c) \/ WaitEventFlag(c) \/ Return(c)
    BY <2>4, <2>5, <2>6, <2>7, <2>10
  <2>11. CASE \/ \E r \in queued : Complete(r) \/ Cancel(r)
              \/ \E r \in finished : RequestDone(r)
    BY <2>8, <2>9, <2>11
  <2> QED
    BY <2>3, <2>10, <2>11 DEF SystemNext
<1> QED
  BY <1>1, <1>2, Frames

(* The inductive invariant of the composition. *)
THEOREM SystemInvariant == SystemSpec => [](QuietInv /\ ClientsInv)
<1>1. SystemInit => QuietInv /\ ClientsInv
  BY DEF SystemInit, Init, Call!Init, QuietInv, ClientsInv
<1>2. Parts /\ QuietInv /\ ClientsInv /\ [SystemNext]_systemVars => QuietInv' /\ ClientsInv'
  BY QuietStep, ClientsStep
<1>3. QED
  BY <1>1, <1>2, PartsInvariant, PTL DEF SystemSpec

(* A request that the bus holds goes to the place in usbDriver of the      *)
(* endpoint that the client's own name stands for in the file, as a        *)
(* transfer in that endpoint's direction.                                  *)
THEOREM ReachTheirEndpoint == SystemSpec => []RequestsReachTheirEndpoint
<1>1. ClientsInv => RequestsReachTheirEndpoint
  BY DEF ClientsInv, Mine, Bound, RequestsReachTheirEndpoint, Call!Held
<1>2. QED
  BY <1>1, SystemInvariant, PTL
-----------------------------------------------------------------------------
(* The argument of UsbEndpoint for a client whose names stand for nobody   *)
(* else's endpoints: one token under way from the submission to the wait,  *)
(* among the endpoints that are its own by name.                           *)
Token(c) ==
  /\ \A r \in Call!Held : r.thread = c =>
       r = CallFacts!PointerOf(c) /\ pc[c] \in {"submitted", "waiting"}
  /\ \A e \in Pointers : Mine(c, e) /\ flag[e] =>
       pc[c] = "submitted" /\ e = request[c].arg /\ CallFacts!PointerOf(c) \notin Call!Held
  /\ CallFacts!PointerOf(c) \notin queued \cap finished
  /\ pc[c] = "submitted" => flag[request[c].arg] \/ CallFacts!PointerOf(c) \in Call!Held
  /\ pc[c] = "waiting" => CallFacts!PointerOf(c) \in Call!Held

SafeInv == \A c \in SafeClients : Token(c) /\ CallFacts!Filled(c)

(* An endpoint that is a safe client's by name is nobody else's. *)
LEMMA Apart ==
  ASSUME NEW c \in SafeClients, NEW d \in Clients \ {c}, NEW e, Mine(c, e)
  PROVE  ~Mine(d, e)
  BY DEF SafeClients, Mine

(* A safe client keeps its token through every step of the calls. *)
LEMMA SystemTokenStep ==
  ASSUME CallFacts!TypeOK, ClientsInv, NEW c \in SafeClients, Token(c),
         CallFacts!Next, UNCHANGED config
  PROVE  Token(c)'
<1> USE Apart DEF CallFacts!TypeOK, Call!Held, Token, CallFacts!PointerOf
<1>0. c \in Clients /\ \A e : Mine(c, e)' <=> Mine(c, e)
  BY DEF SafeClients, Mine
<1>1. ASSUME NEW u \in Clients, NEW e \in Pointers, CallFacts!Prepare(u, e) PROVE Token(c)'
  BY <1>0, <1>1 DEF CallFacts!Prepare
<1>2. ASSUME NEW u \in Clients, CallFacts!Submit(u) PROVE Token(c)'
  BY <1>0, <1>2 DEF CallFacts!Submit
<1>3. ASSUME NEW u \in Clients, CallFacts!Refused(u) PROVE Token(c)'
  BY <1>0, <1>3 DEF CallFacts!Refused
<1>4. ASSUME NEW u \in Clients, CallFacts!WaitEventFlag(u) PROVE Token(c)'
  <2>1. CASE u = c
    <3>1. \A e \in Pointers : Mine(c, e) => ~flag'[e]
      BY <1>4, <2>1 DEF CallFacts!WaitEventFlag, CallFacts!Request
    <3>2. CASE flag[request[c].arg]
      <4>1. Mine(c, request[c].arg) /\ request[c].arg \in Pointers
        BY <1>4, <2>1 DEF CallFacts!WaitEventFlag, CallFacts!Request, ClientsInv
      <4>2. CallFacts!PointerOf(c) \notin Call!Held /\ pc'[c] = "woken"
        BY <1>0, <1>4, <2>1, <3>2, <4>1 DEF CallFacts!WaitEventFlag
      <4>3. QED
        BY <1>0, <1>4, <2>1, <3>1, <4>2 DEF CallFacts!WaitEventFlag
    <3>3. CASE ~flag[request[c].arg]
      BY <1>0, <1>4, <2>1, <3>1, <3>3 DEF CallFacts!WaitEventFlag
    <3>4. QED
      BY <3>2, <3>3
  <2>2. CASE u # c
    <3>1. Mine(u, request[u].arg)
      BY <1>4 DEF CallFacts!WaitEventFlag, ClientsInv
    <3>2. \A e \in Pointers : Mine(c, e) => flag'[e] = flag[e]
      BY <1>4, <2>2, <3>1 DEF CallFacts!WaitEventFlag, CallFacts!Request
    <3>3. pc'[c] = pc[c] /\ UNCHANGED <<calls, request, queued, finished>>
      BY <1>4, <2>2 DEF CallFacts!WaitEventFlag
    <3>4. pc[c] = "submitted" => flag'[request[c].arg] = flag[request[c].arg]
      BY <1>0, <3>2 DEF CallFacts!Request, ClientsInv
    <3>5. QED
      BY <1>0, <3>2, <3>3, <3>4
  <2>3. QED
    BY <2>1, <2>2
<1>5. ASSUME NEW u \in Clients, CallFacts!Return(u) PROVE Token(c)'
  BY <1>0, <1>5 DEF CallFacts!Return
<1>6. ASSUME NEW u \in Clients, CallFacts!Kill(u) PROVE Token(c)'
  BY <1>6 DEF CallFacts!Kill
<1>7. ASSUME NEW r \in queued, CallFacts!Complete(r) PROVE Token(c)'
  <2>1. request'[c].arg = request[c].arg
    BY <1>0, <1>7, StoreKeepsArgs
  <2>2. UNCHANGED <<pc, calls, flag>> /\ queued' = queued \ {r} /\ finished' = finished \cup {r}
    BY <1>7 DEF CallFacts!Complete
  <2>3. QED
    BY <1>0, <2>1, <2>2
<1>8. ASSUME NEW r \in finished, CallFacts!RequestDone(r) PROVE Token(c)'
  <2>1. CASE r.thread = c
    <3>1. r = CallFacts!PointerOf(c) /\ pc[c] \in {"submitted", "waiting"} /\ CallFacts!Live(r)
      BY <2>1 DEF CallFacts!Live
    <3>2. \A s \in Call!Held' : s.thread # c
      BY <1>8, <3>1 DEF CallFacts!RequestDone
    <3>3. CallFacts!SetEventFlag(request[c].arg) /\ UNCHANGED <<calls, request, queued>>
      BY <1>8, <2>1, <3>1 DEF CallFacts!RequestDone
    <3>4. Mine(c, request[c].arg) /\ request[c].arg \in Pointers
      BY <1>0, <3>1 DEF CallFacts!Request, ClientsInv
    <3>5. \A d \in CallFacts!Waiters(request[c].arg) : d = c
      BY <3>4 DEF CallFacts!Waiters, ClientsInv
    <3>6. CASE pc[c] = "waiting"
      <4>1. CallFacts!Waiters(request[c].arg) = {c}
        BY <1>0, <3>5, <3>6 DEF CallFacts!Waiters
      <4>2. pc'[c] = "woken" /\ UNCHANGED flag
        BY <1>0, <3>3, <4>1 DEF CallFacts!SetEventFlag
      <4>3. QED
        BY <1>0, <3>2, <3>3, <3>6, <4>2
    <3>7. CASE pc[c] = "submitted"
      <4>1. CallFacts!Waiters(request[c].arg) = {}
        BY <3>5, <3>7 DEF CallFacts!Waiters
      <4>2. pc'[c] = "submitted" /\ flag' = [flag EXCEPT ![request[c].arg] = TRUE]
        BY <3>3, <3>7, <4>1 DEF CallFacts!SetEventFlag
      <4>3. CallFacts!PointerOf(c)' \notin Call!Held'
        BY <3>2
      <4>4. QED
        BY <1>0, <3>2, <3>3, <3>4, <3>7, <4>2, <4>3
    <3>8. QED
      BY <3>1, <3>6, <3>7
  <2>2. CASE r.thread # c
    <3>1. /\ UNCHANGED <<calls, request, queued>>
          /\ finished' = finished \ {r}
          /\ CallFacts!PointerOf(c) # r
      BY <1>8, <2>2 DEF CallFacts!RequestDone
    <3>2. r.thread \in Clients \ {c} /\ r.ep \in Pointers /\ ~Mine(c, r.ep)
      BY <2>2 DEF CallFacts!Pointer, ClientsInv
    <3>3. pc[r.thread] # "idle" =>
            /\ request[r.thread].arg \in Pointers
            /\ ~Mine(c, request[r.thread].arg)
      BY <3>2 DEF CallFacts!Request, ClientsInv
    <3>4. ASSUME NEW e \in Pointers, ~Mine(c, e), CallFacts!SetEventFlag(e)
          PROVE  /\ pc'[c] = pc[c]
                 /\ \A f \in Pointers : Mine(c, f) => flag'[f] = flag[f]
      BY <1>0, <3>4 DEF CallFacts!SetEventFlag, CallFacts!Waiters, ClientsInv
    <3>5. /\ pc'[c] = pc[c]
          /\ \A f \in Pointers : Mine(c, f) => flag'[f] = flag[f]
      BY <1>8, <3>2, <3>3, <3>4 DEF CallFacts!RequestDone
    <3>6. pc[c] = "submitted" => flag'[request[c].arg] = flag[request[c].arg]
      BY <1>0, <3>5 DEF CallFacts!Request, ClientsInv
    <3>7. QED
      BY <1>0, <3>1, <3>5, <3>6
  <2>3. QED
    BY <2>1, <2>2
<1>9. QED
  BY <1>1, <1>2, <1>3, <1>4, <1>5, <1>6, <1>7, <1>8 DEF CallFacts!Next

(* ... and its request is filled in exactly by its own transfer. *)
LEMMA SystemFilledStep ==
  ASSUME CallFacts!TypeOK, NEW c \in SafeClients, Token(c), CallFacts!Filled(c), CallFacts!Next
  PROVE  CallFacts!Filled(c)'
<1> USE DEF CallFacts!TypeOK, Call!Held, Token, CallFacts!Filled, CallFacts!PointerOf
<1>0. c \in Clients
  BY DEF SafeClients
<1>1. ASSUME NEW u \in Clients, NEW e \in Pointers, CallFacts!Prepare(u, e)
      PROVE  CallFacts!Filled(c)'
  BY <1>0, <1>1 DEF CallFacts!Prepare
<1>2. ASSUME NEW u \in Clients, CallFacts!Submit(u) PROVE CallFacts!Filled(c)'
  BY <1>0, <1>2 DEF CallFacts!Submit
<1>3. ASSUME NEW u \in Clients, CallFacts!Refused(u) PROVE CallFacts!Filled(c)'
  BY <1>0, <1>3 DEF CallFacts!Refused
<1>4. ASSUME NEW u \in Clients, CallFacts!WaitEventFlag(u) PROVE CallFacts!Filled(c)'
  BY <1>0, <1>4 DEF CallFacts!WaitEventFlag
<1>5. ASSUME NEW u \in Clients, CallFacts!Return(u) PROVE CallFacts!Filled(c)'
  BY <1>0, <1>5 DEF CallFacts!Return
<1>6. ASSUME NEW u \in Clients, CallFacts!Kill(u) PROVE CallFacts!Filled(c)'
  BY <1>6 DEF CallFacts!Kill
<1>7. ASSUME NEW r \in queued, CallFacts!Complete(r) PROVE CallFacts!Filled(c)'
  <2>1. PICK o \in CallFacts!Outcomes :
          /\ CallFacts!Store(r, o)
          /\ outcome' = IF calls[r.thread] = r.call
                        THEN [outcome EXCEPT ![r.thread] = o] ELSE outcome
    BY <1>7 DEF CallFacts!Complete
  <2>2. r.thread \in Clients /\ UNCHANGED <<pc, calls>>
    BY <1>7 DEF CallFacts!Complete, CallFacts!Pointer
  <2>3. CASE r.thread = c
    <3>1. r = CallFacts!PointerOf(c) /\ pc[c] \in {"submitted", "waiting"} /\ CallFacts!Live(r)
      BY <2>3 DEF CallFacts!Live
    <3>2. request' = [request EXCEPT ![c].retcode = o.retcode, ![c].recvsize = o.recvsize]
      BY <2>1, <2>3, <3>1 DEF CallFacts!Store
    <3>3. outcome' = [outcome EXCEPT ![c] = o]
      BY <2>1, <2>3, <3>1
    <3>4. request'[c].retcode = o.retcode /\ request'[c].recvsize = o.recvsize
          /\ request'[c].arg = request[c].arg
      BY <1>0, <3>2 DEF CallFacts!Request
    <3>5. outcome'[c].done /\ outcome'[c] = o
      BY <1>0, <3>3 DEF CallFacts!Outcomes
    <3>6. CallFacts!PointerOf(c)' = r /\ r \notin queued'
      BY <1>7, <2>2, <3>1, <3>4 DEF CallFacts!Complete
    <3>7. QED
      BY <2>2, <3>1, <3>4, <3>5, <3>6
  <2>4. CASE r.thread # c
    <3>1. request'[c] = request[c] /\ outcome'[c] = outcome[c]
      BY <1>0, <2>1, <2>2, <2>4 DEF CallFacts!Store
    <3>2. CallFacts!PointerOf(c)' = CallFacts!PointerOf(c) /\ CallFacts!PointerOf(c) # r
      BY <2>2, <2>4, <3>1
    <3>3. CallFacts!PointerOf(c)' \in queued' <=> CallFacts!PointerOf(c) \in queued
      BY <1>7, <3>2 DEF CallFacts!Complete
    <3>4. QED
      BY <2>2, <3>1, <3>3
  <2>5. QED
    BY <2>3, <2>4
<1>8. ASSUME NEW r \in finished, CallFacts!RequestDone(r) PROVE CallFacts!Filled(c)'
  BY <1>0, <1>8 DEF CallFacts!RequestDone, CallFacts!SetEventFlag, CallFacts!Waiters,
     CallFacts!Live, CallFacts!Pointer
<1>9. QED
  BY <1>1, <1>2, <1>3, <1>4, <1>5, <1>6, <1>7, <1>8 DEF CallFacts!Next

(* Tokens are kept while the bus comes up, runs and is taken down. *)
THEOREM SafeClientsInvariant == SystemSpec => []SafeInv
<1>1. SystemInit => SafeInv
  BY DEF SystemInit, Call!Init, SafeInv, SafeClients, Token, CallFacts!Filled, Call!Held
<1>2. Parts /\ QuietInv /\ ClientsInv /\ SafeInv /\ [SystemNext]_systemVars => SafeInv'
  <2> SUFFICES ASSUME Parts, QuietInv, ClientsInv, SafeInv, [SystemNext]_systemVars
               PROVE  SafeInv'
    OBVIOUS
  <2>1. CASE step \notin Stopping /\ UNCHANGED <<callVars, handle>>
    <3>1. /\ \A c \in Clients : pc'[c] = "idle"
          /\ queued' = {} /\ finished' = {}
          /\ \A e \in Pointers : ~flag'[e]
      BY <2>1 DEF QuietInv, callVars
    <3> QED
      BY <3>1 DEF SafeInv, SafeClients, Token, CallFacts!Filled, Call!Held
  <2>2. CASE step \in Stopping /\ UNCHANGED config
    <3> SUFFICES ASSUME NEW c \in SafeClients PROVE Token(c)' /\ CallFacts!Filled(c)'
      BY DEF SafeInv, SafeClients
    <3>1. Token(c) /\ CallFacts!Filled(c) /\ CallFacts!TypeOK
      BY DEF SafeInv, Parts
    <3>2. CASE CallFacts!Next
      BY <2>2, <3>1, <3>2, SystemTokenStep, SystemFilledStep
    <3>3. CASE UNCHANGED CallFacts!vars
      BY <2>2, <3>1, <3>3 DEF CallFacts!vars, Token, CallFacts!Filled, CallFacts!PointerOf,
         Call!Held, Mine
    <3> QED
      BY <3>2, <3>3, CallsSimulated DEF Parts
  <2> QED
    BY <2>1, <2>2, Frames
<1>3. QED
  BY <1>1, <1>2, PartsInvariant, SystemInvariant, PTL DEF SystemSpec

(* A client whose names nobody else's are cut to is woken only by the end  *)
(* of its own transfer, and reads that transfer's fields.                  *)
THEOREM WokenByOwn == SystemSpec => []WokenByOwnTransfer
<1>1. SafeInv => WokenByOwnTransfer
  <2> SUFFICES ASSUME SafeInv, NEW c \in SafeClients, pc[c] = "woken"
               PROVE  /\ outcome[c].done
                      /\ request[c].retcode = outcome[c].retcode
                      /\ request[c].recvsize = outcome[c].recvsize
    BY DEF WokenByOwnTransfer
  <2>1. CallFacts!PointerOf(c).thread = c
    BY DEF CallFacts!PointerOf
  <2>2. CallFacts!PointerOf(c) \notin queued
    BY <2>1 DEF SafeInv, Token, Call!Held
  <2> QED
    BY <2>2 DEF SafeInv, CallFacts!Filled
<1>2. QED
  BY <1>1, SafeClientsInvariant, PTL
=============================================================================
