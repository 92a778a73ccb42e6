---------------------------- MODULE UsbReadWrite ----------------------------
(***************************************************************************)
(* The example of src/examples/usbreadwrite, both ends of it: a program on *)
(* the host writes a string to one endpoint and reads another, a plugin    *)
(* reads the first and writes what it got to the second.  Neither end has  *)
(* a timeout, and nothing in what they send says where a string begins.    *)
(*                                                                         *)
(* A call of tktUsbRead or tktUsbWrite is open from its submission to its  *)
(* return, as in TransferService, which UsbEndpoint shows that it          *)
(* implements.  The wire is external: bulk transfers in packets.  A read,  *)
(* of either end, ends with a packet that is not full or with the buffer.  *)
(***************************************************************************)
EXTENDS Integers, Sequences

CONSTANTS
  PacketSize,    (* MAX_PACKET_SIZE_FULL or MAX_PACKET_SIZE_HI             *)
  BufferSize,    (* BUFFER_SIZE of the plugin, and the size of data on the *)
                 (* host                                                   *)
  MaxLength,     (* bound: bytes of a string                               *)
  MaxRuns        (* bound: runs of the program on the host                 *)

ASSUME ExampleAssumption ==
  /\ PacketSize \in Nat \ {0}
  /\ BufferSize \in Nat \ {0}
  /\ BufferSize % PacketSize = 0
  /\ MaxLength \in Nat
  /\ MaxRuns \in Nat

VARIABLES
  plugin,        (* module_start and module_stop; "running" between them   *)
  thread,        (* where mainThread stands                                *)
  buffer,        (* its buffer                                             *)
  size,          (* READ_SIZE                                              *)
  recv,          (* the request of tktUsbRead                              *)
  send,          (* the request of tktUsbWrite                             *)
  attached,      (* the cable is in                                        *)
  host,          (* where main of the host stands, "none" between runs     *)
  string,        (* STRING                                                 *)
  out,           (* what of it is still to be sent                         *)
  in,            (* data of readLibusb                                     *)
  runs,          (* counts the runs                                        *)
  broken         (* history: a run was broken off, and none has been       *)
                 (* printed since                                          *)

vars == <<plugin, thread, buffer, size, recv, send, attached, host, string, out, in, runs, broken>>
pluginVars == <<plugin, thread, buffer, size>>
hostVars == <<host, string, out, in, runs, broken>>

-----------------------------------------------------------------------------
Byte == (1..MaxRuns) \X (1..MaxLength)
Junk == <<0, 0>>

(* The argument of each run is a string of its own. *)
String(run, length) == [i \in 1..length |-> <<run, i>>]

Request(data, length) == [state |-> "open", data |-> data, size |-> length]
NoRequest == [state |-> "none", data |-> <<>>, size |-> 0]
Cancelled(request) ==
  IF request.state = "open" THEN [request EXCEPT !.state = "failed"] ELSE request

Smaller(m, n) == IF m < n THEN m ELSE n

(* The next packet of data, and the rest.  No data are one empty packet. *)
Packet(data) == SubSeq(data, 1, Smaller(PacketSize, Len(data)))
Rest(data) == SubSeq(data, Len(Packet(data)) + 1, Len(data))

-----------------------------------------------------------------------------
Init ==
  /\ plugin = "unloaded"
  /\ thread = "none"
  /\ buffer = [i \in 1..BufferSize |-> Junk]
  /\ size = 0
  /\ recv = NoRequest
  /\ send = NoRequest
  /\ attached \in BOOLEAN
  /\ host = "none"
  /\ string = <<>>
  /\ out = <<>>
  /\ in = <<>>
  /\ runs = 0
  /\ broken = FALSE

(* module_start leaves no thread when an endpoint is missing or the thread *)
(* cannot be created, and a dormant one when it cannot be started.         *)
StartPlugin ==
  /\ plugin = "unloaded"
  /\ plugin' = "running"
  /\ thread' \in {"none", "dormant", "loop"}
  /\ UNCHANGED <<buffer, size, recv, send, attached, hostVars>>

Goes(place) == thread' = place /\ UNCHANGED <<plugin, attached, hostVars>>

(* while( ended == 0 ) *)
Loop ==
  /\ thread = "loop"
  /\ Goes(IF plugin = "running" THEN "delay" ELSE "exited")
  /\ UNCHANGED <<buffer, size, recv, send>>

(* The delay is over, and tktUsbRead is called. *)
Read ==
  /\ thread = "delay"
  /\ Goes("reading")
  /\ recv' = Request(<<>>, BufferSize)
  /\ UNCHANGED <<buffer, size, send>>

(* Without a host the bus may refuse a request at once. *)
ReadRefused ==
  /\ thread = "delay"
  /\ ~attached
  /\ Goes("loop")
  /\ UNCHANGED <<buffer, size, recv, send>>

(* Mutants: the sign of READ_SIZE is not looked at, and what the buffer    *)
(* holds is sent again; the thread ends with the first error.              *)
ReadFailsUnchecked ==
  /\ thread = "reading" /\ recv.state = "failed"
  /\ Goes("echo")
  /\ recv' = NoRequest
  /\ UNCHANGED <<buffer, size, send>>
ReadFailsForGood ==
  /\ thread = "reading" /\ recv.state = "failed"
  /\ Goes("exited")
  /\ recv' = NoRequest
  /\ UNCHANGED <<buffer, size, send>>

(* READ_SIZE < 0: another turn of the loop. *)
ReadFails ==
  /\ thread = "reading" /\ recv.state = "failed"
  /\ Goes("loop")
  /\ recv' = NoRequest
  /\ UNCHANGED <<buffer, size, send>>

ReadReturns ==
  /\ thread = "reading" /\ recv.state = "done"
  /\ Goes("echo")
  /\ buffer' = [i \in DOMAIN buffer |-> IF i <= Len(recv.data) THEN recv.data[i] ELSE buffer[i]]
  /\ size' = Len(recv.data)
  /\ recv' = NoRequest
  /\ UNCHANGED send

(* Mutant: sizeof( buffer ) for READ_SIZE. *)
WriteBuffer ==
  /\ thread = "echo"
  /\ Goes("writing")
  /\ send' = Request(buffer, BufferSize)
  /\ UNCHANGED <<buffer, size, recv>>

Write ==
  /\ thread = "echo"
  /\ Goes("writing")
  /\ send' = Request(SubSeq(buffer, 1, size), size)
  /\ UNCHANGED <<buffer, size, recv>>

WriteRefused ==
  /\ thread = "echo"
  /\ ~attached
  /\ Goes("loop")
  /\ UNCHANGED <<buffer, size, recv, send>>

(* The result of tktUsbWrite is not looked at. *)
WriteReturns ==
  /\ thread = "writing" /\ send.state \in {"done", "failed"}
  /\ Goes("loop")
  /\ send' = NoRequest
  /\ UNCHANGED <<buffer, size, recv>>

(* module_stop sets ended... *)
StopPlugin ==
  /\ plugin = "running"
  /\ plugin' = "stopping"
  /\ UNCHANGED <<thread, buffer, size, recv, send, attached, hostVars>>

(* ... and terminates the thread wherever it is.  The bus keeps the        *)
(* requests, whose data are on a stack that is no longer the thread's.     *)
TerminateThread ==
  /\ plugin = "stopping"
  /\ plugin' = "stopped"
  /\ thread' = "none"
  /\ send' \in {send, [send EXCEPT !.data = [i \in DOMAIN send.data |-> Junk]]}
  /\ UNCHANGED <<buffer, size, recv, attached, hostVars>>

-----------------------------------------------------------------------------
(* The program on the host opens the device and begins to write. *)
HostWrite(length) ==
  /\ host = "none"
  /\ attached
  /\ runs < MaxRuns
  /\ runs' = runs + 1
  /\ string' = String(runs', length)
  /\ out' = string'
  /\ in' = <<>>
  /\ host' = "writing"
  /\ UNCHANGED <<pluginVars, recv, send, attached, broken>>

(* A packet is taken by an open read of the plugin, or waits for one; with *)
(* the last one libusb_bulk_transfer returns, and the host reads.          *)
PacketOut ==
  /\ host = "writing"
  /\ recv.state = "open"
  /\ LET packet == Packet(out)
         data   == recv.data \o packet
     IN  recv' = [recv EXCEPT
                    !.data  = data,
                    !.state = IF Len(packet) < PacketSize \/ Len(data) >= recv.size
                              THEN "done" ELSE "open"]
  /\ out' = Rest(out)
  /\ host' = IF out' = <<>> THEN "reading" ELSE "writing"
  /\ UNCHANGED <<pluginVars, send, attached, string, in, runs, broken>>

(* A packet of an open write of the plugin goes to the host that reads.    *)
PacketIn ==
  /\ host = "reading"
  /\ send.state = "open"
  /\ LET packet == Packet(send.data)
     IN  /\ in' = in \o packet
         /\ host' = IF Len(packet) < PacketSize \/ Len(in') >= BufferSize
                    THEN "printing" ELSE "reading"
  /\ send' = [send EXCEPT !.data = Rest(send.data),
                          !.state = IF Rest(send.data) = <<>> THEN "done" ELSE "open"]
  /\ UNCHANGED <<pluginVars, recv, attached, string, out, runs, broken>>

(* The string is printed, and the handle resets the device and closes it.  *)
(* A reset cancels what is open, or passes it by.                          *)
Close ==
  /\ host = "printing"
  /\ host' = "none"
  /\ broken' = FALSE
  /\ recv' \in {recv, Cancelled(recv)}
  /\ send' \in {send, Cancelled(send)}
  /\ UNCHANGED <<pluginVars, attached, string, out, in, runs>>

(* The user ends the program, which then resets nothing. *)
Interrupt ==
  /\ host # "none"
  /\ host' = "none"
  /\ broken' = TRUE
  /\ UNCHANGED <<pluginVars, recv, send, attached, string, out, in, runs>>

(* The cable is pulled: the bus cancels what is open, and a transfer of    *)
(* the host fails, which is an exception that nobody catches.              *)
Detach ==
  /\ attached
  /\ attached' = FALSE
  /\ recv' = Cancelled(recv)
  /\ send' = Cancelled(send)
  /\ IF host \in {"writing", "reading"}
     THEN host' = "none" /\ broken' = TRUE
     ELSE UNCHANGED <<host, broken>>
  /\ UNCHANGED <<pluginVars, string, out, in, runs>>

Attach ==
  /\ ~attached
  /\ attached' = TRUE
  /\ UNCHANGED <<pluginVars, recv, send, hostVars>>

-----------------------------------------------------------------------------
ThreadStep ==
  \/ Loop \/ Read \/ ReadRefused \/ ReadFails \/ ReadReturns
  \/ Write \/ WriteRefused \/ WriteReturns

Next ==
  \/ StartPlugin \/ StopPlugin \/ TerminateThread
  \/ Loop \/ Read \/ ReadRefused \/ ReadFails \/ ReadReturns
  \/ Write \/ WriteRefused \/ WriteReturns
  \/ \E length \in 0..MaxLength : HostWrite(length)
  \/ PacketOut \/ PacketIn \/ Close
  \/ Interrupt \/ Detach \/ Attach

Spec == Init /\ [][Next]_vars

(* The kernel schedules the thread, and the wire and the host go on. *)
FairSpec ==
  Spec /\ WF_vars(ThreadStep) /\ WF_vars(PacketOut) /\ WF_vars(PacketIn) /\ WF_vars(Close)
-----------------------------------------------------------------------------
Requests == [state : {"none", "open", "done", "failed"}, data : Seq(Byte \cup {Junk}), size : Nat]

(* Every variable has its type; no request moves more than the buffer      *)
(* holds.                                                                  *)
TypeOK ==
  /\ plugin \in {"unloaded", "running", "stopping", "stopped"}
  /\ thread \in {"none", "dormant", "loop", "delay", "reading", "echo", "writing", "exited"}
  /\ buffer \in [1..BufferSize -> Byte \cup {Junk}]
  /\ size \in 0..BufferSize
  /\ recv \in Requests /\ Len(recv.data) <= BufferSize
  /\ send \in Requests /\ Len(send.data) <= BufferSize
  /\ attached \in BOOLEAN
  /\ host \in {"none", "writing", "reading", "printing"}
  /\ string \in Seq(Byte) /\ out \in Seq(Byte)
  /\ in \in Seq(Byte \cup {Junk})
  /\ runs \in 0..MaxRuns
  /\ broken \in BOOLEAN

(* mainThread has been started and not told to end. *)
Serving == plugin = "running" /\ thread \notin {"none", "dormant"}

(* A string that one read of either end takes whole, and ends with. *)
Fits(s) ==
  /\ Len(s) <= BufferSize
  /\ Len(s) = 0 \/ Len(s) = BufferSize \/ Len(s) % PacketSize # 0

(* What the host prints is the string it was run with, whatever earlier    *)
(* runs have sent, unless one was broken off and none has been printed     *)
(* since, or the plugin was stopped.                                       *)
OwnEcho ==
  host = "printing" /\ ~broken /\ plugin # "stopped" => in = string

(* Between runs neither direction holds a byte of the last one for the     *)
(* next to trip on.                                                        *)
NothingStale ==
  host = "none" /\ ~broken /\ plugin # "stopped" =>
    /\ recv.data = <<>>
    /\ send.state # "open"
    /\ thread # "echo"

(* Every run of the host with a string that fits comes to its end, unless  *)
(* the user breaks it off or the plugin is stopped.                        *)
EchoArrives ==
  host = "writing" /\ Fits(string) /\ ~broken /\ Serving
    ~> host = "printing" \/ broken \/ ~Serving
=============================================================================
