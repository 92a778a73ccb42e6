-------------------------- MODULE UsbReadWriteProofs --------------------------
(***************************************************************************)
(* Proofs about UsbReadWrite, for packets, buffers, strings and numbers of *)
(* runs of any size.                                                       *)
(***************************************************************************)
EXTENDS UsbReadWrite, SequenceTheorems, TLAPS

Data == Byte \cup {Junk}

(* Where the requests are, and how far an open read has come: some full    *)
(* packets, and room for another.                                          *)
RequestsInv ==
  /\ plugin = "unloaded" => thread = "none"
  /\ plugin # "stopped" /\ thread # "reading" => recv = NoRequest
  /\ plugin # "stopped" /\ thread # "writing" => send = NoRequest
  /\ recv.state = "open" =>
       /\ recv.size = BufferSize /\ Len(recv.data) < BufferSize
       /\ \E k \in Nat : Len(recv.data) = k * PacketSize

(* The plugin holds nothing of a string. *)
Clean ==
  /\ recv.data = <<>> /\ recv.state # "done"
  /\ send.state # "open"
  /\ thread # "echo"

(* The places of a run's string, as it goes round: some of it read and the *)
(* rest still with the host; more of it than the buffer held; read whole;  *)
(* in the buffer; on its way back.                                         *)
Outward ==
  /\ recv.data \o out = string
  /\ recv.state # "done" /\ (recv.state = "failed" => recv.data = <<>>)
  /\ send.state # "open"
  /\ thread # "echo"

Overrun ==
  /\ out # <<>>
  /\ \/ thread = "reading" /\ recv.state = "done"
     \/ thread = "echo"
     \/ thread = "writing" /\ send.state = "open"

Arrived ==
  /\ thread = "reading" /\ recv.state \in {"open", "done"}
  /\ in = <<>>
  /\ ~broken => recv.data = string

Buffered ==
  /\ thread = "echo"
  /\ in = <<>>
  /\ ~broken => SubSeq(buffer, 1, size) = string

Returning ==
  /\ thread = "writing" /\ send.state = "open"
  /\ Len(in \o send.data) <= BufferSize
  /\ ~broken => in \o send.data = string

(* Where the string can be, for each place of the host. *)
HostInv ==
  /\ host \in {"writing", "reading"} => attached
  /\ host = "writing" => in = <<>>
  /\ host = "reading" => out = <<>>

RunInv ==
  /\ host = "none" /\ ~broken => Clean
  /\ host = "writing" /\ ~broken => Outward \/ Overrun
  /\ host = "reading" => Arrived \/ Buffered \/ Returning \/ Clean
  /\ host = "printing" => Clean /\ (~broken => in = string)

ExampleInv == TypeOK /\ RequestsInv /\ HostInv /\ (plugin # "stopped" => RunInv)
-----------------------------------------------------------------------------
(* Multiples of the packet size lie a packet apart. *)
LEMMA NextMultiple ==
  ASSUME NEW k \in Nat, k * PacketSize < BufferSize
  PROVE  (k + 1) * PacketSize <= BufferSize
<1>1. PacketSize \in Nat /\ PacketSize > 0 /\ BufferSize \in Nat
  BY ExampleAssumption
<1>2. PICK q \in Nat : BufferSize = q * PacketSize
  <2> DEFINE q == BufferSize \div PacketSize
  <2>1. BufferSize = PacketSize * q + (BufferSize % PacketSize) /\ q \in Nat
    BY <1>1
  <2>2. BufferSize % PacketSize = 0
    BY ExampleAssumption
  <2> HIDE DEF q
  <2>3. PacketSize * q \in Nat /\ PacketSize * q = q * PacketSize
    BY <1>1, <2>1
  <2>4. BufferSize = q * PacketSize
    BY <2>1, <2>2, <2>3
  <2>5. QED
    BY <2>1, <2>4
<1>3. k < q
  <2>1. SUFFICES ASSUME q <= k PROVE FALSE
    OBVIOUS
  <2>2. q * PacketSize <= k * PacketSize
    BY <1>1, <2>1
  <2>3. QED
    BY <1>1, <1>2, <2>2
<1>4. (k + 1) * PacketSize <= q * PacketSize
  BY <1>1, <1>3
<1>5. QED
  BY <1>2, <1>4

(* A packet and the rest are the data; a packet that is not full is all of *)
(* them.                                                                   *)
LEMMA Packets ==
  ASSUME NEW S, NEW d \in Seq(S)
  PROVE  /\ Packet(d) \in Seq(S) /\ Rest(d) \in Seq(S)
         /\ Packet(d) \o Rest(d) = d
         /\ Len(d) = Len(Packet(d)) + Len(Rest(d))
         /\ Len(Packet(d)) <= PacketSize
         /\ Len(Packet(d)) < PacketSize => Rest(d) = <<>>
<1> DEFINE n == Smaller(PacketSize, Len(d))
<1>1. Len(d) \in Nat /\ PacketSize \in Nat
  BY LenProperties, ExampleAssumption
<1>2. n \in 0..Len(d) /\ n <= PacketSize /\ (n < PacketSize => n = Len(d))
  BY <1>1 DEF Smaller
<1>3. \A i \in 1..Len(d) : d[i] \in S
  BY ElementOfSeq
<1> HIDE DEF n
<1>4. SubSeq(d, 1, n) \in Seq(S) /\ Len(SubSeq(d, 1, n)) = n
  <2>1. \A i \in 1..n : d[i] \in S
    BY <1>1, <1>2, <1>3
  <2>2. n \in Int /\ 1 \in Int
    BY <1>1, <1>2
  <2>3. /\ SubSeq(d, 1, n) \in Seq(S)
        /\ Len(SubSeq(d, 1, n)) = IF 1 <= n THEN n - 1 + 1 ELSE 0
    BY <2>1, <2>2, SubSeqProperties
  <2>4. QED
    BY <1>1, <1>2, <2>3
<1>5. Packet(d) = SubSeq(d, 1, n)
  BY DEF Packet, n
<1>6. Rest(d) = SubSeq(d, n + 1, Len(d))
  BY <1>4, <1>5 DEF Rest
<1>7. SubSeq(d, n + 1, Len(d)) \in Seq(S) /\ Len(SubSeq(d, n + 1, Len(d))) = Len(d) - n
  <2>1. \A i \in (n + 1)..Len(d) : d[i] \in S
    BY <1>1, <1>2, <1>3
  <2>2. n + 1 \in Int /\ Len(d) \in Int
    BY <1>1, <1>2
  <2>3. /\ SubSeq(d, n + 1, Len(d)) \in Seq(S)
        /\ Len(SubSeq(d, n + 1, Len(d))) = IF n + 1 <= Len(d) THEN Len(d) - (n + 1) + 1 ELSE 0
    BY <2>1, <2>2, SubSeqProperties
  <2>4. QED
    BY <1>1, <1>2, <2>3
<1>8. SubSeq(d, 1, n) \o SubSeq(d, n + 1, Len(d)) = d
  <2>1. 1 \in 1..(Len(d) + 1) /\ n \in (1 - 1)..Len(d) /\ Len(d) \in n..Len(d)
    BY <1>1, <1>2
  <2>2. SubSeq(d, 1, n) \o SubSeq(d, n + 1, Len(d)) = SubSeq(d, 1, Len(d))
    BY <2>1, ConcatAdjacentSubSeq
  <2>3. QED
    BY <2>2, SubSeqFull
<1>9. n < PacketSize => SubSeq(d, n + 1, Len(d)) = <<>>
  <2>1. n < PacketSize => Len(d) < n + 1
    BY <1>1, <1>2
  <2>2. n + 1 \in Int /\ Len(d) \in Int
    BY <1>1, <1>2
  <2>3. QED
    BY <2>1, <2>2, SubSeqEmpty
<1>10. Len(d) = n + (Len(d) - n)
  BY <1>1, <1>2
<1>11. QED
  BY <1>2, <1>4, <1>5, <1>6, <1>7, <1>8, <1>9, <1>10

(* What a read has put at the front of the buffer is what is there. *)
LEMMA BufferFilled ==
  ASSUME NEW b \in [1..BufferSize -> Data], NEW d \in Seq(Data), Len(d) <= BufferSize
  PROVE  LET c == [i \in DOMAIN b |-> IF i <= Len(d) THEN d[i] ELSE b[i]]
         IN  c \in [1..BufferSize -> Data] /\ SubSeq(c, 1, Len(d)) = d
<1> DEFINE c == [i \in DOMAIN b |-> IF i <= Len(d) THEN d[i] ELSE b[i]]
<1>1. Len(d) \in Nat /\ BufferSize \in Nat
  BY LenProperties, ExampleAssumption
<1>2. \A i \in 1..Len(d) : d[i] \in Data
  BY ElementOfSeq
<1>3. DOMAIN b = 1..BufferSize
  OBVIOUS
<1>4. c \in [1..BufferSize -> Data]
  BY <1>1, <1>2, <1>3
<1>5. \A i \in 1..Len(d) : c[i] = d[i]
  BY <1>1, <1>3
<1> HIDE DEF c
<1>6. /\ SubSeq(c, 1, Len(d)) \in Seq(Data)
      /\ Len(SubSeq(c, 1, Len(d))) = Len(d)
      /\ \A i \in 1..Len(d) : SubSeq(c, 1, Len(d))[i] = c[i]
  <2>1. \A i \in 1..Len(d) : c[i] \in Data
    BY <1>2, <1>5
  <2>2. 1 \in Int /\ Len(d) \in Int
    BY <1>1
  <2>3. /\ SubSeq(c, 1, Len(d)) \in Seq(Data)
        /\ Len(SubSeq(c, 1, Len(d))) = IF 1 <= Len(d) THEN Len(d) - 1 + 1 ELSE 0
        /\ \A i \in 1..(Len(d) - 1 + 1) : SubSeq(c, 1, Len(d))[i] = c[1 + i - 1]
    BY <2>1, <2>2, SubSeqProperties
  <2>4. Len(d) - 1 + 1 = Len(d) /\ \A i \in 1..Len(d) : 1 + i - 1 = i
    BY <1>1
  <2>5. Len(SubSeq(c, 1, Len(d))) = Len(d)
    BY <1>1, <2>3
  <2>6. QED
    BY <2>3, <2>4, <2>5
<1>7. SubSeq(c, 1, Len(d)) = d
  BY <1>5, <1>6, SeqEqual
<1>8. QED
  BY <1>4, <1>7 DEF c

(* Any front of the buffer is a sequence of its length. *)
LEMMA BufferFront ==
  ASSUME NEW b \in [1..BufferSize -> Data], NEW n \in 0..BufferSize
  PROVE  SubSeq(b, 1, n) \in Seq(Data) /\ Len(SubSeq(b, 1, n)) = n
<1>1. BufferSize \in Nat
  BY ExampleAssumption
<1>2. \A i \in 1..n : b[i] \in Data
  BY <1>1
<1>3. 1 \in Int /\ n \in Int
  BY <1>1
<1>4. /\ SubSeq(b, 1, n) \in Seq(Data)
      /\ Len(SubSeq(b, 1, n)) = IF 1 <= n THEN n - 1 + 1 ELSE 0
  BY <1>2, <1>3, SubSeqProperties
<1>5. QED
  BY <1>1, <1>4
-----------------------------------------------------------------------------
(* Data put together from left or from right are the same. *)
LEMMA Regrouped ==
  \A a, b, c \in Seq(Data) : (a \o b) \o c = a \o (b \o c)
BY ConcatAssociative

(* What a read holds when another packet has been put behind its data. *)
LEMMA AnotherPacket ==
  ASSUME TypeOK, RequestsInv, PacketOut
  PROVE  /\ recv' \in Requests /\ Len(recv'.data) <= BufferSize
         /\ out' \in Seq(Byte)
         /\ recv'.data \o out' = recv.data \o out
         /\ recv'.state \in {"open", "done"} /\ recv'.size = BufferSize
         /\ recv'.state = "open" =>
              /\ Len(recv'.data) < BufferSize
              /\ \E k \in Nat : Len(recv'.data) = k * PacketSize
<1> DEFINE packet == Packet(out)
           data == recv.data \o packet
<1>1. recv.state = "open" /\ recv.data \in Seq(Data) /\ recv.size = BufferSize /\ out \in Seq(Byte)
  BY DEF TypeOK, RequestsInv, PacketOut, Requests, Data
<1>2. Len(recv.data) \in Nat /\ PacketSize \in Nat \ {0} /\ BufferSize \in Nat
  BY <1>1, LenProperties, ExampleAssumption
<1>3. /\ packet \in Seq(Byte) /\ Rest(out) \in Seq(Byte)
      /\ packet \o Rest(out) = out
      /\ Len(packet) <= PacketSize /\ Len(packet) \in Nat
  BY <1>1, Packets, LenProperties
<1>4. packet \in Seq(Data) /\ Rest(out) \in Seq(Data)
  <2>1. Byte \subseteq Data
    BY DEF Data
  <2>2. QED
    BY <1>3, <2>1, SeqMonotonic
<1> HIDE DEF packet
<1>5. data \in Seq(Data) /\ Len(data) = Len(recv.data) + Len(packet)
  BY <1>1, <1>4, ConcatProperties
<1>6. PICK k \in Nat : Len(recv.data) = k * PacketSize
  BY <1>1 DEF RequestsInv
<1>7. (k + 1) * PacketSize <= BufferSize /\ (k + 1) * PacketSize = Len(recv.data) + PacketSize
  <2>1. k * PacketSize < BufferSize
    BY <1>1, <1>6 DEF RequestsInv
  <2>2. (k + 1) * PacketSize <= BufferSize
    BY <2>1, NextMultiple
  <2>3. (k + 1) * PacketSize = k * PacketSize + PacketSize
    BY <1>2
  <2>4. QED
    BY <1>6, <2>2, <2>3
<1>8. Len(data) <= BufferSize
  <2>1. Len(data) <= Len(recv.data) + PacketSize
    BY <1>2, <1>3, <1>5
  <2>2. (k + 1) * PacketSize \in Nat
    BY <1>2
  <2>3. Len(data) \in Nat
    BY <1>2, <1>3, <1>5
  <2>4. QED
    BY <1>2, <1>7, <2>1, <2>2, <2>3
<1>9. /\ recv' = [recv EXCEPT
                    !.data  = data,
                    !.state = IF Len(packet) < PacketSize \/ Len(data) >= recv.size
                              THEN "done" ELSE "open"]
      /\ out' = Rest(out)
  BY DEF PacketOut, packet
<1> HIDE DEF data
<1>10. recv' \in Requests /\ recv'.data = data /\ recv'.size = recv.size
  BY <1>5, <1>9 DEF TypeOK, Requests, Data
<1>11. recv'.state = IF Len(packet) < PacketSize \/ Len(data) >= recv.size
                     THEN "done" ELSE "open"
  BY <1>9 DEF TypeOK, Requests
<1>12. data \o Rest(out) = recv.data \o out
  <2>1. recv.data \in Seq(Data)
    BY <1>1
  <2>2. (recv.data \o packet) \o Rest(out) = recv.data \o (packet \o Rest(out))
    BY <1>4, <2>1, Regrouped
  <2>3. packet \o Rest(out) = out
    BY <1>3
  <2>4. QED
    BY <2>2, <2>3 DEF data
<1>13. recv'.state = "open" =>
         Len(data) < BufferSize /\ Len(data) = (k + 1) * PacketSize /\ k + 1 \in Nat
  <2>1. SUFFICES ASSUME recv'.state = "open"
                 PROVE  Len(data) < BufferSize /\ Len(data) = (k + 1) * PacketSize
    OBVIOUS
  <2>2. ~(Len(packet) < PacketSize) /\ ~(Len(data) >= recv.size)
    BY <1>11, <2>1
  <2>3. Len(packet) = PacketSize
    BY <1>2, <1>3, <2>2
  <2>4. Len(data) < BufferSize
    BY <1>1, <1>2, <1>3, <1>5, <2>2
  <2>5. QED
    BY <1>5, <1>7, <2>3, <2>4
<1>14. recv'.state \in {"open", "done"}
  BY <1>11
<1>15. QED
  BY <1>1, <1>3, <1>8, <1>9, <1>10, <1>12, <1>13, <1>14

(* What the host holds when another packet has come in. *)
LEMMA PacketTaken ==
  ASSUME TypeOK, PacketIn
  PROVE  /\ send' \in Requests /\ Len(send'.data) <= Len(send.data)
         /\ in' \in Seq(Data)
         /\ in' \o send'.data = in \o send.data
         /\ send'.state = IF send'.data = <<>> THEN "done" ELSE "open"
         /\ Len(in') + Len(send'.data) = Len(in \o send.data)
         /\ host' = "printing" /\ Len(in \o send.data) <= BufferSize => send'.data = <<>>
<1> DEFINE packet == Packet(send.data)
           rest == Rest(send.data)
<1>1. send.data \in Seq(Data) /\ in \in Seq(Data) /\ send \in Requests
  BY DEF TypeOK, Requests, Data
<1>2. /\ packet \in Seq(Data) /\ rest \in Seq(Data)
      /\ packet \o rest = send.data
      /\ Len(send.data) = Len(packet) + Len(rest)
      /\ Len(packet) < PacketSize => rest = <<>>
  BY <1>1, Packets
<1>3. /\ in' = in \o packet
      /\ host' = IF Len(packet) < PacketSize \/ Len(in') >= BufferSize
                 THEN "printing" ELSE "reading"
      /\ send' = [send EXCEPT !.data = rest, !.state = IF rest = <<>> THEN "done" ELSE "open"]
  BY DEF PacketIn
<1> HIDE DEF packet, rest
<1>4. send' \in Requests /\ send'.data = rest
      /\ send'.state = IF rest = <<>> THEN "done" ELSE "open"
  BY <1>1, <1>2, <1>3 DEF Requests, Data
<1>5. in' \in Seq(Data) /\ Len(in') = Len(in) + Len(packet)
  BY <1>1, <1>2, <1>3, ConcatProperties
<1>6. in' \o rest = in \o send.data
  <2>1. in \in Seq(Data) /\ packet \in Seq(Data) /\ rest \in Seq(Data)
    BY <1>1, <1>2
  <2>2. (in \o packet) \o rest = in \o (packet \o rest)
    BY <2>1, Regrouped
  <2>3. packet \o rest = send.data /\ in' = in \o packet
    BY <1>2, <1>3
  <2>4. QED
    BY <2>2, <2>3
<1>7. Len(in \o send.data) = Len(in') + Len(rest)
  <2>1. Len(in' \o rest) = Len(in') + Len(rest)
    BY <1>2, <1>5, ConcatProperties
  <2>2. QED
    BY <1>6, <2>1
<1>8. Len(rest) \in Nat /\ Len(packet) \in Nat /\ Len(in') \in Nat /\ (rest # <<>> => Len(rest) > 0)
  BY <1>2, <1>5, LenProperties, EmptySeq
<1>9. Len(rest) <= Len(send.data)
  BY <1>2, <1>8
<1>10. ASSUME host' = "printing", Len(in \o send.data) <= BufferSize
       PROVE  rest = <<>>
  <2>1. CASE Len(packet) < PacketSize
    BY <1>2, <2>1
  <2>2. CASE Len(in') >= BufferSize
    <3>1. Len(rest) <= 0
      BY <1>7, <1>8, <1>10, <2>2, ExampleAssumption
    <3>2. QED
      BY <1>8, <3>1
  <2>3. QED
    BY <1>3, <1>10, <2>1, <2>2
<1>11. QED
  BY <1>4, <1>5, <1>6, <1>7, <1>9, <1>10
-----------------------------------------------------------------------------
LEMMA NoRequestIsOne ==
  NoRequest \in Requests /\ NoRequest.data = <<>> /\ Len(NoRequest.data) = 0
  /\ NoRequest.state = "none"
<1>1. <<>> \in Seq(Data) /\ Len(<<>>) = 0
  BY EmptySeq
<1>2. QED
  BY <1>1 DEF NoRequest, Requests, Data

LEMMA InitHolds == Init => ExampleInv
<1> SUFFICES ASSUME Init PROVE ExampleInv
  OBVIOUS
<1>1. recv = NoRequest /\ send = NoRequest
  BY DEF Init
<1>2. BufferSize \in Nat /\ MaxRuns \in Nat
  BY ExampleAssumption
<1>3. <<>> \in Seq(Byte) /\ <<>> \in Seq(Byte \cup {Junk})
  BY EmptySeq
<1>4. TypeOK
  <2>1. buffer \in [1..BufferSize -> Byte \cup {Junk}] /\ size \in 0..BufferSize /\ runs \in 0..MaxRuns
    BY <1>2 DEF Init
  <2>2. /\ recv \in Requests /\ Len(recv.data) <= BufferSize
        /\ send \in Requests /\ Len(send.data) <= BufferSize
    BY <1>1, <1>2, NoRequestIsOne
  <2>3. QED
    BY <1>3, <2>1, <2>2 DEF Init, TypeOK
<1>5. RequestsInv /\ HostInv
  BY <1>1, NoRequestIsOne DEF Init, RequestsInv, HostInv
<1>6. RunInv
  BY <1>1, NoRequestIsOne DEF Init, RunInv, Clean
<1>7. QED
  BY <1>4, <1>5, <1>6 DEF ExampleInv

(* A request that is given up is one still, with the same data. *)
LEMMA CancelledIsOne ==
  ASSUME NEW r \in Requests
  PROVE  /\ Cancelled(r) \in Requests
         /\ Cancelled(r).data = r.data /\ Cancelled(r).size = r.size
         /\ Cancelled(r).state # "open"
         /\ Cancelled(r).state = "done" => r.state = "done"
         /\ r.state # "open" => Cancelled(r) = r
<1>1. r = [state |-> r.state, data |-> r.data, size |-> r.size]
      /\ r.data \in Seq(Byte \cup {Junk}) /\ r.size \in Nat
  BY DEF Requests
<1>2. CASE r.state = "open"
  <2>1. Cancelled(r) = [state |-> "failed", data |-> r.data, size |-> r.size]
    BY <1>1, <1>2 DEF Cancelled
  <2>2. QED
    BY <1>1, <1>2, <2>1 DEF Requests
<1>3. CASE r.state # "open"
  BY <1>3 DEF Cancelled
<1>4. QED
  BY <1>2, <1>3

(* Every step of the example keeps the types. *)
LEMMA TypeStep ==
  ASSUME TypeOK, RequestsInv, [Next]_vars
  PROVE  TypeOK'
<1> USE DEF pluginVars, hostVars, Data
<1>1. BufferSize \in Nat /\ MaxRuns \in Nat /\ MaxLength \in Nat
  BY ExampleAssumption
<1>2. ASSUME UNCHANGED vars PROVE TypeOK'
  BY <1>2 DEF TypeOK, vars
<1>3. ASSUME StartPlugin PROVE TypeOK'
  BY <1>3 DEF TypeOK, StartPlugin
<1>4. ASSUME StopPlugin PROVE TypeOK'
  BY <1>4 DEF TypeOK, StopPlugin
<1>5. ASSUME TerminateThread PROVE TypeOK'
  <2> DEFINE junk == [i \in DOMAIN send.data |-> Junk]
  <2>1. Len(send.data) \in Nat /\ DOMAIN send.data = 1..Len(send.data)
    BY LenProperties DEF TypeOK, Requests
  <2>2. junk \in [1..Len(send.data) -> Byte \cup {Junk}]
    BY <2>1
  <2> HIDE DEF junk
  <2>3. junk \in Seq(Byte \cup {Junk}) /\ Len(junk) = Len(send.data)
    BY <2>1, <2>2, SeqDef, LenProperties
  <2>4. send' \in {send, [send EXCEPT !.data = junk]}
    BY <1>5 DEF TerminateThread, junk
  <2>5. send' \in Requests /\ Len(send'.data) <= BufferSize
    <3>1. [send EXCEPT !.data = junk] \in Requests /\ [send EXCEPT !.data = junk].data = junk
      BY <2>3 DEF TypeOK, Requests
    <3>2. QED
      BY <2>3, <2>4, <3>1 DEF TypeOK
  <2>6. QED
    BY <1>5, <2>5 DEF TypeOK, TerminateThread
<1>6. ASSUME Loop PROVE TypeOK'
  BY <1>6 DEF TypeOK, Loop, Goes
<1>7. ASSUME Read PROVE TypeOK'
  <2>1. recv' \in Requests /\ Len(recv'.data) <= BufferSize
    <3>1. <<>> \in Seq(Byte \cup {Junk}) /\ Len(<<>>) = 0
      BY EmptySeq
    <3>2. QED
      BY <1>1, <1>7, <3>1 DEF Read, Request, Requests
  <2>2. QED
    BY <1>7, <2>1 DEF TypeOK, Read, Goes
<1>8. ASSUME ReadRefused PROVE TypeOK'
  BY <1>8 DEF TypeOK, ReadRefused, Goes
<1>9. ASSUME ReadFails PROVE TypeOK'
  <2>1. recv' \in Requests /\ Len(recv'.data) <= BufferSize
    BY <1>1, <1>9, NoRequestIsOne DEF ReadFails
  <2>2. QED
    BY <1>9, <2>1 DEF TypeOK, ReadFails, Goes
<1>10. ASSUME ReadReturns PROVE TypeOK'
  <2>1. recv' \in Requests /\ Len(recv'.data) <= BufferSize
    BY <1>1, <1>10, NoRequestIsOne DEF ReadReturns
  <2>2. buffer' \in [1..BufferSize -> Byte \cup {Junk}] /\ size' \in 0..BufferSize
    <3>1. recv.data \in Seq(Data) /\ buffer \in [1..BufferSize -> Data] /\ Len(recv.data) <= BufferSize
      BY DEF TypeOK, Requests
    <3>2. Len(recv.data) \in Nat
      BY <3>1, LenProperties
    <3>3. QED
      BY <1>1, <1>10, <3>1, <3>2, BufferFilled DEF ReadReturns
  <2>3. QED
    BY <1>10, <2>1, <2>2 DEF TypeOK, ReadReturns, Goes
<1>11. ASSUME Write PROVE TypeOK'
  <2>1. send' \in Requests /\ Len(send'.data) <= BufferSize
    <3>1. SubSeq(buffer, 1, size) \in Seq(Data) /\ Len(SubSeq(buffer, 1, size)) = size
      BY BufferFront DEF TypeOK
    <3>2. QED
      BY <1>1, <1>11, <3>1 DEF TypeOK, Write, Request, Requests
  <2>2. QED
    BY <1>11, <2>1 DEF TypeOK, Write, Goes
<1>12. ASSUME WriteRefused PROVE TypeOK'
  BY <1>12 DEF TypeOK, WriteRefused, Goes
<1>13. ASSUME WriteReturns PROVE TypeOK'
  <2>1. send' \in Requests /\ Len(send'.data) <= BufferSize
    BY <1>1, <1>13, NoRequestIsOne DEF WriteReturns
  <2>2. QED
    BY <1>13, <2>1 DEF TypeOK, WriteReturns, Goes
<1>14. ASSUME NEW length \in 0..MaxLength, HostWrite(length) PROVE TypeOK'
  <2>1. runs' \in 1..MaxRuns
    BY <1>1, <1>14 DEF TypeOK, HostWrite
  <2>2. String(runs', length) \in Seq(Byte)
    <3>1. String(runs', length) \in [1..length -> Byte]
      BY <1>1, <2>1 DEF String, Byte
    <3>2. length \in Nat
      BY <1>1
    <3>3. QED
      BY <3>1, <3>2, SeqDef
  <2>3. <<>> \in Seq(Byte \cup {Junk})
    BY EmptySeq
  <2>4. QED
    BY <1>1, <1>14, <2>1, <2>2, <2>3 DEF TypeOK, HostWrite
<1>15. ASSUME PacketOut PROVE TypeOK'
  <2>1. recv' \in Requests /\ Len(recv'.data) <= BufferSize /\ out' \in Seq(Byte)
    BY <1>15, AnotherPacket
  <2>2. QED
    BY <1>15, <2>1 DEF TypeOK, PacketOut
<1>16. ASSUME PacketIn PROVE TypeOK'
  <2>1. send' \in Requests /\ Len(send'.data) <= Len(send.data) /\ in' \in Seq(Data)
    BY <1>16, PacketTaken
  <2>2. Len(send.data) \in Nat /\ Len(send'.data) \in Nat
    BY <2>1, LenProperties DEF TypeOK, Requests
  <2>3. Len(send'.data) <= BufferSize
    BY <1>1, <2>1, <2>2 DEF TypeOK
  <2>4. QED
    BY <1>16, <2>1, <2>3 DEF TypeOK, PacketIn
<1>17. ASSUME Close PROVE TypeOK'
  <2>1. /\ recv' \in Requests /\ Len(recv'.data) <= BufferSize
        /\ send' \in Requests /\ Len(send'.data) <= BufferSize
    BY <1>17, CancelledIsOne DEF TypeOK, Close
  <2>2. QED
    BY <1>17, <2>1 DEF TypeOK, Close
<1>18. ASSUME Interrupt PROVE TypeOK'
  BY <1>18 DEF TypeOK, Interrupt
<1>19. ASSUME Detach PROVE TypeOK'
  <2>1. /\ recv' \in Requests /\ Len(recv'.data) <= BufferSize
        /\ send' \in Requests /\ Len(send'.data) <= BufferSize
    BY <1>19, CancelledIsOne DEF TypeOK, Detach
  <2>2. host' \in {"none", "writing", "reading", "printing"} /\ broken' \in BOOLEAN
    BY <1>19 DEF TypeOK, Detach
  <2>3. QED
    BY <1>19, <2>1, <2>2 DEF TypeOK, Detach
<1>20. ASSUME Attach PROVE TypeOK'
  BY <1>20 DEF TypeOK, Attach
<1>21. QED
  BY <1>2, <1>3, <1>4, <1>5, <1>6, <1>7, <1>8, <1>9, <1>10, <1>11, <1>12, <1>13, <1>14,
     <1>15, <1>16, <1>17, <1>18, <1>19, <1>20 DEF Next
-----------------------------------------------------------------------------
(* A request is where its call is, and an open read has room for a packet. *)
LEMMA RequestsStep ==
  ASSUME TypeOK, RequestsInv, [Next]_vars
  PROVE  RequestsInv'
<1> USE DEF pluginVars, hostVars
<1>1. NoRequest.state = "none"
  BY NoRequestIsOne
<1>2. ASSUME UNCHANGED vars PROVE RequestsInv'
  BY <1>2 DEF RequestsInv, vars
<1>3. ASSUME StartPlugin PROVE RequestsInv'
  BY <1>3 DEF RequestsInv, StartPlugin
<1>4. ASSUME StopPlugin PROVE RequestsInv'
  BY <1>4 DEF RequestsInv, StopPlugin
<1>5. ASSUME TerminateThread PROVE RequestsInv'
  BY <1>5 DEF RequestsInv, TerminateThread
<1>6. ASSUME Loop PROVE RequestsInv'
  BY <1>6 DEF RequestsInv, Loop, Goes
<1>7. ASSUME Read PROVE RequestsInv'
  <2>1. recv'.size = BufferSize /\ recv'.data = <<>>
    BY <1>7 DEF Read, Request
  <2>2. Len(recv'.data) < BufferSize /\ Len(recv'.data) = 0 * PacketSize
    <3>1. Len(<<>>) = 0
      BY EmptySeq
    <3>2. QED
      BY <2>1, <3>1, ExampleAssumption
  <2>3. \E k \in Nat : Len(recv'.data) = k * PacketSize
    BY <2>2
  <2>4. QED
    BY <1>7, <2>1, <2>2, <2>3 DEF RequestsInv, Read, Goes
<1>8. ASSUME ReadRefused PROVE RequestsInv'
  BY <1>8 DEF RequestsInv, ReadRefused, Goes
<1>9. ASSUME ReadFails PROVE RequestsInv'
  BY <1>1, <1>9 DEF RequestsInv, ReadFails, Goes
<1>10. ASSUME ReadReturns PROVE RequestsInv'
  BY <1>1, <1>10 DEF RequestsInv, ReadReturns, Goes
<1>11. ASSUME Write PROVE RequestsInv'
  BY <1>11 DEF RequestsInv, Write, Goes
<1>12. ASSUME WriteRefused PROVE RequestsInv'
  BY <1>12 DEF RequestsInv, WriteRefused, Goes
<1>13. ASSUME WriteReturns PROVE RequestsInv'
  BY <1>13 DEF RequestsInv, WriteReturns, Goes
<1>14. ASSUME NEW length \in 0..MaxLength, HostWrite(length) PROVE RequestsInv'
  BY <1>14 DEF RequestsInv, HostWrite
<1>15. ASSUME PacketOut PROVE RequestsInv'
  <2>1. /\ recv'.size = BufferSize
        /\ recv'.state = "open" =>
             /\ Len(recv'.data) < BufferSize
             /\ \E k \in Nat : Len(recv'.data) = k * PacketSize
    BY <1>15, AnotherPacket
  <2>2. recv.state = "open"
    BY <1>15 DEF PacketOut
  <2>3. plugin # "stopped" => thread = "reading"
    BY <1>1, <2>2 DEF RequestsInv
  <2>4. UNCHANGED <<plugin, thread, send>>
    BY <1>15 DEF PacketOut
  <2>5. QED
    BY <2>1, <2>3, <2>4 DEF RequestsInv
<1>16. ASSUME PacketIn PROVE RequestsInv'
  <2>1. send.state = "open" /\ UNCHANGED <<plugin, thread, recv>>
    BY <1>16 DEF PacketIn
  <2>2. plugin # "stopped" => thread = "writing"
    BY <1>1, <2>1 DEF RequestsInv
  <2>3. QED
    BY <2>1, <2>2 DEF RequestsInv
<1>17. Cancelled(NoRequest) = NoRequest
  BY <1>1 DEF Cancelled
<1>18. recv \in Requests => Cancelled(recv).state # "open"
  BY CancelledIsOne
<1>19. ASSUME Close PROVE RequestsInv'
  <2>1. /\ recv' \in {recv, Cancelled(recv)} /\ send' \in {send, Cancelled(send)}
        /\ UNCHANGED <<plugin, thread>>
    BY <1>19 DEF Close
  <2>2. QED
    BY <1>17, <1>18, <2>1 DEF TypeOK, RequestsInv
<1>20. ASSUME Interrupt PROVE RequestsInv'
  BY <1>20 DEF RequestsInv, Interrupt
<1>21. ASSUME Detach PROVE RequestsInv'
  <2>1. recv' = Cancelled(recv) /\ send' = Cancelled(send) /\ UNCHANGED <<plugin, thread>>
    BY <1>21 DEF Detach
  <2>2. QED
    BY <1>17, <1>18, <2>1 DEF TypeOK, RequestsInv
<1>22. ASSUME Attach PROVE RequestsInv'
  BY <1>22 DEF RequestsInv, Attach
<1>23. QED
  BY <1>2, <1>3, <1>4, <1>5, <1>6, <1>7, <1>8, <1>9, <1>10, <1>11, <1>12, <1>13, <1>14,
     <1>15, <1>16, <1>19, <1>20, <1>21, <1>22 DEF Next

(* The host is attached while it transfers, and reads only what follows    *)
(* its write.                                                              *)
LEMMA HostStep ==
  ASSUME HostInv, [Next]_vars
  PROVE  HostInv'
<1> USE DEF HostInv, pluginVars, hostVars
<1>1. ASSUME UNCHANGED vars PROVE HostInv'
  BY <1>1 DEF vars
<1>2. ASSUME StartPlugin \/ StopPlugin \/ TerminateThread PROVE HostInv'
  BY <1>2 DEF StartPlugin, StopPlugin, TerminateThread
<1>3. ASSUME Loop \/ Read \/ ReadRefused \/ ReadFails \/ ReadReturns PROVE HostInv'
  BY <1>3 DEF Loop, Read, ReadRefused, ReadFails, ReadReturns, Goes
<1>4. ASSUME Write \/ WriteRefused \/ WriteReturns PROVE HostInv'
  BY <1>4 DEF Write, WriteRefused, WriteReturns, Goes
<1>5. ASSUME NEW length \in 0..MaxLength, HostWrite(length) PROVE HostInv'
  BY <1>5 DEF HostWrite
<1>6. ASSUME PacketOut PROVE HostInv'
  <2>1. /\ host = "writing" /\ UNCHANGED <<attached, in>>
        /\ host' = IF out' = <<>> THEN "reading" ELSE "writing"
    BY <1>6 DEF PacketOut
  <2>2. QED
    BY <2>1
<1>7. ASSUME PacketIn PROVE HostInv'
  <2>1. /\ host = "reading" /\ host' \in {"printing", "reading"}
        /\ UNCHANGED <<attached, out>>
    BY <1>7 DEF PacketIn
  <2>2. QED
    BY <2>1
<1>8. ASSUME Close \/ Interrupt \/ Attach PROVE HostInv'
  BY <1>8 DEF Close, Interrupt, Attach
<1>9. ASSUME Detach PROVE HostInv'
  BY <1>9 DEF Detach
<1>10. QED
  BY <1>1, <1>2, <1>3, <1>4, <1>5, <1>6, <1>7, <1>8, <1>9 DEF Next

(* For as long as the plugin is not stopped, the string is in one place.   *)
LEMMA RunStep ==
  ASSUME TypeOK, RequestsInv, HostInv, plugin # "stopped" => RunInv, [Next]_vars,
         plugin' # "stopped"
  PROVE  RunInv'
<1> USE DEF pluginVars, hostVars
<1>1. NoRequest.state = "none" /\ NoRequest.data = <<>>
  BY NoRequestIsOne
<1>2. ASSUME UNCHANGED vars PROVE RunInv'
  <2>1. RunInv
    BY <1>2 DEF vars
  <2>2. QED
    BY <1>2, <2>1 DEF vars, RunInv, Clean, Outward, Overrun, Arrived, Buffered, Returning
<1>3. ASSUME StartPlugin PROVE RunInv'
  <2>1. RunInv /\ thread = "none" /\ thread' \in {"none", "dormant", "loop"}
        /\ UNCHANGED <<buffer, size, recv, send, hostVars>>
    BY <1>3 DEF StartPlugin, RequestsInv
  <2>2. QED
    BY <2>1 DEF RunInv, Clean, Outward, Overrun, Arrived, Buffered, Returning
<1>4. ASSUME StopPlugin PROVE RunInv'
  <2>1. RunInv /\ UNCHANGED <<thread, buffer, size, recv, send, hostVars>>
    BY <1>4 DEF StopPlugin
  <2>2. QED
    BY <2>1 DEF RunInv, Clean, Outward, Overrun, Arrived, Buffered, Returning
<1>5. ASSUME TerminateThread PROVE RunInv'
  BY <1>5 DEF TerminateThread
<1>6. ASSUME Loop PROVE RunInv'
  <2>1. RunInv /\ thread = "loop" /\ thread' \in {"delay", "exited"}
        /\ UNCHANGED <<buffer, size, recv, send, hostVars>>
    BY <1>6 DEF Loop, Goes
  <2>2. QED
    BY <2>1 DEF RunInv, Clean, Outward, Overrun, Arrived, Buffered, Returning
<1>7. ASSUME Read PROVE RunInv'
  <2>1. RunInv /\ thread = "delay" /\ thread' = "reading" /\ recv = NoRequest
        /\ UNCHANGED <<buffer, size, send, hostVars>>
    BY <1>7 DEF Read, Goes, RequestsInv
  <2>2. recv'.state = "open" /\ recv'.data = <<>>
    BY <1>7 DEF Read, Request
  <2>3. QED
    BY <1>1, <2>1, <2>2 DEF RunInv, Clean, Outward, Overrun, Arrived, Buffered, Returning
<1>8. ASSUME ReadRefused PROVE RunInv'
  <2>1. RunInv /\ thread = "delay" /\ thread' = "loop"
        /\ UNCHANGED <<buffer, size, recv, send, hostVars>>
    BY <1>8 DEF ReadRefused, Goes
  <2>2. QED
    BY <2>1 DEF RunInv, Clean, Outward, Overrun, Arrived, Buffered, Returning
<1>9. ASSUME ReadFails PROVE RunInv'
  <2>1. RunInv /\ thread = "reading" /\ recv.state = "failed" /\ thread' = "loop" /\ recv' = NoRequest
        /\ UNCHANGED <<buffer, size, send, hostVars>>
    BY <1>9 DEF ReadFails, Goes
  <2>2. QED
    BY <1>1, <2>1 DEF RunInv, Clean, Outward, Overrun, Arrived, Buffered, Returning
<1>10. ASSUME ReadReturns PROVE RunInv'
  <2>1. RunInv /\ thread = "reading" /\ recv.state = "done" /\ thread' = "echo" /\ recv' = NoRequest
        /\ UNCHANGED <<send, hostVars>>
    BY <1>10 DEF ReadReturns, Goes
  <2>2. SubSeq(buffer', 1, size') = recv.data
    <3>1. recv.data \in Seq(Data) /\ buffer \in [1..BufferSize -> Data] /\ Len(recv.data) <= BufferSize
      BY DEF TypeOK, Requests, Data
    <3>2. QED
      BY <1>10, <3>1, BufferFilled DEF ReadReturns
  <2>3. QED
    BY <2>1, <2>2 DEF RunInv, Clean, Outward, Overrun, Arrived, Buffered, Returning
<1>11. ASSUME Write PROVE RunInv'
  <2>1. RunInv /\ thread = "echo" /\ thread' = "writing" /\ send'.state = "open"
        /\ send'.data = SubSeq(buffer, 1, size)
        /\ UNCHANGED <<buffer, size, recv, hostVars>>
    BY <1>11 DEF Write, Goes, Request
  <2>2. <<>> \o send'.data = send'.data /\ Len(send'.data) <= BufferSize
    <3>1. SubSeq(buffer, 1, size) \in Seq(Data) /\ Len(SubSeq(buffer, 1, size)) = size
          /\ size <= BufferSize
      BY BufferFront, ExampleAssumption DEF TypeOK, Data
    <3>2. QED
      BY <2>1, <3>1, ConcatEmptySeq
  <2>3. QED
    BY <2>1, <2>2 DEF RunInv, Clean, Outward, Overrun, Arrived, Buffered, Returning
<1>12. ASSUME WriteRefused PROVE RunInv'
  <2>1. RunInv /\ thread = "echo" /\ ~attached /\ UNCHANGED <<buffer, size, recv, send, hostVars>>
    BY <1>12 DEF WriteRefused, Goes
  <2>2. host \notin {"writing", "reading"}
    BY <2>1 DEF HostInv
  <2>3. QED
    BY <2>1, <2>2 DEF RunInv, Clean
<1>13. ASSUME WriteReturns PROVE RunInv'
  <2>1. RunInv /\ thread = "writing" /\ send.state # "open" /\ thread' = "loop" /\ send' = NoRequest
        /\ UNCHANGED <<buffer, size, recv, hostVars>>
    BY <1>13 DEF WriteReturns, Goes
  <2>2. QED
    BY <1>1, <2>1 DEF RunInv, Clean, Outward, Overrun, Arrived, Buffered, Returning
<1>14. ASSUME NEW length \in 0..MaxLength, HostWrite(length) PROVE RunInv'
  <2>1. RunInv /\ host = "none" /\ host' = "writing" /\ out' = string'
        /\ UNCHANGED <<thread, recv, send, broken>>
    BY <1>14 DEF HostWrite
  <2>2. <<>> \o out' = out'
    <3>1. TypeOK'
      BY TypeStep
    <3>2. out' \in Seq(Byte)
      BY <3>1 DEF TypeOK
    <3>3. QED
      BY <3>2, ConcatEmptySeq
  <2>3. QED
    BY <2>1, <2>2 DEF RunInv, Clean, Outward
<1>15. ASSUME PacketOut PROVE RunInv'
  <2>1. /\ host = "writing" /\ recv.state = "open" /\ in = <<>>
        /\ host' = IF out' = <<>> THEN "reading" ELSE "writing"
        /\ UNCHANGED <<plugin, thread, send, string, in, broken>>
    BY <1>15 DEF PacketOut, HostInv
  <2>2. RunInv /\ thread = "reading" /\ send = NoRequest
    BY <1>1, <2>1 DEF RequestsInv
  <2>3. /\ recv'.data \o out' = recv.data \o out
        /\ recv'.state \in {"open", "done"}
        /\ recv'.data \in Seq(Data)
    BY <1>15, AnotherPacket DEF Requests, Data
  <2>4. ~broken => recv'.data \o out' = string
    BY <2>1, <2>2, <2>3 DEF RunInv, Outward, Overrun
  <2>5. CASE out' = <<>>
    <3>1. recv'.data \o out' = recv'.data
      BY <2>3, <2>5, ConcatEmptySeq
    <3>2. Arrived'
      BY <2>1, <2>2, <2>3, <2>4, <3>1 DEF Arrived
    <3>3. QED
      BY <2>1, <2>5, <3>2 DEF RunInv
  <2>6. CASE out' # <<>> /\ recv'.state = "open"
    <3>1. ~broken => Outward'
      BY <1>1, <2>1, <2>2, <2>4, <2>6 DEF Outward
    <3>2. QED
      BY <2>1, <2>6, <3>1 DEF RunInv
  <2>7. CASE out' # <<>> /\ recv'.state = "done"
    <3>1. Overrun'
      BY <2>1, <2>2, <2>7 DEF Overrun
    <3>2. QED
      BY <2>1, <2>7, <3>1 DEF RunInv
  <2>8. QED
    BY <2>3, <2>5, <2>6, <2>7
<1>16. ASSUME PacketIn PROVE RunInv'
  <2>1. /\ host = "reading" /\ send.state = "open" /\ host' \in {"printing", "reading"}
        /\ UNCHANGED <<plugin, thread, buffer, size, recv, string, out, broken>>
    BY <1>16 DEF PacketIn
  <2>2. RunInv /\ thread = "writing" /\ recv = NoRequest
    BY <1>1, <2>1 DEF RequestsInv
  <2>3. Len(in \o send.data) <= BufferSize /\ (~broken => in \o send.data = string)
    BY <2>1, <2>2 DEF RunInv, Arrived, Buffered, Returning, Clean
  <2>4. /\ in' \in Seq(Data) /\ in' \o send'.data = in \o send.data
        /\ send'.state = IF send'.data = <<>> THEN "done" ELSE "open"
        /\ host' = "printing" => send'.data = <<>>
    BY <1>16, <2>3, PacketTaken
  <2>5. CASE send'.data = <<>>
    <3>1. in' \o send'.data = in'
      BY <2>4, <2>5, ConcatEmptySeq
    <3>2. Clean' /\ (~broken' => in' = string')
      BY <1>1, <2>1, <2>2, <2>3, <2>4, <2>5, <3>1 DEF Clean
    <3>3. QED
      BY <2>1, <3>2 DEF RunInv
  <2>6. CASE send'.data # <<>>
    <3>1. host' = "reading" /\ Returning'
      BY <2>1, <2>2, <2>3, <2>4, <2>6 DEF Returning
    <3>2. QED
      BY <3>1 DEF RunInv
  <2>7. QED
    BY <2>5, <2>6
<1>17. ASSUME Close PROVE RunInv'
  <2>1. /\ host = "printing" /\ host' = "none" /\ UNCHANGED <<plugin, thread>>
        /\ recv' \in {recv, Cancelled(recv)} /\ send' \in {send, Cancelled(send)}
    BY <1>17 DEF Close
  <2>2. Clean
    BY <2>1 DEF RunInv
  <2>3. Clean'
    BY <2>1, <2>2, CancelledIsOne DEF Clean, TypeOK
  <2>4. QED
    BY <2>1, <2>3 DEF RunInv
<1>18. ASSUME Interrupt PROVE RunInv'
  BY <1>18 DEF Interrupt, RunInv
<1>19. ASSUME Detach PROVE RunInv'
  <2>1. /\ UNCHANGED <<plugin, thread, string, in>>
        /\ recv' = Cancelled(recv) /\ send' = Cancelled(send)
    BY <1>19 DEF Detach
  <2>2. Clean => Clean'
    BY <2>1, CancelledIsOne DEF Clean, TypeOK
  <2>3. CASE host \in {"writing", "reading"}
    <3>1. host' = "none" /\ broken'
      BY <1>19, <2>3 DEF Detach
    <3>2. QED
      BY <3>1 DEF RunInv
  <2>4. CASE host \notin {"writing", "reading"}
    <3>1. UNCHANGED <<host, broken>>
      BY <1>19, <2>4 DEF Detach
    <3>2. QED
      BY <2>1, <2>2, <2>4, <3>1 DEF RunInv
  <2>5. QED
    BY <2>3, <2>4
<1>20. ASSUME Attach PROVE RunInv'
  <2>1. RunInv /\ UNCHANGED <<thread, buffer, size, recv, send, hostVars>>
    BY <1>20 DEF Attach
  <2>2. QED
    BY <2>1 DEF RunInv, Clean, Outward, Overrun, Arrived, Buffered, Returning
<1>21. QED
  BY <1>2, <1>3, <1>4, <1>5, <1>6, <1>7, <1>8, <1>9, <1>10, <1>11, <1>12, <1>13, <1>14,
     <1>15, <1>16, <1>17, <1>18, <1>19, <1>20 DEF Next
-----------------------------------------------------------------------------
(* The inductive invariant: while the plugin is not stopped, a run that is *)
(* not broken off has its string in one place.                             *)
THEOREM ExampleInvariant == Spec => []ExampleInv
<1>1. ExampleInv /\ [Next]_vars => ExampleInv'
  <2> SUFFICES ASSUME ExampleInv, [Next]_vars PROVE ExampleInv'
    OBVIOUS
  <2>1. TypeOK' /\ RequestsInv' /\ HostInv'
    BY TypeStep, RequestsStep, HostStep DEF ExampleInv
  <2>2. plugin' # "stopped" => RunInv'
    BY RunStep DEF ExampleInv
  <2>3. QED
    BY <2>1, <2>2 DEF ExampleInv
<1>2. QED
  BY InitHolds, <1>1, PTL DEF Spec

(* The variables of the example keep their types, and no request moves     *)
(* more than the buffer holds.                                             *)
THEOREM TypeCorrect == Spec => []TypeOK
<1>1. ExampleInv => TypeOK
  BY DEF ExampleInv
<1>2. QED
  BY <1>1, ExampleInvariant, PTL

(* A run that is not broken off prints the string it was started with.     *)
THEOREM PrintsItsOwn == Spec => []OwnEcho
<1>1. ExampleInv => OwnEcho
  BY DEF ExampleInv, RunInv, OwnEcho
<1>2. QED
  BY <1>1, ExampleInvariant, PTL

(* A run that is not broken off leaves nothing for the next in either      *)
(* direction.                                                              *)
THEOREM LeavesNothing == Spec => []NothingStale
<1>1. ExampleInv => NothingStale
  BY DEF ExampleInv, RunInv, Clean, NothingStale
<1>2. QED
  BY <1>1, ExampleInvariant, PTL
=============================================================================
