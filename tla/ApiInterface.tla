---------------------------- MODULE ApiInterface ----------------------------
(***************************************************************************)
(* api_interface.c, the main loop of the first Teensy, between the two     *)
(* threads of USBSimulatorDevice.cs that use its endpoints and the UART to *)
(* the second Teensy.                                                      *)
(* At 57600 baud a byte takes some 2800 processor cycles, and USB is two   *)
(* hundred times as fast: the UART moves a byte each way (Tick) only when  *)
(* the loop has nothing to do or is held up (Settled).                     *)
(* "Up" is towards the PC, "down" towards the simulator.  A byte is the    *)
(* packet it belongs to and its place there; the first two are the length. *)
(***************************************************************************)
EXTENDS Naturals, Sequences, FiniteSets

CONSTANTS
  MaxUp,        \* packets the simulator sends
  UpLengths,    \* how many bytes they may have, the two length bytes included
  MaxDown,      \* packets the PC writes
  DownBytes,    \* bytes of each
  BANK,         \* bytes of an endpoint's bank, 64 in the code
  TX_ROOM,      \* bytes the transmit ring holds, 39 in the code
  RX_ROOM,      \* bytes the receive ring holds, 63 in the code
  MaxRestarts   \* times the second Teensy is restarted inside a packet

ASSUME ApiAssumption ==
  /\ {MaxUp, MaxDown, MaxRestarts} \subseteq Nat
  /\ UpLengths \subseteq Nat \ {0, 1, 2} /\ \E n \in UpLengths : \A m \in UpLengths : m <= n
  /\ {DownBytes, BANK, TX_ROOM} \subseteq Nat \ {0} /\ RX_ROOM \in Nat \ {0, 1}

VARIABLES
  \* the PC
  offered,      \* the packet being written, under the lock on _messages; or 0
  writes,       \* packets whose write has begun
  reader,       \* the reader has asked for a transfer, or runs its callback
  transfer,     \* what it has of the transfer
  handled,      \* the transfers given to the callback
  \* the first Teensy
  pc,           \* where in SendReceive_Task it is
  bytesSentSoFar,   \* of the packet it read last, bytes put into the ring
  tx, rx,       \* the two rings of uart.c
  receiveBuffer,    \* its first bytesSoFar bytes
  bytesWaiting,
  bytesProcessed,   \* of receiveBuffer, bytes written to the endpoint
  bank,         \* the bank of the IN endpoint, empty when free
  \* the second Teensy
  lengths,      \* the lengths of the packets it has begun
  sent,         \* bytes it has sent of the last one
  abandoned,    \* packets it was sending when it restarted
  wire,         \* bytes it has received
  harm          \* what has damaged the stream towards the PC so far

pcSide  == <<offered, writes, reader, transfer, handled>>
down    == <<bytesSentSoFar, tx>>
up      == <<receiveBuffer, bytesWaiting, bytesProcessed>>
simSide == <<lengths, sent, abandoned, wire>>
vars    == <<pcSide, pc, down, rx, up, bank, simSide, harm>>

Damage == {"overflow", "stray", "truncated", "full bank"}
Longest == CHOOSE n \in UpLengths : \A m \in UpLengths : m <= n
UpBytes == [of : 1 .. MaxUp, at : 1 .. Longest]

TypeOK ==
  /\ offered \in 0 .. MaxDown /\ writes \in 0 .. MaxDown
  /\ reader \in {"reading", "callback"}
  /\ transfer \in Seq(UpBytes) /\ handled \in Seq(Seq(UpBytes))
  /\ pc \in {"out", "put", "serial", "up", "write"}
  /\ bytesSentSoFar \in 0 .. DownBytes
  /\ tx \in Seq([of : 1 .. MaxDown, at : 1 .. DownBytes]) /\ Len(tx) <= TX_ROOM
  /\ rx \in Seq(UpBytes) /\ Len(rx) <= RX_ROOM
  /\ receiveBuffer \in Seq(UpBytes) /\ bytesWaiting \in 0 .. Longest - 2
  /\ bytesProcessed \in 0 .. Longest
  /\ bank \in Seq(UpBytes) /\ Len(bank) <= BANK
  /\ lengths \in Seq(UpLengths) /\ Len(lengths) <= MaxUp /\ sent \in 0 .. Longest
  /\ abandoned \subseteq 1 .. MaxUp
  /\ wire \in Seq([of : 1 .. MaxDown, at : 1 .. DownBytes])
  /\ harm \subseteq Damage

Init ==
  /\ offered = 0 /\ writes = 0
  /\ reader = "reading" /\ transfer = <<>> /\ handled = <<>>
  /\ pc = "out" /\ bytesSentSoFar = 0 /\ tx = <<>> /\ rx = <<>>
  /\ receiveBuffer = <<>> /\ bytesWaiting = 0 /\ bytesProcessed = 0
  /\ bank = <<>>
  /\ lengths = <<>> /\ sent = 0 /\ abandoned = {} /\ wire = <<>> /\ harm = {}

-----------------------------------------------------------------------------
(* The PC.  _SendMessages holds the lock on _messages while it writes, and *)
(* the callback needs that lock to acknowledge, re-mark or reply.  Until   *)
(* the callback returns the reader asks for no other transfer.             *)
StartWrite ==
  /\ offered = 0 /\ writes < MaxDown
  /\ writes' = writes + 1 /\ offered' = writes + 1
  /\ UNCHANGED <<reader, transfer, handled, pc, down, rx, up, bank, simSide, harm>>

(* A transfer ends with a bank that is not full. *)
HostReadsIn ==
  /\ reader = "reading" /\ bank # <<>>
  /\ transfer' = transfer \o bank /\ bank' = <<>>
  /\ reader' = IF Len(bank) < BANK THEN "callback" ELSE reader
  /\ UNCHANGED <<offered, writes, handled, pc, down, rx, up, simSide, harm>>

Callback ==
  /\ reader = "callback" /\ offered = 0
  /\ handled' = Append(handled, transfer) /\ transfer' = <<>>
  /\ reader' = "reading"
  /\ UNCHANGED <<offered, writes, pc, down, rx, up, bank, simSide, harm>>

-----------------------------------------------------------------------------
(* SendReceive_Task, the packet in the OUT endpoint: it is read whole, its *)
(* two length bytes and as many as they say, and put into the ring; nothing*)
(* is received meanwhile.                                                  *)
ReadOut ==
  /\ pc = "out" /\ offered # 0
  /\ offered' = 0 /\ bytesSentSoFar' = 0 /\ pc' = "put"
  /\ UNCHANGED <<writes, reader, transfer, handled, tx, rx, up, bank, simSide, harm>>

ReadLast == IF offered = 0 THEN writes ELSE writes - 1

(* Mutant: uart_putchar does not wait for room. *)
PutWithoutRoom ==
  /\ pc = "put" /\ bytesSentSoFar < DownBytes
  /\ bytesSentSoFar' = bytesSentSoFar + 1
  /\ tx' = IF Len(tx) < TX_ROOM
           THEN Append(tx, [of |-> ReadLast, at |-> bytesSentSoFar + 1]) ELSE tx
  /\ UNCHANGED <<pcSide, pc, rx, up, bank, simSide, harm>>

PutChar ==
  /\ pc = "put" /\ bytesSentSoFar < DownBytes /\ Len(tx) < TX_ROOM
  /\ bytesSentSoFar' = bytesSentSoFar + 1
  /\ tx' = Append(tx, [of |-> ReadLast, at |-> bytesSentSoFar + 1])
  /\ UNCHANGED <<pcSide, pc, rx, up, bank, simSide, harm>>

PutAll ==
  /\ pc = "put" /\ bytesSentSoFar = DownBytes /\ pc' = "serial"
  /\ UNCHANGED <<pcSide, down, rx, up, bank, simSide, harm>>

(* The receiving half.  In a turn that finds no OUT packet it comes at once*)
(* (from "out"); a turn that would change nothing is not a step.           *)
AtSerial == pc = "serial" \/ (pc = "out" /\ offered = 0)

LengthReady == receiveBuffer = <<>> /\ Len(rx) >= 2
DataReady   == bytesWaiting > 0 /\ rx # <<>>

(* What the two length bytes say: the truth when they are a packet's own. *)
LengthIn(b1, b2) ==
  IF b1.of = b2.of /\ b1.at = 1 /\ b2.at = 2
  THEN {lengths[b1.of] - 2} ELSE {n - 2 : n \in UpLengths}

(* Mutant: one byte in the ring is enough to begin. *)
ReceiveLengthEarly ==
  /\ AtSerial /\ receiveBuffer = <<>> /\ Len(rx) >= 1 /\ pc' = "serial"
  /\ \E n \in LengthIn(rx[1], rx[Len(rx)]) : bytesWaiting' = n
  /\ receiveBuffer' = SubSeq(rx, 1, Len(rx)) /\ rx' = <<>>
  /\ UNCHANGED <<pcSide, down, bytesProcessed, bank, simSide, harm>>

ReceiveLength ==
  /\ AtSerial /\ LengthReady /\ pc' = "serial"
  /\ \E n \in LengthIn(rx[1], rx[2]) : bytesWaiting' = n
  /\ receiveBuffer' = SubSeq(rx, 1, 2) /\ rx' = SubSeq(rx, 3, Len(rx))
  /\ UNCHANGED <<pcSide, down, bytesProcessed, bank, simSide, harm>>

Least(m, n) == IF m <= n THEN m ELSE n

Receive ==
  /\ AtSerial /\ DataReady /\ pc' = "up"
  /\ LET k == Least(bytesWaiting, Len(rx)) IN
       /\ receiveBuffer' = receiveBuffer \o SubSeq(rx, 1, k)
       /\ rx' = SubSeq(rx, k + 1, Len(rx))
       /\ bytesWaiting' = bytesWaiting - k
  /\ UNCHANGED <<pcSide, down, bytesProcessed, bank, simSide, harm>>

NothingToReceive ==
  /\ pc = "serial" /\ ~LengthReady /\ ~DataReady /\ pc' = "up"
  /\ UNCHANGED <<pcSide, down, rx, up, bank, simSide, harm>>

(* CheckTimeout: the UART has been silent in the middle of a packet. *)
Silent == lengths # <<>> /\ Len(lengths) \notin abandoned => sent = lengths[Len(lengths)]

CheckTimeout ==
  /\ pc = "out" /\ bytesWaiting > 0 /\ receiveBuffer # <<>> /\ rx = <<>> /\ Silent
  /\ receiveBuffer' = <<>> /\ bytesWaiting' = 0
  /\ UNCHANGED <<pcSide, pc, down, rx, bytesProcessed, bank, simSide, harm>>

-----------------------------------------------------------------------------
(* The end of SendReceive_Task: a complete packet goes to the IN endpoint, *)
(* bank by bank.  The last bank is sent as it is: when it is full no empty *)
(* one follows.                                                            *)
Complete == receiveBuffer # <<>> /\ bytesWaiting = 0
Left     == Len(receiveBuffer) - bytesProcessed

FillBank ==
  LET n == Least(BANK, Left) IN
    /\ bank' = SubSeq(receiveBuffer, bytesProcessed + 1, bytesProcessed + n)
    /\ IF n < Left
       THEN /\ bytesProcessed' = bytesProcessed + n /\ pc' = "write"
            /\ UNCHANGED <<receiveBuffer, harm>>
       ELSE /\ receiveBuffer' = <<>> /\ bytesProcessed' = 0 /\ pc' = "out"
            /\ harm' = IF n = BANK THEN harm \cup {"full bank"} ELSE harm

SendUp ==
  /\ pc = "up" \/ (pc = "out" /\ offered = 0)
  /\ Complete /\ bank = <<>>
  /\ FillBank
  /\ UNCHANGED <<pcSide, down, rx, bytesWaiting, simSide>>

(* Mutant: the packet is given up when the bank is busy. *)
DropWhenBusy ==
  /\ pc = "up" /\ ~(Complete /\ bank = <<>>) /\ pc' = "out"
  /\ receiveBuffer' = IF Complete THEN <<>> ELSE receiveBuffer
  /\ UNCHANGED <<pcSide, down, rx, bytesWaiting, bytesProcessed, bank, simSide, harm>>

NothingToSendUp ==
  /\ pc = "up" /\ ~(Complete /\ bank = <<>>) /\ pc' = "out"
  /\ UNCHANGED <<pcSide, down, rx, up, bank, simSide, harm>>

(* Endpoint_Write_Stream_LE called again for the rest. *)
WriteStream ==
  /\ pc = "write" /\ bank = <<>>
  /\ FillBank
  /\ UNCHANGED <<pcSide, down, rx, bytesWaiting, simSide>>

(* It gives up after USB_STREAM_TIMEOUT_MS in which the PC reads nothing,  *)
(* and the packet counts as sent.                                          *)

(* Mutant: the wait for the bank has no timeout. *)
NeverTimesOut == FALSE /\ UNCHANGED vars

StreamTimeout ==
  /\ pc = "write" /\ bank # <<>> /\ reader = "callback"
  /\ receiveBuffer' = <<>> /\ bytesProcessed' = 0 /\ pc' = "out"
  /\ harm' = harm \cup {"truncated"}
  /\ UNCHANGED <<pcSide, down, rx, bytesWaiting, bank, simSide>>

-----------------------------------------------------------------------------
(* The UART and the second Teensy.                                         *)
Settled ==
  \/ /\ pc = "out" /\ offered = 0 /\ ~LengthReady /\ ~DataReady
     /\ ~(Complete /\ bank = <<>>)
  \/ pc = "put" /\ bytesSentSoFar < DownBytes /\ Len(tx) = TX_ROOM
  \/ pc = "write" /\ bank # <<>>

Shift ==
  IF tx = <<>> THEN UNCHANGED <<tx, wire>>
               ELSE tx' = Tail(tx) /\ wire' = Append(wire, Head(tx))

(* Mutant: the interrupt does not look for room. *)
ArriveAnyway(b) == rx' = Append(rx, b) /\ UNCHANGED harm

(* USART1_RX_vect *)
Arrive(b) ==
  IF Len(rx) < RX_ROOM THEN rx' = Append(rx, b) /\ UNCHANGED harm
                       ELSE harm' = harm \cup {"overflow"} /\ UNCHANGED rx

TickOnly ==
  /\ Settled /\ tx # <<>> /\ Shift
  /\ UNCHANGED <<pcSide, pc, bytesSentSoFar, rx, up, bank, lengths, sent, abandoned, harm>>

TickBegins ==        \* the first byte of a packet arrives
  /\ Settled /\ Shift
  /\ Silent /\ Len(lengths) < MaxUp
  /\ Len(lengths) \in abandoned => receiveBuffer = <<>> /\ Len(rx) <= 1
  /\ \E n \in UpLengths : lengths' = Append(lengths, n)
  /\ sent' = 1 /\ Arrive([of |-> Len(lengths) + 1, at |-> 1])
  /\ UNCHANGED <<pcSide, pc, bytesSentSoFar, up, bank, abandoned>>

TickGoesOn ==        \* the next byte of a packet arrives
  /\ Settled /\ Shift
  /\ ~Silent
  /\ sent' = sent + 1 /\ Arrive([of |-> Len(lengths), at |-> sent + 1])
  /\ UNCHANGED <<pcSide, pc, bytesSentSoFar, up, bank, lengths, abandoned>>

Tick == TickOnly \/ TickBegins \/ TickGoesOn

(* The second Teensy is unplugged inside a packet and plugged in again     *)
(* after "a few moments" (README.md:38), when the first has timed out.     *)
Restart ==
  /\ ~Silent /\ Cardinality(abandoned) < MaxRestarts
  /\ abandoned' = abandoned \cup {Len(lengths)}
  /\ harm' = IF sent = 1 THEN harm \cup {"stray"} ELSE harm
  /\ UNCHANGED <<pcSide, pc, down, rx, up, bank, lengths, sent, wire>>

SendReceive_Task ==
  \/ ReadOut \/ PutChar \/ PutAll
  \/ ReceiveLength \/ Receive \/ NothingToReceive \/ CheckTimeout
  \/ SendUp \/ NothingToSendUp \/ WriteStream \/ StreamTimeout

Next == StartWrite \/ HostReadsIn \/ Callback \/ SendReceive_Task \/ Tick \/ Restart

(* The loop runs, the UART shifts, a timeout passes, the PC's reader reads *)
(* and runs its callback.  Nobody need write, and the second Teensy need   *)
(* not go on.                                                              *)
Spec == /\ Init /\ [][Next]_vars
        /\ WF_vars(SendReceive_Task) /\ WF_vars(TickOnly)
        /\ WF_vars(HostReadsIn) /\ WF_vars(Callback)

-----------------------------------------------------------------------------
(* The packets the simulator has sent to their end, in order.              *)
Finished == {p \in DOMAIN lengths : p \notin abandoned
                                      /\ (p < Len(lengths) \/ sent = lengths[p])}
Packet(p) == [k \in 1 .. lengths[p] |-> [of |-> p, at |-> k]]
Nth(n)    == CHOOSE p \in Finished : Cardinality({q \in Finished : q <= p}) = n

(* The callback gets each packet whole, alone and in order, whatever comes *)
(* down meanwhile and although the second Teensy may restart inside a      *)
(* packet, until one of four things has happened: a byte that found the    *)
(* ring full, a packet abandoned after one byte, which no timeout covers   *)
(* (api_interface.c:45 wants bytesSoFar > 0), a write that timed out, or a *)
(* packet whose last bank was full (api_interface.c:131-144).              *)
KnownDamage ==
  harm = {} => \A n \in DOMAIN handled :
                 n <= Cardinality(Finished) /\ handled[n] = Packet(Nth(n))

(* What the simulator sends to its end reaches the callback, under the same*)
(* proviso: "It simply forwards data" (README.md:12).                      *)
EveryPacketHandled ==
  \A n \in 1 .. MaxUp :
    Cardinality(Finished) = n ~> Len(handled) >= n \/ harm # {}

(* Towards the simulator nothing is lost, added or reordered, whatever the *)
(* other direction does (api_interface.c:64-96).                           *)
Follows(b, c) ==
  c = IF b.at < DownBytes THEN [of |-> b.of, at |-> b.at + 1]
                          ELSE [of |-> b.of + 1, at |-> 1]
DownInOrder ==
  /\ wire # <<>> => wire[1] = [of |-> 1, at |-> 1]
  /\ \A k \in 1 .. Len(wire) - 1 : Follows(wire[k], wire[k + 1])

(* Each packet the PC writes is taken and sent on to its last byte.  Its   *)
(* write holds the lock that its reader's callback waits for, and the loop *)
(* may wait for that reader: the stream timeout breaks the circle          *)
(* (api_interface.c:138, USBSimulatorDevice.cs:181-191).                   *)
EveryWriteForwarded ==
  \A n \in 1 .. MaxDown : writes = n ~> Len(wire) >= n * DownBytes
=============================================================================
