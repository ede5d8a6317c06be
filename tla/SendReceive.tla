---------------------------- MODULE SendReceive ----------------------------
(***************************************************************************)
(* The receiving half of SendReceive_Task in simulator.c, byte by byte:    *)
(* framing by the two length bytes, the timeout, and the flags that decide *)
(* when a next packet may start.  Only framing matters here, so a byte is  *)
(* its place in the stream of bytes the peer sends, counted from 0; the    *)
(* UART holds those from read to arrived - 1.                              *)
(***************************************************************************)
EXTENDS Naturals

CONSTANTS
  MaxPackets,   \* packets the peer sends
  MaxLength,    \* longest packet, not counting the two length bytes
  TimeoutLimit  \* 0xFFF0 in the code

ASSUME SendReceiveAssumption ==
  MaxPackets \in Nat /\ MaxLength \in Nat \ {0} /\ TimeoutLimit \in Nat

VARIABLES
  sent,           \* packets sent so far
  start,          \* the place where each of them begins
  length,         \* and its length, as the length bytes give it
  total,          \* bytes sent
  arrived,        \* of these, in the UART's receive buffer or read
  read,           \* of these, returned by uart_getchar
  receiveBuffer, bytesSoFar, bytesWaiting,
  packetHandled, receivedFirst, receiveTimeout,
  handled         \* packets taken by a handler so far

peer     == <<sent, start, length, total>>
receiver == <<read, receiveBuffer, bytesSoFar, bytesWaiting, packetHandled,
              receivedFirst, receiveTimeout, handled>>
vars     == <<peer, arrived, receiver>>

Indices == 0 .. MaxLength + 1

(* The variables keep their types; in particular bytesWaiting never goes   *)
(* below zero and bytesSoFar stays inside receiveBuffer.                   *)
TypeOK ==
  /\ sent \in 0 .. MaxPackets
  /\ start \in [1 .. MaxPackets -> Nat]
  /\ length \in [1 .. MaxPackets -> 0 .. MaxLength]
  /\ total \in Nat /\ arrived \in 0 .. total /\ read \in 0 .. arrived
  /\ receiveBuffer \in [Indices -> Nat]
  /\ bytesSoFar \in 0 .. MaxLength + 2 /\ bytesWaiting \in 0 .. MaxLength
  /\ packetHandled \in BOOLEAN /\ receivedFirst \in BOOLEAN
  /\ receiveTimeout \in 0 .. TimeoutLimit + 1
  /\ handled \in Nat

Init ==
  /\ sent = 0 /\ total = 0 /\ arrived = 0 /\ read = 0
  /\ start = [k \in 1 .. MaxPackets |-> 0] /\ length = [k \in 1 .. MaxPackets |-> 0]
  /\ receiveBuffer = [i \in Indices |-> 0]
  /\ bytesSoFar = 0 /\ bytesWaiting = 0 /\ receiveTimeout = 0
  /\ packetHandled = FALSE /\ receivedFirst = FALSE
  /\ handled = 0

-----------------------------------------------------------------------------
(* The peer sends whole packets; their bytes arrive one by one. *)
PeerSends ==
  /\ sent < MaxPackets /\ sent' = sent + 1
  /\ \E n \in 1 .. MaxLength :
       /\ start' = [start EXCEPT ![sent + 1] = total]
       /\ length' = [length EXCEPT ![sent + 1] = n]
       /\ total' = total + n + 2
  /\ UNCHANGED <<arrived, receiver>>

ByteArrives ==
  /\ arrived < total /\ arrived' = arrived + 1
  /\ UNCHANGED <<peer, receiver>>

-----------------------------------------------------------------------------
uart_available == arrived - read

IsPacketReady == bytesWaiting = 0 /\ bytesSoFar > 0 /\ ~packetHandled

Partial == bytesSoFar > 0 /\ bytesWaiting > 0
Expired == Partial /\ receiveTimeout > TimeoutLimit

(* bytesSoFar and bytesWaiting after the timeout check that comes first. *)
SoFar == IF Expired THEN 0 ELSE bytesSoFar
Left  == IF Expired THEN 0 ELSE bytesWaiting

(* The length the bytes at place p and p + 1 spell: known when a packet    *)
(* begins there, anything when they are payload.                           *)
Spelled(p) ==
  IF \E k \in 1 .. sent : start[k] = p
  THEN {length[k] : k \in {j \in 1 .. sent : start[j] = p}}
  ELSE 1 .. MaxLength

(* Mutant: after a timeout the next bytes are taken for a new packet. *)
MayStartAnyway == uart_available >= 2 /\ SoFar = 0

MayStart == uart_available >= 2 /\ SoFar = 0 /\ (~receivedFirst \/ packetHandled)

StartPacket ==
  /\ MayStart
  /\ receiveBuffer' = [receiveBuffer EXCEPT ![0] = read, ![1] = read + 1]
  /\ bytesWaiting' \in Spelled(read)
  /\ read' = read + 2
  /\ bytesSoFar' = 2 /\ receiveTimeout' = 0
  /\ packetHandled' = FALSE /\ receivedFirst' = TRUE

(* Mutant: the loop reads what is there, past the end of the packet. *)
TakenAll == uart_available

(* Bytes read by the loop "while (uart_available() && bytesWaiting)". *)
Taken == IF uart_available <= Left THEN uart_available ELSE Left

ContinuePacket ==
  /\ ~MayStart
  /\ receiveBuffer' = [i \in Indices |-> IF i \in SoFar .. SoFar + Taken - 1
                                         THEN read + (i - SoFar)
                                         ELSE receiveBuffer[i]]
  /\ read' = read + Taken
  /\ bytesSoFar' = SoFar + Taken /\ bytesWaiting' = Left - Taken
  /\ receiveTimeout' = IF Expired THEN 0
                       ELSE IF Partial THEN receiveTimeout + 1
                       ELSE receiveTimeout
  /\ UNCHANGED <<packetHandled, receivedFirst>>

Task ==
  /\ StartPacket \/ ContinuePacket
  /\ UNCHANGED <<peer, arrived, handled>>

(* Mutant: bytesSoFar is not reset. *)
SetHandledOnly ==
  /\ IsPacketReady
  /\ packetHandled' = TRUE /\ handled' = handled + 1
  /\ UNCHANGED <<peer, arrived, read, receiveBuffer, bytesSoFar, bytesWaiting,
                 receivedFirst, receiveTimeout>>

(* HandleReceivedPacket or WaitForPacket takes the packet. *)
SetHandled ==
  /\ IsPacketReady
  /\ packetHandled' = TRUE /\ bytesSoFar' = 0
  /\ handled' = handled + 1
  /\ UNCHANGED <<peer, arrived, read, receiveBuffer, bytesWaiting, receivedFirst,
                 receiveTimeout>>

Next == PeerSends \/ ByteArrives \/ Task \/ SetHandled

(* Bytes on the wire arrive; main's loop and the spin loops keep calling   *)
(* SendReceive_Task and looking for a packet.                              *)
Spec     == Init /\ [][Next]_vars
LiveSpec == Spec /\ WF_vars(ByteArrives) /\ WF_vars(Task) /\ WF_vars(SetHandled)

-----------------------------------------------------------------------------
(* A packet that is ready is, byte for byte, the next packet the peer sent.*)
(* (After a timeout nothing is ever ready again, see StartsOver: this is   *)
(* why a stalled packet cannot be confused with the one after it.)         *)
ReadyPacketIntact ==
  IsPacketReady =>
    /\ handled < sent
    /\ bytesSoFar = length[handled + 1] + 2
    /\ \A i \in 0 .. bytesSoFar - 1 : receiveBuffer[i] = start[handled + 1] + i

(* Every packet the peer sends is handed to a handler, unless the peer has *)
(* stalled inside one and the timeout came first.                          *)
TimedOut == receivedFirst /\ ~packetHandled /\ bytesSoFar = 0
EveryPacketHandled ==
  \A k \in 1 .. MaxPackets : sent = k ~> handled >= k \/ TimedOut

(* simulator.c:119, "If we've timed out, start over": with nothing being   *)
(* received and a packet's length bytes waiting, a packet is started.      *)
StartsOver == (bytesSoFar = 0 /\ uart_available >= 2) ~> (bytesSoFar > 0)
=============================================================================
