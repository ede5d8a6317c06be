----------------------------- MODULE SendEvents -----------------------------
(***************************************************************************)
(* The sending half of simulator.c with the two USB events that also send: *)
(* EVENT_USB_Device_Connect and _Disconnect run in USB_GEN_vect, which is  *)
(* ISR_BLOCK, so they interrupt main's own send between any two accesses   *)
(* and run to their end with interrupts off, the UART's included.          *)
(* A byte is the packet it belongs to and its index there.                 *)
(***************************************************************************)
EXTENDS Naturals, Sequences

CONSTANTS
  MaxPackets,      \* packets main sends
  PacketBytes,     \* bytes of each, the two length bytes included
  EventBytes,      \* bytes of an 'F' packet: 4 in the code
  MaxEvents,       \* times the cable is plugged in or out
  TX_BUFFER_SIZE,  \* of uart.c, 40 in the code
  Modulus          \* of bytesLeftToSend and bytesSentSoFar, 2^16 in the code

ASSUME SendEventsAssumption ==
  /\ {MaxPackets, MaxEvents} \subseteq Nat
  /\ PacketBytes \in Nat \ {0, 1, 2} /\ EventBytes \in Nat \ {0, 1, 2}
  /\ TX_BUFFER_SIZE \in Nat /\ TX_BUFFER_SIZE > EventBytes
  /\ Modulus \in Nat /\ Modulus > PacketBytes /\ Modulus > EventBytes

VARIABLES
  transmitBuffer, bytesLeftToSend, bytesSentSoFar,
  tx_buffer, tx_buffer_head, tx_buffer_tail,
  pc,           \* the next access of main's send
  c, i,         \* uart_putchar's argument and its local i, called by main
  packets,      \* packets main has begun to fill in
  isr,          \* where the event handler is; "off" outside it
  events,       \* events so far
  wire,         \* bytes the UART has sent
  clash,        \* an event has come where main's send cannot stand it
  tight         \* an event has found too little room for what it must send

send == <<transmitBuffer, bytesLeftToSend, bytesSentSoFar>>
ring == <<tx_buffer, tx_buffer_head, tx_buffer_tail>>
history == <<clash, tight>>
vars == <<send, ring, pc, c, i, packets, isr, events, wire, history>>

Slots == 0 .. TX_BUFFER_SIZE - 1
Longest == IF PacketBytes > EventBytes THEN PacketBytes ELSE EventBytes

(* Main's packets are 1 .. MaxPackets, the events' follow. *)
Event(n) == MaxPackets + n
LengthOf(p) == IF p <= MaxPackets THEN PacketBytes ELSE EventBytes
Junk == [of |-> 0, at |-> 0]       \* what lies behind the bytes of a packet
Bytes == [of : 0 .. MaxPackets + MaxEvents, at : 0 .. Longest - 1]

TypeOK ==
  /\ transmitBuffer \in [0 .. Longest - 1 -> Bytes]
  /\ bytesLeftToSend \in 0 .. Modulus - 1 /\ bytesSentSoFar \in 0 .. Modulus - 1
  /\ tx_buffer \in [Slots -> Bytes]
  /\ tx_buffer_head \in Slots /\ tx_buffer_tail \in Slots
  /\ pc \in {"fill", "start", "restart", "check", "load", "wait", "store", "count"}
  /\ c \in Bytes /\ i \in Slots
  /\ packets \in 0 .. MaxPackets /\ events \in 0 .. MaxEvents
  /\ isr \in {"off", "drain", "send"} /\ wire \in Seq(Bytes)
  /\ {clash, tight} \subseteq BOOLEAN

Init ==
  /\ transmitBuffer = [k \in 0 .. Longest - 1 |-> Junk]
  /\ bytesLeftToSend = 0 /\ bytesSentSoFar = 0
  /\ tx_buffer = [s \in Slots |-> Junk]
  /\ tx_buffer_head = 0 /\ tx_buffer_tail = 0
  /\ pc = "fill" /\ c = Junk /\ i = 0 /\ packets = 0
  /\ isr = "off" /\ events = 0 /\ wire = <<>> /\ clash = FALSE /\ tight = FALSE

(* Mutant: the index wraps one slot late. *)
AfterLate(s) == IF s + 1 > TX_BUFFER_SIZE THEN 0 ELSE s + 1

After(s) == IF s + 1 >= TX_BUFFER_SIZE THEN 0 ELSE s + 1

(* transmitBuffer with the bytes of packet p stored from index 0 on. *)
Filled(p) == [k \in 0 .. Longest - 1 |->
               IF k < LengthOf(p) THEN [of |-> p, at |-> k] ELSE transmitBuffer[k]]

(* What transmitBuffer[n] reads: memory behind it once n has run past it.  *)
ByteAt(n) == IF n < Longest THEN transmitBuffer[n] ELSE Junk

-----------------------------------------------------------------------------
(* Main: a handler fills transmitBuffer, SendReceive_StartSend sets the two*)
(* counters, and a loop calls SendReceive_Task until all is put.           *)
Main == isr = "off" /\ UNCHANGED <<isr, events, wire, history>>

Fill ==
  /\ Main /\ pc = "fill" /\ packets < MaxPackets
  /\ packets' = packets + 1 /\ transmitBuffer' = Filled(packets + 1)
  /\ pc' = "start"
  /\ UNCHANGED <<bytesLeftToSend, bytesSentSoFar, ring, c, i>>

StartSend ==
  /\ Main /\ pc = "start" /\ pc' = "restart"
  /\ bytesLeftToSend' = LengthOf(transmitBuffer[0].of)
  /\ UNCHANGED <<transmitBuffer, bytesSentSoFar, ring, c, i, packets>>

(* Mutant: bytesSentSoFar is not reset for the next packet. *)
RestartNot ==
  /\ Main /\ pc = "restart" /\ pc' = "check"
  /\ UNCHANGED <<send, ring, c, i, packets>>

Restart ==
  /\ Main /\ pc = "restart" /\ pc' = "check"
  /\ bytesSentSoFar' = 0
  /\ UNCHANGED <<transmitBuffer, bytesLeftToSend, ring, c, i, packets>>

Check ==
  /\ Main /\ pc = "check"
  /\ pc' = IF bytesLeftToSend > 0 THEN "load" ELSE "fill"
  /\ UNCHANGED <<send, ring, c, i, packets>>

Load ==
  /\ Main /\ pc = "load" /\ pc' = "wait"
  /\ c' = ByteAt(bytesSentSoFar)
  /\ bytesSentSoFar' = (bytesSentSoFar + 1) % Modulus
  /\ i' = After(tx_buffer_head)
  /\ UNCHANGED <<transmitBuffer, bytesLeftToSend, ring, packets>>

Wait ==
  /\ Main /\ pc = "wait" /\ tx_buffer_tail # i /\ pc' = "store"
  /\ UNCHANGED <<send, ring, c, i, packets>>

Store ==
  /\ Main /\ pc = "store" /\ pc' = "count"
  /\ tx_buffer' = [tx_buffer EXCEPT ![i] = c] /\ tx_buffer_head' = i
  /\ UNCHANGED <<send, tx_buffer_tail, c, i, packets>>

Count ==
  /\ Main /\ pc = "count" /\ pc' = "check"
  /\ bytesLeftToSend' = (bytesLeftToSend + Modulus - 1) % Modulus
  /\ UNCHANGED <<transmitBuffer, bytesSentSoFar, ring, c, i, packets>>

-----------------------------------------------------------------------------
(* The handler.  With interrupts off nothing comes between its own steps;  *)
(* its uart_putchar waits for room that only the UART's interrupt makes.   *)
InEvent == UNCHANGED <<pc, c, i, packets, wire, tx_buffer_tail>>

Room == TX_BUFFER_SIZE - 1 -
          (IF tx_buffer_head >= tx_buffer_tail THEN tx_buffer_head - tx_buffer_tail
           ELSE TX_BUFFER_SIZE + tx_buffer_head - tx_buffer_tail)

(* Where main holds what the handler changes under it: the packet put      *)
(* together and not yet begun, or a byte fetched, put and not counted.     *)
MidSend == {"start", "restart", "load", "wait", "store", "count"}

Interrupt ==
  /\ isr = "off" /\ events < MaxEvents
  /\ isr' = "drain" /\ events' = events + 1
  /\ clash' = (clash \/ pc \in MidSend)
  /\ tight' = (tight \/ Room < bytesLeftToSend + EventBytes)
  /\ InEvent /\ UNCHANGED <<send, tx_buffer, tx_buffer_head>>

(* SendReceive_Task, with bytes left: main's packet, then the handler's.   *)

(* Mutant: the handler does not count the byte it puts. *)
EventPutsUncounted ==
  /\ isr # "off" /\ bytesLeftToSend > 0
  /\ After(tx_buffer_head) # tx_buffer_tail
  /\ tx_buffer_head' = After(tx_buffer_head)
  /\ tx_buffer' = [tx_buffer EXCEPT ![tx_buffer_head'] = ByteAt(bytesSentSoFar)]
  /\ bytesSentSoFar' = (bytesSentSoFar + 1) % Modulus
  /\ InEvent /\ UNCHANGED <<transmitBuffer, bytesLeftToSend, isr, events, history>>

EventPuts ==
  /\ isr # "off" /\ bytesLeftToSend > 0
  /\ After(tx_buffer_head) # tx_buffer_tail
  /\ tx_buffer_head' = After(tx_buffer_head)
  /\ tx_buffer' = [tx_buffer EXCEPT ![tx_buffer_head'] = ByteAt(bytesSentSoFar)]
  /\ bytesSentSoFar' = (bytesSentSoFar + 1) % Modulus
  /\ bytesLeftToSend' = bytesLeftToSend - 1
  /\ InEvent /\ UNCHANGED <<transmitBuffer, isr, events, history>>

EventStarts ==
  /\ isr = "drain" /\ bytesLeftToSend = 0 /\ isr' = "send"
  /\ transmitBuffer' = Filled(Event(events))
  /\ bytesLeftToSend' = EventBytes /\ bytesSentSoFar' = 0
  /\ InEvent /\ UNCHANGED <<tx_buffer, tx_buffer_head, events, history>>

EventEnds ==
  /\ isr = "send" /\ bytesLeftToSend = 0 /\ isr' = "off"
  /\ InEvent /\ UNCHANGED <<send, tx_buffer, tx_buffer_head, events, history>>

-----------------------------------------------------------------------------
(* The UART's interrupt, when interrupts are on.  (That it is enabled while*)
(* the ring holds bytes is UartTransmit's NoStrandedByte.)                 *)
Transmit ==
  /\ isr = "off" /\ tx_buffer_tail # tx_buffer_head
  /\ tx_buffer_tail' = After(tx_buffer_tail)
  /\ wire' = Append(wire, tx_buffer[After(tx_buffer_tail)])
  /\ UNCHANGED <<send, tx_buffer, tx_buffer_head, pc, c, i, packets, isr, events, history>>

MainNext == Fill \/ StartSend \/ Restart \/ Check \/ Load \/ Wait \/ Store \/ Count
Handler  == EventPuts \/ EventStarts \/ EventEnds

Next == MainNext \/ Interrupt \/ Handler \/ Transmit

(* The processor runs, and the UART sends. *)
Spec == Init /\ [][Next]_vars /\ WF_vars(MainNext) /\ WF_vars(Handler) /\ WF_vars(Transmit)

-----------------------------------------------------------------------------
(* What the peer receives is whole packets, one after the other, the last  *)
(* perhaps still on its way, main's in order and none twice: its framing   *)
(* depends on it.  So it is unless an event came where main's own send was *)
(* between two of its accesses; the drain loop ("Let anything currently    *)
(* sending make it out first", simulator.c:327) is safe only at the others.*)
Begins(k) == wire[k].at = 0 /\ wire[k].of > 0
Ends(k)   == wire[k].at = LengthOf(wire[k].of) - 1
Starts    == {k \in DOMAIN wire : k = 1 \/ Ends(k - 1)}
WirePackets ==
  ~clash =>
    /\ \A k \in DOMAIN wire :
         IF k \in Starts THEN Begins(k)
         ELSE wire[k].of = wire[k - 1].of /\ wire[k].at = wire[k - 1].at + 1
    /\ \A k, l \in Starts : k < l =>
         wire[k].of # wire[l].of
    /\ \A l \in Starts : wire[l].of \in 2 .. MaxPackets =>
         \E m \in Starts : m < l /\ wire[m].of = wire[l].of - 1

(* The event handlers come back to the program they interrupted, whatever  *)
(* the interrupt fell into, unless the ring lacks the room for all that    *)
(* they send ("Send 'connected' event", simulator.c:333): with interrupts  *)
(* off nothing empties it.                                                 *)
HandlerReturns == isr # "off" ~> isr = "off" \/ tight
=============================================================================
