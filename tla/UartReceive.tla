---------------------------- MODULE UartReceive ----------------------------
(***************************************************************************)
(* The receive ring of uart.c: uart_available and uart_getchar, one memory *)
(* access at a time, against the receive interrupt, with SendReceive_Task  *)
(* of simulator.c as their caller.  A byte is its number in the order of   *)
(* arrival.                                                                *)
(***************************************************************************)
EXTENDS Naturals

CONSTANTS
  RX_BUFFER_SIZE, \* 64 in the code
  MaxReceived,    \* bytes that arrive
  MaxPacket       \* what two length bytes can announce

ASSUME UartReceiveAssumption ==
  /\ RX_BUFFER_SIZE \in Nat \ {0, 1, 2} /\ MaxReceived \in Nat
  /\ MaxPacket \in Nat \ {0}

VARIABLES
  rx_buffer, rx_buffer_head, rx_buffer_tail,
  received,       \* bytes the interrupt has run for
  dropped,        \* of these, the ones it found no room for
  got,            \* the last byte uart_getchar returned
  gotten,         \* how many it returned
  rxPc,           \* the next access of the caller, "decide" between two calls
  head,           \* uart_available's copy of rx_buffer_head
  available,      \* what uart_available returned last
  owed,           \* calls of uart_getchar the caller makes without asking again
  bytesWaiting    \* bytes of the packet the caller still wants

rxRing == <<rx_buffer, rx_buffer_head, rx_buffer_tail>>
rxTask == <<rxPc, head, available, owed, bytesWaiting>>
rxVars == <<rxRing, received, dropped, got, gotten, rxTask>>

RxSlots == 0 .. RX_BUFFER_SIZE - 1

RxTypeOK ==
  /\ rx_buffer \in [RxSlots -> 0 .. MaxReceived]
  /\ rx_buffer_head \in RxSlots /\ rx_buffer_tail \in RxSlots
  /\ received \in 0 .. MaxReceived /\ dropped \in 0 .. received
  /\ got \in 0 .. received /\ gotten \in 0 .. received
  /\ rxPc \in {"ask", "tail", "decide", "spin", "read", "advance"}
  /\ head \in RxSlots /\ available \in RxSlots
  /\ owed \in 0 .. 2 /\ bytesWaiting \in 0 .. MaxPacket

RxInit ==
  /\ rx_buffer = [s \in RxSlots |-> 0]
  /\ rx_buffer_head = 0 /\ rx_buffer_tail = 0
  /\ received = 0 /\ dropped = 0 /\ got = 0 /\ gotten = 0
  /\ rxPc = "ask" /\ head = 0 /\ available = 0 /\ owed = 0 /\ bytesWaiting = 0

RxAfter(s) == IF s + 1 >= RX_BUFFER_SIZE THEN 0 ELSE s + 1

-----------------------------------------------------------------------------
(* ISR(USART1_RX_vect): a byte that finds the ring full is dropped.          *)

(* Mutant: the interrupt does not look for room. *)
ReceiveByteAnyway ==
  /\ received < MaxReceived /\ received' = received + 1
  /\ rx_buffer_head' = RxAfter(rx_buffer_head)
  /\ rx_buffer' = [rx_buffer EXCEPT ![RxAfter(rx_buffer_head)] = received + 1]
  /\ UNCHANGED <<rx_buffer_tail, got, gotten, dropped, rxTask>>

ReceiveByte ==
  /\ received < MaxReceived /\ received' = received + 1
  /\ IF RxAfter(rx_buffer_head) # rx_buffer_tail
     THEN /\ rx_buffer_head' = RxAfter(rx_buffer_head)
          /\ rx_buffer' = [rx_buffer EXCEPT ![RxAfter(rx_buffer_head)] = received + 1]
          /\ UNCHANGED dropped
     ELSE dropped' = dropped + 1 /\ UNCHANGED <<rx_buffer, rx_buffer_head>>
  /\ UNCHANGED <<rx_buffer_tail, got, gotten, rxTask>>

-----------------------------------------------------------------------------
(* uart_available, with the two volatile reads in the order of the code.   *)
ReadHead ==
  /\ rxPc = "ask" /\ rxPc' = "tail" /\ head' = rx_buffer_head
  /\ UNCHANGED <<rxRing, received, dropped, got, gotten, available, owed, bytesWaiting>>

Distance(h, t) == IF h >= t THEN h - t ELSE RX_BUFFER_SIZE + h - t

ReadTail ==
  /\ rxPc = "tail" /\ rxPc' = "decide"
  /\ available' = Distance(head, rx_buffer_tail)
  /\ UNCHANGED <<rxRing, received, dropped, got, gotten, head, owed, bytesWaiting>>

(* Mutant: one waiting byte is enough to take the two length bytes. *)
DecideOnOne ==
  /\ rxPc = "decide"
  /\ \/ bytesWaiting = 0 /\ available >= 1 /\ rxPc' = "spin" /\ owed' = 2
     \/ bytesWaiting = 0 /\ available < 1 /\ rxPc' = "ask" /\ UNCHANGED owed
     \/ bytesWaiting > 0 /\ available > 0 /\ rxPc' = "spin" /\ owed' = 1
     \/ bytesWaiting > 0 /\ available = 0 /\ rxPc' = "ask" /\ UNCHANGED owed
  /\ UNCHANGED <<rxRing, received, dropped, got, gotten, head, available, bytesWaiting>>

(* SendReceive_Task: two bytes at once when a packet begins, one at a time *)
(* inside it.  (Handlers are taken to be done with the previous packet.)   *)
Decide ==
  /\ rxPc = "decide"
  /\ \/ bytesWaiting = 0 /\ available >= 2 /\ rxPc' = "spin" /\ owed' = 2
     \/ bytesWaiting = 0 /\ available < 2 /\ rxPc' = "ask" /\ UNCHANGED owed
     \/ bytesWaiting > 0 /\ available > 0 /\ rxPc' = "spin" /\ owed' = 1
     \/ bytesWaiting > 0 /\ available = 0 /\ rxPc' = "ask" /\ UNCHANGED owed
  /\ UNCHANGED <<rxRing, received, dropped, got, gotten, head, available, bytesWaiting>>

(* uart_getchar *)
Spin ==
  /\ rxPc = "spin" /\ rx_buffer_head # rx_buffer_tail /\ rxPc' = "read"
  /\ UNCHANGED <<rxRing, received, dropped, got, gotten, head, available, owed,
                 bytesWaiting>>

(* Mutant: the byte is read from the slot the tail is at, not the next one.*)
ReadAtTail ==
  /\ rxPc = "read" /\ rxPc' = "advance"
  /\ got' = rx_buffer[rx_buffer_tail] /\ gotten' = gotten + 1
  /\ UNCHANGED <<rxRing, received, dropped, head, available, owed, bytesWaiting>>

ReadByte ==
  /\ rxPc = "read" /\ rxPc' = "advance"
  /\ got' = rx_buffer[RxAfter(rx_buffer_tail)] /\ gotten' = gotten + 1
  /\ UNCHANGED <<rxRing, received, dropped, head, available, owed, bytesWaiting>>

(* Mutant: the tail does not wrap at the end of the ring. *)
AdvanceTailNoWrap ==
  /\ rxPc = "advance" /\ rx_buffer_tail' = rx_buffer_tail + 1
  /\ owed' = owed - 1 /\ rxPc' = IF owed = 1 THEN "ask" ELSE "spin"
  /\ UNCHANGED <<rx_buffer, rx_buffer_head, received, dropped, got, gotten, head,
                 available, bytesWaiting>>

AdvanceTail ==
  /\ rxPc = "advance" /\ rx_buffer_tail' = RxAfter(rx_buffer_tail)
  /\ owed' = owed - 1
  /\ rxPc' = IF owed = 1 THEN "ask" ELSE "spin"
  /\ bytesWaiting' \in IF bytesWaiting > 0 THEN {bytesWaiting - 1}
                       ELSE IF owed = 1 THEN 0 .. MaxPacket ELSE {0}
  /\ UNCHANGED <<rx_buffer, rx_buffer_head, received, dropped, got, gotten, head,
                 available>>

RxTask == ReadHead \/ ReadTail \/ Decide \/ Spin \/ ReadByte \/ AdvanceTail
RxNext == ReceiveByte \/ RxTask

(* Bytes the ring holds. *)
Held == Distance(rx_buffer_head, rx_buffer_tail)
=============================================================================
