---------------------------- MODULE UartTransmit ----------------------------
(***************************************************************************)
(* The transmit ring of uart.c: uart_putchar, one memory access at a time, *)
(* against the data register empty interrupt, which may run between any    *)
(* two of them (putchar does not disable interrupts: its cli and sei are   *)
(* commented out).  A byte is its number in the order of the calls.        *)
(***************************************************************************)
EXTENDS Naturals

CONSTANTS
  TX_BUFFER_SIZE, \* 40 in the code
  MaxSent         \* bytes the caller sends

ASSUME UartTransmitAssumption ==
  TX_BUFFER_SIZE \in Nat \ {0, 1} /\ MaxSent \in Nat

VARIABLES
  tx_buffer, tx_buffer_head, tx_buffer_tail,
  UDRIE,          \* the interrupt is enabled (UCSR1B)
  UDRE,           \* UDR1 is free: the last byte is in the shift register
  txPc,           \* the next access of uart_putchar, "return" outside it
  called,         \* calls of uart_putchar; its argument
  put,            \* of these bytes, the last one the caller made visible
  out             \* the last byte written to UDR1

txRing == <<tx_buffer, tx_buffer_head, tx_buffer_tail>>
txVars == <<txRing, UDRIE, UDRE, txPc, called, put, out>>

TxSlots == 0 .. TX_BUFFER_SIZE - 1
PutCharSteps == {"return", "wait", "store", "advance", "enable"}

TxTypeOK ==
  /\ tx_buffer \in [TxSlots -> 0 .. MaxSent]
  /\ tx_buffer_head \in TxSlots /\ tx_buffer_tail \in TxSlots
  /\ UDRIE \in BOOLEAN /\ UDRE \in BOOLEAN
  /\ txPc \in PutCharSteps
  /\ called \in 0 .. MaxSent /\ put \in 0 .. MaxSent /\ out \in 0 .. MaxSent

(* uart_init *)
TxInit ==
  /\ tx_buffer = [s \in TxSlots |-> 0]
  /\ tx_buffer_head = 0 /\ tx_buffer_tail = 0
  /\ UDRIE = FALSE /\ UDRE = TRUE
  /\ txPc = "return" /\ called = 0 /\ put = 0 /\ out = 0

TxAfter(s) == IF s + 1 >= TX_BUFFER_SIZE THEN 0 ELSE s + 1

-----------------------------------------------------------------------------
(* uart_putchar                                                            *)
CallPutChar ==
  /\ txPc = "return" /\ called < MaxSent
  /\ called' = called + 1 /\ txPc' = "wait"
  /\ UNCHANGED <<txRing, UDRIE, UDRE, put, out>>

(* Mutant: no wait, a full ring is written over. *)
WaitForNothing ==
  /\ txPc = "wait" /\ txPc' = "store"
  /\ UNCHANGED <<txRing, UDRIE, UDRE, called, put, out>>

WaitForSpace ==
  /\ txPc = "wait" /\ tx_buffer_tail # TxAfter(tx_buffer_head)
  /\ txPc' = "store"
  /\ UNCHANGED <<txRing, UDRIE, UDRE, called, put, out>>

Store ==
  /\ txPc = "store" /\ txPc' = "advance"
  /\ tx_buffer' = [tx_buffer EXCEPT ![TxAfter(tx_buffer_head)] = called]
  /\ UNCHANGED <<tx_buffer_head, tx_buffer_tail, UDRIE, UDRE, called, put, out>>

Advance ==
  /\ txPc = "advance" /\ txPc' = "enable"
  /\ tx_buffer_head' = TxAfter(tx_buffer_head) /\ put' = called
  /\ UNCHANGED <<tx_buffer, tx_buffer_tail, UDRIE, UDRE, called, out>>

(* Mutant: the interrupt is not enabled. *)
EnableNot ==
  /\ txPc = "enable" /\ txPc' = "return"
  /\ UNCHANGED <<txRing, UDRIE, UDRE, called, put, out>>

Enable ==
  /\ txPc = "enable" /\ txPc' = "return"
  /\ UDRIE' = TRUE
  /\ UNCHANGED <<txRing, UDRE, called, put, out>>

-----------------------------------------------------------------------------
(* ISR(USART1_UDRE_vect): runs to its end, as interrupts are off in it.    *)
Empty ==
  /\ UDRIE /\ UDRE /\ tx_buffer_head = tx_buffer_tail
  /\ UDRIE' = FALSE
  /\ UNCHANGED <<txRing, UDRE, txPc, called, put, out>>

SendByte ==
  /\ UDRIE /\ UDRE /\ tx_buffer_head # tx_buffer_tail
  /\ out' = tx_buffer[TxAfter(tx_buffer_tail)] /\ UDRE' = FALSE
  /\ tx_buffer_tail' = TxAfter(tx_buffer_tail)
  /\ UNCHANGED <<tx_buffer, tx_buffer_head, UDRIE, txPc, called, put>>

(* The UART shifts a byte out and takes the next from UDR1. *)
Shift ==
  /\ ~UDRE /\ UDRE' = TRUE
  /\ UNCHANGED <<txRing, UDRIE, txPc, called, put, out>>

PutChar   == WaitForSpace \/ Store \/ Advance \/ Enable
Interrupt == Empty \/ SendByte

TxNext == CallPutChar \/ PutChar \/ Interrupt \/ Shift
=============================================================================
