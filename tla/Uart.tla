-------------------------------- MODULE Uart --------------------------------
(***************************************************************************)
(* uart.c as a whole: the two rings, their interrupts, and one thread that *)
(* is in at most one of the file's functions at a time, SendReceive_Task of*)
(* simulator.c, which receives and then sends.                             *)
(***************************************************************************)
EXTENDS UartTransmit, UartReceive

vars == <<txVars, rxVars>>

TypeOK == TxTypeOK /\ RxTypeOK

Init == TxInit /\ RxInit

(* A function of one side runs while the thread is outside the other's.    *)
ReceiveThread == txPc = "return" /\ RxTask /\ UNCHANGED txVars
SendThread    == rxPc = "ask" /\ (CallPutChar \/ PutChar) /\ UNCHANGED rxVars
RxInterrupt   == ReceiveByte /\ UNCHANGED txVars
TxInterrupt   == (Interrupt \/ Shift) /\ UNCHANGED rxVars

Next == ReceiveThread \/ SendThread \/ RxInterrupt \/ TxInterrupt

(* The processor executes putchar once it is called, an enabled interrupt  *)
(* is taken, and the UART shifts.  Nothing obliges the caller to call.     *)
Fairness ==
  /\ WF_vars(PutChar /\ UNCHANGED rxVars)
  /\ WF_vars(Interrupt /\ UNCHANGED rxVars) /\ WF_vars(Shift /\ UNCHANGED rxVars)

Spec == Init /\ [][Next]_vars
LiveSpec == Spec /\ Fairness

-----------------------------------------------------------------------------
(* The transmit ring is a FIFO of TX_BUFFER_SIZE - 1 bytes, whatever access*)
(* of uart_putchar the interrupt comes between: nothing is lost, repeated  *)
(* or overtaken, and every byte put leaves.                                *)
Queue == INSTANCE ByteQueue WITH
  MaxBytes <- MaxSent, Capacity <- TX_BUFFER_SIZE - 1, given <- put, taken <- out

QueueSpec == Queue!Spec

(* No lost wakeup: outside uart_putchar a byte in the ring always has the  *)
(* interrupt enabled to send it, although the interrupt disables itself    *)
(* when it finds the ring empty in the middle of a putchar.                *)
NoStrandedByte ==
  txPc = "return" /\ tx_buffer_head # tx_buffer_tail => UDRIE

(* uart_putchar returns: its wait for space, which runs with no timeout,   *)
(* ends because a full ring is always being emptied.                       *)
PutCharReturns == txPc # "return" ~> txPc = "return"

(* The caller never waits inside uart_getchar: uart_available never counts *)
(* more bytes than the ring holds, although bytes arrive between its two   *)
(* reads, and the bytes it counted are still there for every call owed.    *)
GetCharNeverSpins ==
  /\ rxPc = "decide" => available <= Held
  /\ rxPc = "spin" => Held >= owed

(* Bytes are returned in the order of arrival, none twice, and none that   *)
(* was overwritten by a later one.                                         *)
InOrder == [][gotten' # gotten => got' > got]_vars

(* Every byte is accounted for: returned, counted as dropped, or still in  *)
(* the ring.  (While the tail lags behind a byte just read, the byte is in *)
(* both.)                                                                  *)
Accounted ==
  received = dropped + gotten + Held - (IF rxPc = "advance" THEN 1 ELSE 0)
=============================================================================
