----------------------------- MODULE ByteQueue -----------------------------
(***************************************************************************)
(* What the UART's transmit side promises its caller: a bounded FIFO.      *)
(* Bytes are numbered in the order they are given, so the queue is an      *)
(* interval: the bytes after taken, up to given.                           *)
(***************************************************************************)
EXTENDS Naturals

CONSTANTS MaxBytes, Capacity

VARIABLES
  given,        \* the last byte put
  taken         \* the last byte that left

Init == given = 0 /\ taken = 0

Put ==
  /\ given < MaxBytes /\ given - taken < Capacity
  /\ given' = given + 1 /\ UNCHANGED taken

Take == taken < given /\ taken' = taken + 1 /\ UNCHANGED given

Next == Put \/ Take
Spec == Init /\ [][Next]_<<given, taken>> /\ WF_<<given, taken>>(Take)
=============================================================================
