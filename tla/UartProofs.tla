----------------------------- MODULE UartProofs -----------------------------
(***************************************************************************)
(* Proofs about Uart for every size of the two rings: no lost wakeup, the  *)
(* transmit ring is a FIFO, uart_getchar never waits, bytes are returned in*)
(* order and accounted for, and the variables keep their types.            *)
(***************************************************************************)
EXTENDS Uart, TLAPS

(* The j-th slot after t in a ring of n slots. *)
Slot(n, t, j) == IF t + j >= n THEN t + j - n ELSE t + j

(* How far h is ahead of t in a ring of n slots. *)
Ahead(n, h, t) == IF h >= t THEN h - t ELSE n + h - t

LEMMA TxBounds ==
  /\ TX_BUFFER_SIZE \in Nat /\ TX_BUFFER_SIZE >= 2 /\ MaxSent \in Nat
BY UartTransmitAssumption

LEMMA RxBounds ==
  /\ RX_BUFFER_SIZE \in Nat /\ RX_BUFFER_SIZE >= 3 /\ MaxReceived \in Nat
  /\ MaxPacket \in Nat /\ MaxPacket >= 1
BY UartReceiveAssumption

-----------------------------------------------------------------------------
(* Arithmetic of a ring: distances stay below its size, advancing either   *)
(* end changes them by one, and the slots counted from the tail move with  *)
(* it and are distinct.                                                    *)
LEMMA AheadBounds ==
  ASSUME NEW n \in Nat, NEW h \in 0 .. n - 1, NEW t \in 0 .. n - 1
  PROVE  Ahead(n, h, t) \in 0 .. n - 1 /\ (Ahead(n, h, t) = 0 <=> h = t)
BY DEF Ahead

LEMMA AdvanceHead ==
  ASSUME NEW n \in Nat, n >= 2, NEW h \in 0 .. n - 1, NEW t \in 0 .. n - 1,
         Slot(n, h, 1) # t
  PROVE  /\ Slot(n, h, 1) \in 0 .. n - 1
         /\ Ahead(n, Slot(n, h, 1), t) = Ahead(n, h, t) + 1
         /\ Slot(n, t, Ahead(n, h, t) + 1) = Slot(n, h, 1)
BY DEF Ahead, Slot

LEMMA AdvanceTailOf ==
  ASSUME NEW n \in Nat, n >= 2, NEW h \in 0 .. n - 1, NEW t \in 0 .. n - 1, h # t
  PROVE  /\ Slot(n, t, 1) \in 0 .. n - 1
         /\ Ahead(n, h, Slot(n, t, 1)) = Ahead(n, h, t) - 1
         /\ \A j \in Nat : j < n => Slot(n, Slot(n, t, 1), j) = Slot(n, t, j + 1)
                                    \/ j = n - 1
BY DEF Ahead, Slot

LEMMA SlotsDistinct ==
  ASSUME NEW n \in Nat, NEW t \in 0 .. n - 1,
         NEW j \in 0 .. n - 1, NEW k \in 0 .. n - 1, j # k
  PROVE  Slot(n, t, j) # Slot(n, t, k) /\ Slot(n, t, j) \in 0 .. n - 1
BY DEF Slot

-----------------------------------------------------------------------------
(* Transmit.                                                               *)
TxUsed == Ahead(TX_BUFFER_SIZE, tx_buffer_head, tx_buffer_tail)
TxSlot(j) == Slot(TX_BUFFER_SIZE, tx_buffer_tail, j)
TxNewSlot == Slot(TX_BUFFER_SIZE, tx_buffer_head, 1)

TxNumbers ==
  /\ tx_buffer \in [TxSlots -> 0 .. MaxSent]
  /\ tx_buffer_head \in TxSlots /\ tx_buffer_tail \in TxSlots
  /\ called \in 0 .. MaxSent /\ put \in 0 .. MaxSent /\ out \in 0 .. MaxSent
TxFlags == UDRIE \in BOOLEAN /\ UDRE \in BOOLEAN /\ txPc \in PutCharSteps

(* The ring holds the bytes after out, in order, up to put. *)
TxHolds ==
  /\ put = out + TxUsed
  /\ \A j \in 1 .. TxUsed : tx_buffer[TxSlot(j)] = out + j

(* The byte being put is the next one, and has a free slot once it waited. *)
TxPutting ==
  /\ called = IF txPc \in {"return", "enable"} THEN put ELSE put + 1
  /\ txPc \in {"store", "advance"} => TxNewSlot # tx_buffer_tail
  /\ txPc = "advance" => tx_buffer[TxNewSlot] = called

(* The interrupt is enabled for every byte in the ring, but for the moment *)
(* in which uart_putchar is about to enable it.                            *)
TxEmpty == tx_buffer_head = tx_buffer_tail
TxAwake == ~TxEmpty /\ txPc # "enable" => UDRIE

TxInv == TxNumbers /\ TxFlags /\ TxHolds /\ TxPutting /\ TxAwake

LEMMA TxInitInv == TxInit => TxInv
<1> SUFFICES ASSUME TxInit PROVE TxInv
  OBVIOUS
<1>1. /\ tx_buffer \in [TxSlots -> 0 .. MaxSent]
      /\ tx_buffer_head = 0 /\ tx_buffer_tail = 0
      /\ called = 0 /\ put = 0 /\ out = 0
  BY TxBounds DEF TxInit
<1>2. TxFlags /\ TxEmpty /\ txPc = "return"
  BY DEF TxInit, TxFlags, TxEmpty, PutCharSteps
<1>3. TxNumbers
  BY <1>1, TxBounds DEF TxNumbers, TxSlots
<1>4. TxHolds /\ TxPutting
  BY <1>1, <1>2, TxBounds DEF TxHolds, TxPutting, TxUsed, Ahead
<1> QED BY <1>2, <1>3, <1>4 DEF TxInv, TxAwake

(* What TxNumbers says of the ring, in the form the ring lemmas ask for. *)
LEMMA TxRing ==
  ASSUME TxNumbers
  PROVE  /\ tx_buffer_head \in 0 .. TX_BUFFER_SIZE - 1
         /\ tx_buffer_tail \in 0 .. TX_BUFFER_SIZE - 1
         /\ TxUsed \in 0 .. TX_BUFFER_SIZE - 1 /\ (TxUsed = 0 <=> TxEmpty)
         /\ TxAfter(tx_buffer_head) = TxNewSlot
         /\ TxAfter(tx_buffer_tail) = TxSlot(1)
<1>1. /\ tx_buffer_head \in 0 .. TX_BUFFER_SIZE - 1
      /\ tx_buffer_tail \in 0 .. TX_BUFFER_SIZE - 1
  BY DEF TxNumbers, TxSlots
<1>2. TxUsed \in 0 .. TX_BUFFER_SIZE - 1 /\ (TxUsed = 0 <=> TxEmpty)
  BY <1>1, TxBounds, AheadBounds DEF TxUsed, TxEmpty
<1>3. /\ TxAfter(tx_buffer_head) = TxNewSlot
      /\ TxAfter(tx_buffer_tail) = TxSlot(1)
  BY <1>1, TxBounds DEF TxAfter, TxNewSlot, TxSlot, Slot
<1> QED BY <1>1, <1>2, <1>3

(* Steps that leave the ring and the bytes alone. *)
LEMMA TxStill ==
  ASSUME TxInv, UNCHANGED <<txRing, put, out>>
  PROVE  /\ TxUsed' = TxUsed /\ TxEmpty' = TxEmpty /\ TxNewSlot' = TxNewSlot
         /\ TxHolds'
<1>1. /\ tx_buffer' = tx_buffer /\ tx_buffer_head' = tx_buffer_head
      /\ tx_buffer_tail' = tx_buffer_tail /\ put' = put /\ out' = out
  BY DEF txRing
<1>2. TxUsed' = TxUsed /\ TxEmpty' = TxEmpty /\ TxNewSlot' = TxNewSlot
  BY <1>1 DEF TxUsed, TxEmpty, TxNewSlot
<1>3. TxHolds'
  BY <1>1, <1>2 DEF TxInv, TxHolds, TxSlot
<1> QED BY <1>2, <1>3

LEMMA TxCallInv == TxInv /\ CallPutChar => TxInv'
<1> SUFFICES ASSUME TxInv, CallPutChar PROVE TxInv'
  OBVIOUS
<1>1. /\ UNCHANGED <<txRing, put, out>> /\ UDRIE' = UDRIE /\ UDRE' = UDRE
      /\ txPc = "return" /\ txPc' = "wait" /\ called' = called + 1 /\ called < MaxSent
  BY DEF CallPutChar
<1>2. TxHolds' /\ TxEmpty' = TxEmpty
  BY <1>1, TxStill
<1>3. TxFlags' /\ TxAwake'
  BY <1>1, <1>2 DEF TxInv, TxFlags, TxAwake, PutCharSteps
<1>4. TxNumbers'
  BY <1>1, TxBounds DEF TxInv, TxNumbers, txRing
<1>5. TxPutting'
  BY <1>1 DEF TxInv, TxPutting
<1> QED BY <1>2, <1>3, <1>4, <1>5 DEF TxInv

LEMMA TxWaitInv == TxInv /\ WaitForSpace => TxInv'
<1> SUFFICES ASSUME TxInv, WaitForSpace PROVE TxInv'
  OBVIOUS
<1>1. /\ UNCHANGED <<txRing, put, out>> /\ UDRIE' = UDRIE /\ UDRE' = UDRE
      /\ txPc = "wait" /\ txPc' = "store" /\ called' = called
      /\ tx_buffer_tail # TxAfter(tx_buffer_head)
  BY DEF WaitForSpace
<1>2. TxHolds' /\ TxEmpty' = TxEmpty /\ TxNewSlot' = TxNewSlot
  BY <1>1, TxStill
<1>3. TxFlags' /\ TxAwake'
  BY <1>1, <1>2 DEF TxInv, TxFlags, TxAwake, PutCharSteps
<1>4. TxNumbers'
  BY <1>1 DEF TxInv, TxNumbers, txRing
<1>5. TxPutting'
  BY <1>1, <1>2, TxRing DEF TxInv, TxPutting, txRing
<1> QED BY <1>2, <1>3, <1>4, <1>5 DEF TxInv

(* The slot after the head is none the ring counts. *)
LEMMA TxStoreInv == TxInv /\ Store => TxInv'
<1> SUFFICES ASSUME TxInv, Store PROVE TxInv'
  OBVIOUS
<1>1. /\ tx_buffer_head' = tx_buffer_head /\ tx_buffer_tail' = tx_buffer_tail
      /\ put' = put /\ out' = out /\ called' = called
      /\ UDRIE' = UDRIE /\ UDRE' = UDRE /\ txPc = "store" /\ txPc' = "advance"
  BY DEF Store
<1>2. /\ TxNumbers /\ TxHolds /\ TxPutting
      /\ tx_buffer_head \in 0 .. TX_BUFFER_SIZE - 1
      /\ tx_buffer_tail \in 0 .. TX_BUFFER_SIZE - 1
      /\ TxUsed \in 0 .. TX_BUFFER_SIZE - 1
  BY TxRing DEF TxInv
<1>3. tx_buffer' = [tx_buffer EXCEPT ![TxNewSlot] = called]
  BY <1>2, TxRing DEF Store
<1>4. /\ TxUsed' = TxUsed /\ TxEmpty' = TxEmpty /\ TxNewSlot' = TxNewSlot
  BY <1>1 DEF TxUsed, TxEmpty, TxNewSlot
<1>5. TxNewSlot # tx_buffer_tail
  BY <1>1, <1>2 DEF TxPutting
<1>6. /\ TxNewSlot \in TxSlots /\ TxUsed + 1 \in 0 .. TX_BUFFER_SIZE - 1
      /\ TxSlot(TxUsed + 1) = TxNewSlot
  <2>1. /\ TxNewSlot \in 0 .. TX_BUFFER_SIZE - 1
        /\ Ahead(TX_BUFFER_SIZE, TxNewSlot, tx_buffer_tail) = TxUsed + 1
        /\ TxSlot(TxUsed + 1) = TxNewSlot
    BY <1>2, <1>5, TxBounds, AdvanceHead DEF TxNewSlot, TxUsed, TxSlot
  <2>2. Ahead(TX_BUFFER_SIZE, TxNewSlot, tx_buffer_tail) \in 0 .. TX_BUFFER_SIZE - 1
    BY <2>1, <1>2, TxBounds, AheadBounds
  <2> QED BY <2>1, <2>2 DEF TxSlots
<1>7. /\ tx_buffer' \in [TxSlots -> 0 .. MaxSent] /\ tx_buffer'[TxNewSlot] = called
      /\ \A s \in TxSlots \ {TxNewSlot} : tx_buffer'[s] = tx_buffer[s]
  <2> HIDE DEF TxSlots
  <2> QED BY <1>2, <1>3, <1>6 DEF TxNumbers
<1>8. TxNumbers'
  BY <1>1, <1>2, <1>7 DEF TxNumbers
<1>9. TxHolds'
  <2>1. ASSUME NEW j \in 1 .. TxUsed PROVE tx_buffer'[TxSlot(j)] = tx_buffer[TxSlot(j)]
    <3>1. /\ j \in 0 .. TX_BUFFER_SIZE - 1 /\ TxUsed + 1 \in 0 .. TX_BUFFER_SIZE - 1
          /\ j # TxUsed + 1
      BY <1>2, <1>6, TxBounds
    <3>2. TxSlot(j) # TxSlot(TxUsed + 1) /\ TxSlot(j) \in TxSlots
      BY <3>1, <1>2, TxBounds, SlotsDistinct DEF TxSlot, TxSlots
    <3> QED BY <3>2, <1>6, <1>7
  <2>2. \A j : TxSlot(j)' = TxSlot(j)
    BY <1>1 DEF TxSlot
  <2> QED BY <2>1, <2>2, <1>1, <1>2, <1>4 DEF TxHolds
<1>10. TxPutting'
  BY <1>1, <1>2, <1>4, <1>5, <1>7 DEF TxPutting
<1>11. TxFlags' /\ TxAwake'
  BY <1>1, <1>4 DEF TxInv, TxFlags, TxAwake, PutCharSteps
<1> QED BY <1>8, <1>9, <1>10, <1>11 DEF TxInv

(* The slot just stored becomes the last of the ring. *)
LEMMA TxAdvanceInv == TxInv /\ Advance => TxInv'
<1> SUFFICES ASSUME TxInv, Advance PROVE TxInv'
  OBVIOUS
<1>1. /\ tx_buffer' = tx_buffer /\ tx_buffer_tail' = tx_buffer_tail
      /\ put' = called /\ out' = out /\ called' = called
      /\ UDRIE' = UDRIE /\ UDRE' = UDRE /\ txPc = "advance" /\ txPc' = "enable"
  BY DEF Advance
<1>2. /\ TxNumbers /\ TxHolds /\ TxPutting
      /\ tx_buffer_head \in 0 .. TX_BUFFER_SIZE - 1
      /\ tx_buffer_tail \in 0 .. TX_BUFFER_SIZE - 1
      /\ TxUsed \in 0 .. TX_BUFFER_SIZE - 1
  BY TxRing DEF TxInv
<1>3. tx_buffer_head' = TxNewSlot
  BY <1>2, TxRing DEF Advance
<1>4. /\ TxNewSlot # tx_buffer_tail /\ called = put + 1
      /\ tx_buffer[TxNewSlot] = called
  BY <1>1, <1>2 DEF TxPutting
<1>5. /\ TxNewSlot \in 0 .. TX_BUFFER_SIZE - 1
      /\ TxUsed' = TxUsed + 1 /\ TxSlot(TxUsed + 1) = TxNewSlot
  BY <1>1, <1>2, <1>3, <1>4, TxBounds, AdvanceHead DEF TxNewSlot, TxUsed, TxSlot
<1>6. TxNumbers'
  BY <1>1, <1>2, <1>3, <1>5 DEF TxNumbers, TxSlots
<1>7. TxHolds'
  <2>1. \A j : TxSlot(j)' = TxSlot(j)
    BY <1>1 DEF TxSlot
  <2>2. put = out + TxUsed /\ put \in Nat /\ out \in Nat
    BY <1>2 DEF TxHolds, TxNumbers
  <2>3. put' = out' + TxUsed'
    BY <2>2, <1>1, <1>2, <1>4, <1>5
  <2>4. ASSUME NEW j \in 1 .. TxUsed' PROVE tx_buffer'[TxSlot(j)'] = out' + j
    <3>1. CASE j \in 1 .. TxUsed  BY <3>1, <2>1, <1>1, <1>2 DEF TxHolds
    <3>2. CASE j = TxUsed + 1     BY <3>2, <2>1, <2>2, <1>1, <1>2, <1>4, <1>5
    <3> QED BY <3>1, <3>2, <1>2, <1>5
  <2> QED BY <2>3, <2>4 DEF TxHolds
<1>8. TxPutting'
  BY <1>1 DEF TxPutting
<1>9. TxFlags' /\ TxAwake'
  BY <1>1 DEF TxInv, TxFlags, TxAwake, PutCharSteps
<1> QED BY <1>6, <1>7, <1>8, <1>9 DEF TxInv

LEMMA TxEnableInv == TxInv /\ Enable => TxInv'
<1> SUFFICES ASSUME TxInv, Enable PROVE TxInv'
  OBVIOUS
<1>1. /\ UNCHANGED <<txRing, put, out>> /\ UDRIE' = TRUE /\ UDRE' = UDRE
      /\ txPc = "enable" /\ txPc' = "return" /\ called' = called
  BY DEF Enable
<1>2. TxHolds'
  BY <1>1, TxStill
<1>3. TxFlags' /\ TxAwake'
  BY <1>1 DEF TxInv, TxFlags, TxAwake, PutCharSteps
<1>4. TxNumbers'
  BY <1>1 DEF TxInv, TxNumbers, txRing
<1>5. TxPutting'
  BY <1>1 DEF TxInv, TxPutting
<1> QED BY <1>2, <1>3, <1>4, <1>5 DEF TxInv

(* The interrupt disables itself only when nothing is in the ring. *)
LEMMA TxEmptyInv == TxInv /\ Empty => TxInv'
<1> SUFFICES ASSUME TxInv, Empty PROVE TxInv'
  OBVIOUS
<1>1. /\ UNCHANGED <<txRing, put, out>> /\ UDRIE' = FALSE /\ UDRE' = UDRE
      /\ txPc' = txPc /\ called' = called
  BY DEF Empty
<1>2. TxEmpty
  BY DEF Empty, TxEmpty
<1>3. TxHolds' /\ TxEmpty' = TxEmpty /\ TxNewSlot' = TxNewSlot
  BY <1>1, TxStill
<1>4. TxFlags' /\ TxAwake'
  BY <1>1, <1>2, <1>3 DEF TxInv, TxFlags, TxAwake
<1>5. TxNumbers'
  BY <1>1 DEF TxInv, TxNumbers, txRing
<1>6. TxPutting'
  BY <1>1, <1>3 DEF TxInv, TxPutting, txRing
<1> QED BY <1>3, <1>4, <1>5, <1>6 DEF TxInv

(* The byte sent is the first of the ring; room only grows. *)
LEMMA TxSendInv == TxInv /\ SendByte => TxInv' /\ out' = out + 1 /\ out < put
<1> SUFFICES ASSUME TxInv, SendByte PROVE TxInv' /\ out' = out + 1 /\ out < put
  OBVIOUS
<1>1. /\ tx_buffer' = tx_buffer /\ tx_buffer_head' = tx_buffer_head
      /\ put' = put /\ called' = called
      /\ UDRIE' = UDRIE /\ UDRE' = FALSE /\ txPc' = txPc
      /\ tx_buffer_head # tx_buffer_tail
  BY DEF SendByte
<1>2. /\ TxNumbers /\ TxHolds /\ TxPutting
      /\ tx_buffer_head \in 0 .. TX_BUFFER_SIZE - 1
      /\ tx_buffer_tail \in 0 .. TX_BUFFER_SIZE - 1
      /\ TxUsed \in 0 .. TX_BUFFER_SIZE - 1 /\ TxUsed # 0 /\ ~TxEmpty
  BY <1>1, TxRing DEF TxInv, TxEmpty
<1>3. out' = tx_buffer[TxSlot(1)] /\ tx_buffer_tail' = TxSlot(1)
  BY <1>2, TxRing DEF SendByte
<1>4. out \in Nat /\ put \in 0 .. MaxSent /\ put = out + TxUsed /\ out' = out + 1
  BY <1>2, <1>3 DEF TxNumbers, TxHolds
<1>5. /\ TxSlot(1) \in 0 .. TX_BUFFER_SIZE - 1 /\ TxUsed' = TxUsed - 1
      /\ \A j \in Nat : j < TX_BUFFER_SIZE - 1 => TxSlot(j)' = TxSlot(j + 1)
  <2>1. /\ TxSlot(1) \in 0 .. TX_BUFFER_SIZE - 1
        /\ Ahead(TX_BUFFER_SIZE, tx_buffer_head, TxSlot(1)) = TxUsed - 1
    BY <1>1, <1>2, TxBounds, AdvanceTailOf DEF TxSlot, TxUsed
  <2>2. \A j \in Nat : j < TX_BUFFER_SIZE - 1 => TxSlot(j)' = TxSlot(j + 1)
    BY <1>2, <1>3, TxBounds DEF TxSlot, Slot
  <2> QED BY <2>1, <2>2, <1>1, <1>3 DEF TxUsed
<1>6. TxNumbers'
  <2>1. out' \in 0 .. MaxSent  BY <1>2, <1>4, TxBounds
  <2> QED BY <2>1, <1>1, <1>2, <1>3, <1>5 DEF TxNumbers, TxSlots
<1>7. TxHolds'
  <2>1. put' = out' + TxUsed'
    BY <1>1, <1>2, <1>4, <1>5
  <2>2. ASSUME NEW j \in 1 .. TxUsed' PROVE tx_buffer'[TxSlot(j)'] = out' + j
    <3>1. /\ j \in Nat /\ j < TX_BUFFER_SIZE - 1 /\ j + 1 \in 1 .. TxUsed
      BY <1>2, <1>5, TxBounds
    <3>2. tx_buffer[TxSlot(j + 1)] = out + (j + 1)
      BY <3>1, <1>2 DEF TxHolds
    <3> QED BY <3>1, <3>2, <1>1, <1>4, <1>5
  <2> QED BY <2>1, <2>2 DEF TxHolds
<1>8. TxNewSlot' = TxNewSlot
  BY <1>1 DEF TxNewSlot
<1>9. TxPutting'
  <2>1. txPc \in {"store", "advance"} => TxNewSlot # TxSlot(1)
    <3>1. ASSUME TxNewSlot # tx_buffer_tail PROVE TxNewSlot # TxSlot(1)
      BY <3>1, <1>1, <1>2, TxBounds DEF TxNewSlot, TxSlot, Slot
    <3> QED BY <3>1, <1>2 DEF TxPutting
  <2> QED BY <2>1, <1>1, <1>2, <1>3, <1>8 DEF TxPutting
<1>10. TxFlags' /\ TxAwake'
  BY <1>1, <1>2 DEF TxInv, TxFlags, TxAwake
<1>11. out < put
  BY <1>2, <1>4
<1> QED BY <1>4, <1>6, <1>7, <1>9, <1>10, <1>11 DEF TxInv

LEMMA TxShiftInv == TxInv /\ Shift => TxInv'
<1> SUFFICES ASSUME TxInv, Shift PROVE TxInv'
  OBVIOUS
<1>1. /\ UNCHANGED <<txRing, put, out>> /\ UDRIE' = UDRIE /\ UDRE' = TRUE
      /\ txPc' = txPc /\ called' = called
  BY DEF Shift
<1>2. TxHolds' /\ TxEmpty' = TxEmpty /\ TxNewSlot' = TxNewSlot
  BY <1>1, TxStill
<1>3. TxFlags' /\ TxAwake'
  BY <1>1, <1>2 DEF TxInv, TxFlags, TxAwake
<1>4. TxNumbers'
  BY <1>1 DEF TxInv, TxNumbers, txRing
<1>5. TxPutting'
  BY <1>1, <1>2 DEF TxInv, TxPutting, txRing
<1> QED BY <1>2, <1>3, <1>4, <1>5 DEF TxInv

LEMMA TxUnchangedInv == TxInv /\ UNCHANGED txVars => TxInv'
<1> SUFFICES ASSUME TxInv, UNCHANGED txVars PROVE TxInv'
  OBVIOUS
<1>1. /\ UNCHANGED <<txRing, put, out>> /\ UDRIE' = UDRIE /\ UDRE' = UDRE
      /\ txPc' = txPc /\ called' = called
  BY DEF txVars
<1>2. TxHolds' /\ TxEmpty' = TxEmpty /\ TxNewSlot' = TxNewSlot
  BY <1>1, TxStill
<1>3. TxFlags' /\ TxAwake'
  BY <1>1, <1>2 DEF TxInv, TxFlags, TxAwake
<1>4. TxNumbers'
  BY <1>1 DEF TxInv, TxNumbers, txRing
<1>5. TxPutting'
  BY <1>1, <1>2 DEF TxInv, TxPutting, txRing
<1> QED BY <1>2, <1>3, <1>4, <1>5 DEF TxInv

LEMMA TxNextInv == TxInv /\ [Next]_vars => TxInv'
<1> SUFFICES ASSUME TxInv, [Next]_vars PROVE TxInv'
  OBVIOUS
<1>1. CASE ReceiveThread \/ RxInterrupt \/ UNCHANGED vars
  BY <1>1, TxUnchangedInv DEF ReceiveThread, RxInterrupt, vars
<1>2. CASE SendThread
  BY <1>2, TxCallInv, TxWaitInv, TxStoreInv, TxAdvanceInv, TxEnableInv
     DEF SendThread, PutChar
<1>3. CASE TxInterrupt
  BY <1>3, TxEmptyInv, TxSendInv, TxShiftInv DEF TxInterrupt, Interrupt
<1> QED BY <1>1, <1>2, <1>3 DEF Next

-----------------------------------------------------------------------------
(* Receive.                                                                *)
RxHeld == Ahead(RX_BUFFER_SIZE, rx_buffer_head, rx_buffer_tail)
RxSlot(j) == Slot(RX_BUFFER_SIZE, rx_buffer_tail, j)

RxNumbers ==
  /\ rx_buffer \in [RxSlots -> 0 .. MaxReceived]
  /\ rx_buffer_head \in RxSlots /\ rx_buffer_tail \in RxSlots /\ head \in RxSlots
  /\ received \in 0 .. MaxReceived /\ dropped \in Nat /\ gotten \in Nat
  /\ got \in 0 .. received
RxTaskNumbers ==
  /\ rxPc \in {"ask", "tail", "decide", "spin", "read", "advance"}
  /\ available \in RxSlots /\ owed \in 0 .. 2 /\ bytesWaiting \in 0 .. MaxPacket

(* What uart_available has counted so far, and the bytes still owed on it, *)
(* are in the ring.                                                        *)
RxEnough ==
  /\ rxPc = "tail" => Ahead(RX_BUFFER_SIZE, head, rx_buffer_tail) <= RxHeld
  /\ rxPc = "decide" => available <= RxHeld
  /\ rxPc \in {"spin", "read", "advance"} => owed >= 1 /\ RxHeld >= owed

(* The byte just read stays in the ring until the tail advances. *)
RxRead == IF rxPc = "advance" THEN 1 ELSE 0
RxAccounted == received = dropped + gotten + RxHeld - RxRead

(* The ring holds bytes in the order of arrival, all later than the last   *)
(* one returned.                                                           *)
RxOrdered ==
  /\ \A j \in 1 .. RxHeld : rx_buffer[RxSlot(j)] <= received
  /\ \A j, k \in 1 .. RxHeld : j < k => rx_buffer[RxSlot(j)] < rx_buffer[RxSlot(k)]
  /\ rxPc = "advance" => rx_buffer[RxSlot(1)] = got
  /\ rxPc # "advance" => \A j \in 1 .. RxHeld : got < rx_buffer[RxSlot(j)]

RxInv == RxNumbers /\ RxTaskNumbers /\ RxEnough /\ RxAccounted /\ RxOrdered

LEMMA RxRing ==
  ASSUME RxNumbers
  PROVE  /\ rx_buffer_head \in 0 .. RX_BUFFER_SIZE - 1
         /\ rx_buffer_tail \in 0 .. RX_BUFFER_SIZE - 1
         /\ RxHeld \in 0 .. RX_BUFFER_SIZE - 1
         /\ (RxHeld = 0 <=> rx_buffer_head = rx_buffer_tail)
         /\ RxAfter(rx_buffer_head) = Slot(RX_BUFFER_SIZE, rx_buffer_head, 1)
         /\ RxAfter(rx_buffer_tail) = RxSlot(1)
         /\ Held = RxHeld
<1>1. /\ rx_buffer_head \in 0 .. RX_BUFFER_SIZE - 1
      /\ rx_buffer_tail \in 0 .. RX_BUFFER_SIZE - 1
  BY DEF RxNumbers, RxSlots
<1>2. RxHeld \in 0 .. RX_BUFFER_SIZE - 1 /\ (RxHeld = 0 <=> rx_buffer_head = rx_buffer_tail)
  BY <1>1, RxBounds, AheadBounds DEF RxHeld
<1>3. /\ RxAfter(rx_buffer_head) = Slot(RX_BUFFER_SIZE, rx_buffer_head, 1)
      /\ RxAfter(rx_buffer_tail) = RxSlot(1)
  BY <1>1, RxBounds DEF RxAfter, RxSlot, Slot
<1>4. Held = RxHeld
  BY DEF Held, Distance, RxHeld, Ahead
<1> QED BY <1>1, <1>2, <1>3, <1>4

(* What the ring holds are numbers of bytes that have arrived. *)
LEMMA RxContents ==
  ASSUME RxNumbers, RxOrdered, NEW j \in 1 .. RxHeld
  PROVE  /\ RxSlot(j) \in RxSlots /\ j \in 0 .. RX_BUFFER_SIZE - 1
         /\ rx_buffer[RxSlot(j)] \in Nat /\ rx_buffer[RxSlot(j)] <= received
<1>1. RxHeld \in 0 .. RX_BUFFER_SIZE - 1 /\ rx_buffer_tail \in 0 .. RX_BUFFER_SIZE - 1
  BY RxRing
<1>2. j \in 0 .. RX_BUFFER_SIZE - 1
  BY <1>1, RxBounds
<1>3. RxSlot(j) \in 0 .. RX_BUFFER_SIZE - 1
  BY <1>1, <1>2, RxBounds, SlotsDistinct DEF RxSlot
<1>4. RxSlot(j) \in RxSlots
  BY <1>3 DEF RxSlots
<1>5. rx_buffer[RxSlot(j)] \in 0 .. MaxReceived
  BY <1>4 DEF RxNumbers
<1>6. rx_buffer[RxSlot(j)] \in Nat
  BY <1>5, RxBounds
<1>7. rx_buffer[RxSlot(j)] <= received
  BY DEF RxOrdered
<1> QED BY <1>2, <1>4, <1>6, <1>7

LEMMA RxInitInv == RxInit => RxInv
<1> SUFFICES ASSUME RxInit PROVE RxInv
  OBVIOUS
<1>1. /\ rx_buffer \in [RxSlots -> 0 .. MaxReceived]
      /\ rx_buffer_head = 0 /\ rx_buffer_tail = 0 /\ head = 0
      /\ received = 0 /\ dropped = 0 /\ got = 0 /\ gotten = 0 /\ rxPc = "ask"
      /\ available = 0 /\ owed = 0 /\ bytesWaiting = 0
  BY RxBounds DEF RxInit
<1>2. RxHeld = 0
  BY <1>1, RxBounds DEF RxHeld, Ahead
<1>3. RxNumbers /\ RxTaskNumbers
  BY <1>1, RxBounds DEF RxNumbers, RxTaskNumbers, RxSlots
<1>4. RxEnough /\ RxAccounted /\ RxOrdered
  BY <1>1, <1>2 DEF RxEnough, RxAccounted, RxRead, RxOrdered
<1> QED BY <1>3, <1>4 DEF RxInv

(* A byte that arrives goes behind the others, or is dropped. *)
LEMMA RxReceiveInv == RxInv /\ ReceiveByte => RxInv'
<1> SUFFICES ASSUME RxInv, ReceiveByte PROVE RxInv'
  OBVIOUS
<1> DEFINE new == Slot(RX_BUFFER_SIZE, rx_buffer_head, 1)
<1>1. /\ received' = received + 1 /\ received < MaxReceived
      /\ rx_buffer_tail' = rx_buffer_tail /\ got' = got /\ gotten' = gotten
      /\ rxPc' = rxPc /\ head' = head /\ available' = available
      /\ owed' = owed /\ bytesWaiting' = bytesWaiting
  BY DEF ReceiveByte, rxTask
<1>2. /\ RxNumbers /\ RxTaskNumbers /\ RxEnough /\ RxAccounted /\ RxOrdered
      /\ rx_buffer_head \in 0 .. RX_BUFFER_SIZE - 1
      /\ rx_buffer_tail \in 0 .. RX_BUFFER_SIZE - 1
      /\ RxHeld \in 0 .. RX_BUFFER_SIZE - 1
      /\ RxAfter(rx_buffer_head) = new
  BY RxRing DEF RxInv
<1>3. RxTaskNumbers'
  BY <1>1, <1>2 DEF RxTaskNumbers
<1>4. RxRead' = RxRead /\ \A j : RxSlot(j)' = RxSlot(j)
  BY <1>1 DEF RxRead, RxSlot
<1>5. CASE new = rx_buffer_tail
  <2>1. /\ rx_buffer' = rx_buffer /\ rx_buffer_head' = rx_buffer_head
        /\ dropped' = dropped + 1
    BY <1>2, <1>5 DEF ReceiveByte
  <2>2. RxHeld' = RxHeld
    BY <2>1, <1>1 DEF RxHeld
  <2>3. RxNumbers'
    BY <2>1, <1>1, <1>2, RxBounds DEF RxNumbers
  <2>4. RxEnough'
    BY <2>2, <1>1, <1>2 DEF RxEnough
  <2>5. RxAccounted'
    BY <2>1, <2>2, <1>1, <1>2, <1>4 DEF RxAccounted, RxNumbers, RxRead
  <2>6. RxOrdered'
    <3>1. ASSUME NEW j \in 1 .. RxHeld' PROVE rx_buffer'[RxSlot(j)'] <= received'
      <4>1. rx_buffer[RxSlot(j)] \in Nat /\ rx_buffer[RxSlot(j)] <= received
        BY <2>2, <1>2, RxContents
      <4>2. received \in Nat
        BY <1>2, RxBounds DEF RxNumbers
      <4>3. rx_buffer'[RxSlot(j)'] = rx_buffer[RxSlot(j)]
        BY <2>1, <1>4
      <4> QED BY <4>1, <4>2, <4>3, <1>1
    <3> QED BY <3>1, <2>1, <2>2, <1>1, <1>2, <1>4 DEF RxOrdered
  <2> QED BY <2>3, <2>4, <2>5, <2>6, <1>3 DEF RxInv
<1>6. CASE new # rx_buffer_tail
  <2>1. /\ rx_buffer' = [rx_buffer EXCEPT ![new] = received + 1]
        /\ rx_buffer_head' = new /\ dropped' = dropped
    BY <1>2, <1>6 DEF ReceiveByte
  <2>2. /\ new \in 0 .. RX_BUFFER_SIZE - 1 /\ RxHeld' = RxHeld + 1
        /\ RxSlot(RxHeld + 1) = new
    BY <2>1, <1>1, <1>2, <1>6, RxBounds, AdvanceHead DEF RxHeld, RxSlot
  <2>3. RxHeld + 1 \in 0 .. RX_BUFFER_SIZE - 1
    BY <2>1, <2>2, <1>1, <1>2, RxBounds, AheadBounds DEF RxHeld
  <2>4. /\ rx_buffer' \in [RxSlots -> 0 .. MaxReceived]
        /\ rx_buffer'[new] = received + 1
        /\ \A s \in RxSlots \ {new} : rx_buffer'[s] = rx_buffer[s]
    <3>1. new \in RxSlots /\ received + 1 \in 0 .. MaxReceived
      BY <2>2, <1>1, <1>2, RxBounds DEF RxSlots, RxNumbers
    <3>2. rx_buffer \in [RxSlots -> 0 .. MaxReceived]
      BY <1>2 DEF RxNumbers
    <3> HIDE DEF RxSlots, new
    <3> QED BY <3>1, <3>2, <2>1
  <2>5. ASSUME NEW j \in 1 .. RxHeld
        PROVE  /\ rx_buffer'[RxSlot(j)'] = rx_buffer[RxSlot(j)]
               /\ rx_buffer[RxSlot(j)] \in Nat /\ rx_buffer[RxSlot(j)] <= received
    <3>1. /\ j \in 0 .. RX_BUFFER_SIZE - 1 /\ RxHeld + 1 \in 0 .. RX_BUFFER_SIZE - 1
          /\ j # RxHeld + 1
      BY <2>3, <1>2, RxBounds
    <3>2. RxSlot(j) # RxSlot(RxHeld + 1) /\ RxSlot(j) \in RxSlots
      BY <3>1, <1>2, RxBounds, SlotsDistinct DEF RxSlot, RxSlots
    <3>3. rx_buffer[RxSlot(j)] \in Nat /\ rx_buffer[RxSlot(j)] <= received
      BY <1>2, RxContents
    <3> QED BY <3>2, <3>3, <2>2, <2>4, <1>4
  <2>6. ASSUME NEW j, j = RxHeld + 1
        PROVE  rx_buffer'[RxSlot(j)'] = received + 1
    BY <2>2, <2>4, <2>6, <1>4
  <2>7. RxNumbers'
    <3>1. /\ rx_buffer_head' \in RxSlots /\ received' \in 0 .. MaxReceived
          /\ got' \in 0 .. received'
      BY <2>1, <2>2, <1>1, <1>2, RxBounds DEF RxNumbers, RxSlots
    <3> QED BY <3>1, <2>1, <2>4, <1>1, <1>2 DEF RxNumbers
  <2>8. RxEnough'
    <3>1. /\ RxHeld <= RxHeld' /\ RxHeld \in Nat /\ RxHeld' \in Nat
      BY <2>2, <1>2
    <3>2. Ahead(RX_BUFFER_SIZE, head, rx_buffer_tail) \in Nat
      <4>1. head \in 0 .. RX_BUFFER_SIZE - 1
        BY <1>2 DEF RxNumbers, RxSlots
      <4>2. Ahead(RX_BUFFER_SIZE, head, rx_buffer_tail) \in 0 .. RX_BUFFER_SIZE - 1
        BY <4>1, <1>2, RxBounds, AheadBounds
      <4> QED BY <4>2, RxBounds
    <3>3. available \in Nat /\ owed \in Nat
      BY <1>2, RxBounds DEF RxTaskNumbers, RxSlots
    <3>4. rxPc' = "tail" => Ahead(RX_BUFFER_SIZE, head', rx_buffer_tail') <= RxHeld'
      BY <3>1, <3>2, <1>1, <1>2 DEF RxEnough
    <3>5. rxPc' = "decide" => available' <= RxHeld'
      BY <3>1, <3>3, <1>1, <1>2 DEF RxEnough
    <3>6. rxPc' \in {"spin", "read", "advance"} => owed' >= 1 /\ RxHeld' >= owed'
      BY <3>1, <3>3, <1>1, <1>2 DEF RxEnough
    <3> QED BY <3>4, <3>5, <3>6 DEF RxEnough
  <2>9. RxAccounted'
    BY <2>1, <2>2, <1>1, <1>2, <1>4 DEF RxAccounted, RxNumbers, RxRead
  <2>10. RxOrdered'
    <3>1. \A j \in 1 .. RxHeld' : j \in 1 .. RxHeld \/ j = RxHeld + 1
      BY <2>2, <1>2
    <3>2. received \in Nat /\ got \in Nat /\ got <= received
      BY <1>2, RxBounds DEF RxNumbers
    <3>3. ASSUME NEW j \in 1 .. RxHeld' PROVE rx_buffer'[RxSlot(j)'] <= received'
      <4>1. CASE j \in 1 .. RxHeld  BY <4>1, <2>5, <3>2, <1>1
      <4>2. CASE j = RxHeld + 1     BY <4>2, <2>6, <3>2, <1>1
      <4> QED BY <3>1, <4>1, <4>2
    <3>4. ASSUME NEW j \in 1 .. RxHeld', NEW k \in 1 .. RxHeld', j < k
          PROVE  rx_buffer'[RxSlot(j)'] < rx_buffer'[RxSlot(k)']
      <4>1. j \in 1 .. RxHeld
        BY <3>1, <3>4, <2>2, <1>2
      <4>2. CASE k \in 1 .. RxHeld  BY <4>1, <4>2, <3>4, <2>5, <1>2 DEF RxOrdered
      <4>3. CASE k = RxHeld + 1     BY <4>1, <4>3, <2>5, <2>6, <3>2
      <4> QED BY <3>1, <4>2, <4>3
    <3>5. ASSUME rxPc' = "advance" PROVE rx_buffer'[RxSlot(1)'] = got'
      <4>1. 1 \in 1 .. RxHeld  BY <3>5, <1>1, <1>2 DEF RxEnough, RxTaskNumbers
      <4> QED BY <4>1, <3>5, <2>5, <1>1, <1>2 DEF RxOrdered
    <3>6. ASSUME rxPc' # "advance", NEW j \in 1 .. RxHeld'
          PROVE  got' < rx_buffer'[RxSlot(j)']
      <4>1. CASE j \in 1 .. RxHeld  BY <4>1, <3>6, <2>5, <1>1, <1>2 DEF RxOrdered
      <4>2. CASE j = RxHeld + 1     BY <4>2, <2>6, <3>2, <1>1
      <4> QED BY <3>1, <4>1, <4>2
    <3> QED BY <3>3, <3>4, <3>5, <3>6 DEF RxOrdered
  <2> QED BY <2>7, <2>8, <2>9, <2>10, <1>3 DEF RxInv
<1> QED BY <1>5, <1>6

(* The steps that leave the ring and what is known of its bytes alone.     *)
LEMMA RxStillInv ==
  ASSUME RxInv, UNCHANGED rxRing, UNCHANGED <<received, dropped, got, gotten>>,
         rxPc # "advance", rxPc' # "advance", head' \in RxSlots, RxTaskNumbers'
  PROVE  RxHeld' = RxHeld /\ (RxEnough' => RxInv')
<1>1. /\ rx_buffer' = rx_buffer /\ rx_buffer_head' = rx_buffer_head
      /\ rx_buffer_tail' = rx_buffer_tail /\ received' = received
      /\ dropped' = dropped /\ got' = got /\ gotten' = gotten
  BY DEF rxRing
<1>2. RxNumbers /\ RxAccounted /\ RxOrdered
  BY DEF RxInv
<1>3. RxHeld' = RxHeld /\ RxRead' = RxRead
  BY <1>1 DEF RxHeld, RxRead
<1>4. \A j : RxSlot(j)' = RxSlot(j)
  BY <1>1 DEF RxSlot
<1>5. RxNumbers'
  BY <1>1, <1>2 DEF RxNumbers
<1>6. RxAccounted'
  BY <1>1, <1>2, <1>3 DEF RxAccounted
<1>7. RxOrdered'
  <2>1. \A j \in 1 .. RxHeld' : rx_buffer'[RxSlot(j)'] <= received'
    BY <1>1, <1>2, <1>3, <1>4 DEF RxOrdered
  <2>2. \A j, k \in 1 .. RxHeld' : j < k => rx_buffer'[RxSlot(j)'] < rx_buffer'[RxSlot(k)']
    BY <1>1, <1>2, <1>3, <1>4 DEF RxOrdered
  <2>3. \A j \in 1 .. RxHeld' : got' < rx_buffer'[RxSlot(j)']
    BY <1>1, <1>2, <1>3, <1>4 DEF RxOrdered
  <2> QED BY <2>1, <2>2, <2>3 DEF RxOrdered
<1> QED BY <1>3, <1>5, <1>6, <1>7 DEF RxInv

(* uart_available's two reads: the ring may grow between them, never       *)
(* shrink, so the count is never too high.                                 *)
LEMMA RxReadHeadInv == RxInv /\ ReadHead => RxInv'
<1> SUFFICES ASSUME RxInv, ReadHead PROVE RxInv'
  OBVIOUS
<1>1. /\ rxPc = "ask" /\ rxPc' = "tail" /\ head' = rx_buffer_head
      /\ available' = available /\ owed' = owed /\ bytesWaiting' = bytesWaiting
      /\ UNCHANGED rxRing /\ UNCHANGED <<received, dropped, got, gotten>>
  BY DEF ReadHead
<1>2. RxNumbers /\ RxTaskNumbers
  BY DEF RxInv
<1>3. RxTaskNumbers' /\ head' \in RxSlots
  BY <1>1, <1>2 DEF RxTaskNumbers, RxNumbers
<1>4. RxHeld' = RxHeld /\ (RxEnough' => RxInv')
  BY <1>1, <1>3, RxStillInv
<1>5. Ahead(RX_BUFFER_SIZE, head', rx_buffer_tail') = RxHeld
  BY <1>1 DEF RxHeld, rxRing
<1>6. RxHeld <= RxHeld
  BY <1>2, RxRing, RxBounds
<1>7. RxEnough'
  BY <1>1, <1>4, <1>5, <1>6 DEF RxEnough
<1> QED BY <1>4, <1>7

LEMMA RxReadTailInv == RxInv /\ ReadTail => RxInv'
<1> SUFFICES ASSUME RxInv, ReadTail PROVE RxInv'
  OBVIOUS
<1>1. /\ rxPc = "tail" /\ rxPc' = "decide" /\ head' = head
      /\ available' = Ahead(RX_BUFFER_SIZE, head, rx_buffer_tail)
      /\ owed' = owed /\ bytesWaiting' = bytesWaiting
      /\ UNCHANGED rxRing /\ UNCHANGED <<received, dropped, got, gotten>>
  BY DEF ReadTail, Distance, Ahead
<1>2. RxNumbers /\ RxTaskNumbers /\ RxEnough
  BY DEF RxInv
<1>3. available' \in RxSlots
  <2>1. head \in 0 .. RX_BUFFER_SIZE - 1 /\ rx_buffer_tail \in 0 .. RX_BUFFER_SIZE - 1
    BY <1>2 DEF RxNumbers, RxSlots
  <2> QED BY <2>1, <1>1, RxBounds, AheadBounds DEF RxSlots
<1>4. RxTaskNumbers' /\ head' \in RxSlots
  BY <1>1, <1>2, <1>3 DEF RxTaskNumbers, RxNumbers
<1>5. RxHeld' = RxHeld /\ (RxEnough' => RxInv')
  BY <1>1, <1>4, RxStillInv
<1>6. RxEnough'
  BY <1>1, <1>2, <1>5 DEF RxEnough
<1> QED BY <1>5, <1>6

LEMMA RxDecideInv == RxInv /\ Decide => RxInv'
<1> SUFFICES ASSUME RxInv, Decide PROVE RxInv'
  OBVIOUS
<1>1. /\ rxPc = "decide" /\ head' = head /\ available' = available
      /\ bytesWaiting' = bytesWaiting
      /\ UNCHANGED rxRing /\ UNCHANGED <<received, dropped, got, gotten>>
  BY DEF Decide
<1>2. RxNumbers /\ RxTaskNumbers /\ RxEnough
  BY DEF RxInv
<1>3. \/ rxPc' = "ask" /\ owed' = owed
      \/ rxPc' = "spin" /\ owed' = 2 /\ available >= 2
      \/ rxPc' = "spin" /\ owed' = 1 /\ available > 0
  BY DEF Decide
<1>4. RxTaskNumbers' /\ head' \in RxSlots /\ rxPc' # "advance"
  BY <1>1, <1>2, <1>3 DEF RxTaskNumbers, RxNumbers
<1>5. RxHeld' = RxHeld /\ (RxEnough' => RxInv')
  BY <1>1, <1>4, RxStillInv
<1>6. RxHeld \in Nat /\ available \in Nat /\ available <= RxHeld
  BY <1>1, <1>2, RxRing, RxBounds DEF RxEnough, RxTaskNumbers, RxSlots
<1>7. RxEnough'
  BY <1>3, <1>5, <1>6 DEF RxEnough
<1> QED BY <1>5, <1>7

(* uart_getchar *)
LEMMA RxSpinInv == RxInv /\ Spin => RxInv'
<1> SUFFICES ASSUME RxInv, Spin PROVE RxInv'
  OBVIOUS
<1>1. /\ rxPc = "spin" /\ rxPc' = "read" /\ head' = head
      /\ available' = available /\ owed' = owed /\ bytesWaiting' = bytesWaiting
      /\ UNCHANGED rxRing /\ UNCHANGED <<received, dropped, got, gotten>>
  BY DEF Spin
<1>2. RxNumbers /\ RxTaskNumbers /\ RxEnough
  BY DEF RxInv
<1>3. RxTaskNumbers' /\ head' \in RxSlots
  BY <1>1, <1>2 DEF RxTaskNumbers, RxNumbers
<1>4. RxHeld' = RxHeld /\ (RxEnough' => RxInv')
  BY <1>1, <1>3, RxStillInv
<1>5. RxEnough'
  BY <1>1, <1>2, <1>4 DEF RxEnough
<1> QED BY <1>4, <1>5

LEMMA RxReadByteInv == RxInv /\ ReadByte => RxInv' /\ got' > got
<1> SUFFICES ASSUME RxInv, ReadByte PROVE RxInv' /\ got' > got
  OBVIOUS
<1>1. /\ rxPc = "read" /\ rxPc' = "advance" /\ gotten' = gotten + 1
      /\ got' = rx_buffer[RxAfter(rx_buffer_tail)]
      /\ rx_buffer' = rx_buffer /\ rx_buffer_head' = rx_buffer_head
      /\ rx_buffer_tail' = rx_buffer_tail /\ received' = received
      /\ dropped' = dropped /\ head' = head /\ available' = available
      /\ owed' = owed /\ bytesWaiting' = bytesWaiting
  BY DEF ReadByte, rxRing
<1>2. RxNumbers /\ RxTaskNumbers /\ RxEnough /\ RxAccounted /\ RxOrdered
  BY DEF RxInv
<1>3. /\ RxHeld \in Nat /\ 1 \in 1 .. RxHeld /\ got' = rx_buffer[RxSlot(1)]
  BY <1>1, <1>2, RxRing, RxBounds DEF RxEnough, RxTaskNumbers
<1>4. got' \in Nat /\ got' <= received /\ got < got' /\ got \in Nat
  <2>1. got' \in Nat /\ got' <= received
    BY <1>2, <1>3, RxContents
  <2>2. got < got'
    BY <1>1, <1>2, <1>3 DEF RxOrdered
  <2>3. got \in Nat
    BY <1>2, RxBounds DEF RxNumbers
  <2> QED BY <2>1, <2>2, <2>3
<1>5. RxHeld' = RxHeld
  BY <1>1 DEF RxHeld
<1>6. \A j : RxSlot(j)' = RxSlot(j)
  BY <1>1 DEF RxSlot
<1>7. RxNumbers'
  <2>1. got' \in 0 .. received' /\ gotten' \in Nat
    BY <1>1, <1>2, <1>4, RxBounds DEF RxNumbers
  <2> QED BY <2>1, <1>1, <1>2 DEF RxNumbers
<1>8. RxTaskNumbers'
  BY <1>1, <1>2 DEF RxTaskNumbers
<1>9. RxEnough'
  BY <1>1, <1>2, <1>5 DEF RxEnough
<1>10. RxAccounted'
  <2>1. RxRead = 0 /\ RxRead' = 1
    BY <1>1 DEF RxRead
  <2>2. /\ received \in Nat /\ dropped \in Nat /\ gotten \in Nat
        /\ received = dropped + gotten + RxHeld - RxRead
    BY <1>2, RxBounds DEF RxNumbers, RxAccounted
  <2>3. received' = dropped' + gotten' + RxHeld' - RxRead'
    BY <2>1, <2>2, <1>1, <1>3, <1>5
  <2> QED BY <2>3 DEF RxAccounted
<1>11. RxOrdered'
  <2>1. \A j \in 1 .. RxHeld' : rx_buffer'[RxSlot(j)'] <= received'
    BY <1>1, <1>2, <1>5, <1>6 DEF RxOrdered
  <2>2. \A j, k \in 1 .. RxHeld' : j < k => rx_buffer'[RxSlot(j)'] < rx_buffer'[RxSlot(k)']
    BY <1>1, <1>2, <1>5, <1>6 DEF RxOrdered
  <2>3. rx_buffer'[RxSlot(1)'] = got'
    BY <1>1, <1>3, <1>6
  <2> QED BY <2>1, <2>2, <2>3, <1>1 DEF RxOrdered
<1> QED BY <1>4, <1>7, <1>8, <1>9, <1>10, <1>11 DEF RxInv

LEMMA RxAdvanceInv == RxInv /\ AdvanceTail => RxInv'
<1> SUFFICES ASSUME RxInv, AdvanceTail PROVE RxInv'
  OBVIOUS
<1>1. /\ rxPc = "advance" /\ rx_buffer_tail' = RxAfter(rx_buffer_tail)
      /\ owed' = owed - 1 /\ rxPc' = IF owed = 1 THEN "ask" ELSE "spin"
      /\ rx_buffer' = rx_buffer /\ rx_buffer_head' = rx_buffer_head
      /\ received' = received /\ dropped' = dropped /\ got' = got
      /\ gotten' = gotten /\ head' = head /\ available' = available
  BY DEF AdvanceTail
<1>2. /\ RxNumbers /\ RxTaskNumbers /\ RxEnough /\ RxAccounted /\ RxOrdered
      /\ rx_buffer_head \in 0 .. RX_BUFFER_SIZE - 1
      /\ rx_buffer_tail \in 0 .. RX_BUFFER_SIZE - 1
      /\ RxHeld \in 0 .. RX_BUFFER_SIZE - 1
      /\ (RxHeld = 0 <=> rx_buffer_head = rx_buffer_tail)
      /\ rx_buffer_tail' = RxSlot(1)
  BY <1>1, RxRing DEF RxInv
<1>3. owed \in 0 .. 2 /\ owed >= 1 /\ RxHeld >= owed /\ RxHeld \in Nat
  BY <1>1, <1>2, RxBounds DEF RxEnough, RxTaskNumbers
<1>4. rx_buffer_head # rx_buffer_tail
  BY <1>2, <1>3
<1>5. /\ rx_buffer_tail' \in 0 .. RX_BUFFER_SIZE - 1 /\ RxHeld' = RxHeld - 1
      /\ \A j \in Nat : j < RX_BUFFER_SIZE - 1 => RxSlot(j)' = RxSlot(j + 1)
  <2>1. /\ Slot(RX_BUFFER_SIZE, rx_buffer_tail, 1) \in 0 .. RX_BUFFER_SIZE - 1
        /\ Ahead(RX_BUFFER_SIZE, rx_buffer_head, Slot(RX_BUFFER_SIZE, rx_buffer_tail, 1))
              = Ahead(RX_BUFFER_SIZE, rx_buffer_head, rx_buffer_tail) - 1
        /\ \A j \in Nat : j < RX_BUFFER_SIZE =>
              \/ Slot(RX_BUFFER_SIZE, Slot(RX_BUFFER_SIZE, rx_buffer_tail, 1), j)
                    = Slot(RX_BUFFER_SIZE, rx_buffer_tail, j + 1)
              \/ j = RX_BUFFER_SIZE - 1
    BY <1>2, <1>4, RxBounds, AdvanceTailOf
  <2>2. /\ rx_buffer_tail' = Slot(RX_BUFFER_SIZE, rx_buffer_tail, 1)
        /\ rx_buffer_head' = rx_buffer_head
    BY <1>1, <1>2 DEF RxSlot
  <2>3. ASSUME NEW j \in Nat, j < RX_BUFFER_SIZE - 1 PROVE RxSlot(j)' = RxSlot(j + 1)
    <3>1. j < RX_BUFFER_SIZE /\ j # RX_BUFFER_SIZE - 1
      BY <2>3, RxBounds
    <3> QED BY <2>1, <2>2, <3>1 DEF RxSlot
  <2> QED BY <2>1, <2>2, <2>3 DEF RxHeld
<1>6. ASSUME NEW j \in 1 .. RxHeld'
      PROVE  /\ j \in Nat /\ j + 1 \in 1 .. RxHeld /\ RxSlot(j)' = RxSlot(j + 1)
             /\ 1 < j + 1 /\ 1 \in 1 .. RxHeld
  <2>1. /\ j \in Nat /\ j + 1 \in 1 .. RxHeld /\ j < RX_BUFFER_SIZE - 1
        /\ 1 < j + 1 /\ 1 \in 1 .. RxHeld
    BY <1>2, <1>3, <1>5, RxBounds
  <2> QED BY <2>1, <1>5
<1>7. RxNumbers'
  BY <1>1, <1>2, <1>5 DEF RxNumbers, RxSlots
<1>8. RxTaskNumbers'
  <2>1. bytesWaiting' \in 0 .. MaxPacket
    <3>1. bytesWaiting \in 0 .. MaxPacket
      BY <1>2 DEF RxTaskNumbers
    <3>2. \/ bytesWaiting > 0 /\ bytesWaiting' = bytesWaiting - 1
          \/ bytesWaiting' \in 0 .. MaxPacket \/ bytesWaiting' = 0
      BY DEF AdvanceTail
    <3> QED BY <3>1, <3>2, RxBounds
  <2>2. owed' \in 0 .. 2
    BY <1>1, <1>3
  <2> QED BY <2>1, <2>2, <1>1, <1>2 DEF RxTaskNumbers
<1>9. RxEnough'
  <2>1. CASE owed = 1
    BY <2>1, <1>1 DEF RxEnough
  <2>2. CASE owed # 1
    <3>1. owed' >= 1 /\ RxHeld' >= owed'
      BY <2>2, <1>1, <1>3, <1>5
    <3> QED BY <3>1, <2>2, <1>1 DEF RxEnough
  <2> QED BY <2>1, <2>2
<1>10. RxAccounted'
  <2>1. RxRead = 1 /\ RxRead' = 0
    BY <1>1 DEF RxRead
  <2>2. /\ received \in Nat /\ dropped \in Nat /\ gotten \in Nat
        /\ received = dropped + gotten + RxHeld - RxRead
    BY <1>2, RxBounds DEF RxNumbers, RxAccounted
  <2>3. received' = dropped' + gotten' + RxHeld' - RxRead'
    BY <2>1, <2>2, <1>1, <1>3, <1>5
  <2> QED BY <2>3 DEF RxAccounted
<1>11. RxOrdered'
  <2>1. ASSUME NEW j \in 1 .. RxHeld' PROVE rx_buffer'[RxSlot(j)'] <= received'
    BY <1>1, <1>2, <1>6 DEF RxOrdered
  <2>2. ASSUME NEW j \in 1 .. RxHeld', NEW k \in 1 .. RxHeld', j < k
        PROVE  rx_buffer'[RxSlot(j)'] < rx_buffer'[RxSlot(k)']
    <3>1. /\ j + 1 \in 1 .. RxHeld /\ k + 1 \in 1 .. RxHeld /\ j + 1 < k + 1
          /\ RxSlot(j)' = RxSlot(j + 1) /\ RxSlot(k)' = RxSlot(k + 1)
      <4>1. j \in Nat /\ k \in Nat
        BY <1>6
      <4> QED BY <4>1, <2>2, <1>6
    <3>2. rx_buffer[RxSlot(j + 1)] < rx_buffer[RxSlot(k + 1)]
      BY <3>1, <1>2 DEF RxOrdered
    <3> QED BY <3>1, <3>2, <1>1
  <2>3. ASSUME NEW j \in 1 .. RxHeld' PROVE got' < rx_buffer'[RxSlot(j)']
    <3>1. rx_buffer[RxSlot(1)] < rx_buffer[RxSlot(j + 1)]
      BY <1>6, <1>2 DEF RxOrdered
    <3>2. rx_buffer[RxSlot(1)] = got
      BY <1>1, <1>2 DEF RxOrdered
    <3> QED BY <3>1, <3>2, <1>1, <1>6
  <2>4. rxPc' # "advance"
    BY <1>1
  <2> QED BY <2>1, <2>2, <2>3, <2>4 DEF RxOrdered
<1> QED BY <1>7, <1>8, <1>9, <1>10, <1>11 DEF RxInv

LEMMA RxUnchangedInv == RxInv /\ UNCHANGED rxVars => RxInv'
<1> SUFFICES ASSUME RxInv, UNCHANGED rxVars PROVE RxInv'
  OBVIOUS
<1>1. /\ rx_buffer' = rx_buffer /\ rx_buffer_head' = rx_buffer_head
      /\ rx_buffer_tail' = rx_buffer_tail /\ received' = received
      /\ dropped' = dropped /\ got' = got /\ gotten' = gotten /\ rxPc' = rxPc
      /\ head' = head /\ available' = available /\ owed' = owed
      /\ bytesWaiting' = bytesWaiting
  BY DEF rxVars, rxRing, rxTask
<1>2. RxHeld' = RxHeld /\ RxRead' = RxRead /\ \A j : RxSlot(j)' = RxSlot(j)
  BY <1>1 DEF RxHeld, RxRead, RxSlot
<1>3. RxNumbers' /\ RxTaskNumbers'
  BY <1>1 DEF RxInv, RxNumbers, RxTaskNumbers
<1>4. RxEnough' /\ RxAccounted'
  BY <1>1, <1>2 DEF RxInv, RxEnough, RxAccounted
<1>5. RxOrdered'
  BY <1>1, <1>2 DEF RxInv, RxOrdered
<1> QED BY <1>3, <1>4, <1>5 DEF RxInv

LEMMA RxNextInv ==
  RxInv /\ [Next]_vars => RxInv' /\ (gotten' # gotten => got' > got)
<1> SUFFICES ASSUME RxInv, [Next]_vars
             PROVE  RxInv' /\ (gotten' # gotten => got' > got)
  OBVIOUS
<1>1. CASE UNCHANGED rxVars
  BY <1>1, RxUnchangedInv DEF rxVars
<1>2. CASE ReceiveByte
  BY <1>2, RxReceiveInv DEF ReceiveByte
<1>3. CASE ReadHead   BY <1>3, RxReadHeadInv DEF ReadHead
<1>4. CASE ReadTail   BY <1>4, RxReadTailInv DEF ReadTail
<1>5. CASE Decide     BY <1>5, RxDecideInv DEF Decide
<1>6. CASE Spin       BY <1>6, RxSpinInv DEF Spin
<1>7. CASE ReadByte   BY <1>7, RxReadByteInv
<1>8. CASE AdvanceTail  BY <1>8, RxAdvanceInv DEF AdvanceTail
<1>9. \/ UNCHANGED rxVars \/ ReceiveByte \/ RxTask
  BY DEF Next, vars, ReceiveThread, SendThread, RxInterrupt, TxInterrupt
<1> QED BY <1>1, <1>2, <1>3, <1>4, <1>5, <1>6, <1>7, <1>8, <1>9 DEF RxTask

-----------------------------------------------------------------------------
(* The theorems.                                                           *)
Inv == TxInv /\ RxInv

LEMMA Invariant == Spec => []Inv
<1>1. Init => Inv
  BY TxInitInv, RxInitInv DEF Init, Inv
<1>2. Inv /\ [Next]_vars => Inv'
  BY TxNextInv, RxNextInv DEF Inv
<1> QED BY <1>1, <1>2, PTL DEF Spec

LEMMA RxGuarantees == RxInv => RxTypeOK /\ GetCharNeverSpins /\ Accounted
<1> SUFFICES ASSUME RxInv PROVE RxTypeOK /\ GetCharNeverSpins /\ Accounted
  OBVIOUS
<1>1. RxNumbers /\ RxTaskNumbers /\ RxEnough /\ RxAccounted
  BY DEF RxInv
<1>2. RxHeld \in Nat /\ Held = RxHeld
  BY <1>1, RxRing, RxBounds
<1>3. GetCharNeverSpins
  BY <1>1, <1>2 DEF GetCharNeverSpins, RxEnough
<1>4. Accounted
  BY <1>1, <1>2 DEF Accounted, RxAccounted, RxRead
<1>5. dropped \in 0 .. received /\ gotten \in 0 .. received
  <2>1. RxRead \in Nat /\ RxRead <= RxHeld
    <3>1. CASE rxPc = "advance"
      BY <3>1, <1>1, <1>2 DEF RxRead, RxEnough, RxTaskNumbers
    <3>2. CASE rxPc # "advance"
      BY <3>2, <1>2 DEF RxRead
    <3> QED BY <3>1, <3>2
  <2>2. /\ received \in Nat /\ dropped \in Nat /\ gotten \in Nat
        /\ received = dropped + gotten + RxHeld - RxRead
    BY <1>1, RxBounds DEF RxNumbers, RxAccounted
  <2> QED BY <2>1, <2>2, <1>2
<1>6. RxTypeOK
  BY <1>1, <1>5 DEF RxTypeOK, RxNumbers, RxTaskNumbers
<1> QED BY <1>3, <1>4, <1>6

LEMMA TxTypeCorrect == TxInv => TxTypeOK
BY DEF TxInv, TxNumbers, TxFlags, TxTypeOK

(* Every step of the code is a step of the queue, or none. *)
LEMMA QueueStep == TxInv /\ [Next]_vars => [Queue!Next]_<<put, out>>
<1> SUFFICES ASSUME TxInv, [Next]_vars PROVE [Queue!Next]_<<put, out>>
  OBVIOUS
<1>1. TxNumbers /\ TxHolds /\ TxPutting
  BY DEF TxInv
<1>2. CASE Advance
  <2>1. put' = called /\ out' = out /\ txPc = "advance"
    BY <1>2 DEF Advance
  <2>2. called = put + 1 /\ TxNewSlot # tx_buffer_tail /\ put = out + TxUsed
    BY <2>1, <1>1 DEF TxPutting, TxHolds
  <2>3. /\ tx_buffer_head \in 0 .. TX_BUFFER_SIZE - 1
        /\ tx_buffer_tail \in 0 .. TX_BUFFER_SIZE - 1
        /\ TxUsed \in 0 .. TX_BUFFER_SIZE - 1
    BY <1>1, TxRing
  <2>4. /\ TxNewSlot \in 0 .. TX_BUFFER_SIZE - 1
        /\ Ahead(TX_BUFFER_SIZE, TxNewSlot, tx_buffer_tail) = TxUsed + 1
    BY <2>2, <2>3, TxBounds, AdvanceHead DEF TxNewSlot, TxUsed
  <2>5. TxUsed + 1 \in 0 .. TX_BUFFER_SIZE - 1
    BY <2>3, <2>4, TxBounds, AheadBounds
  <2>6. /\ put < MaxSent /\ put - out < TX_BUFFER_SIZE - 1
        /\ put' = put + 1
    <3>1. put \in Nat /\ out \in Nat /\ called \in 0 .. MaxSent
      BY <1>1, TxBounds DEF TxNumbers
    <3> QED BY <3>1, <2>1, <2>2, <2>3, <2>5, TxBounds
  <2> QED BY <2>1, <2>6 DEF Queue!Next, Queue!Put
<1>3. CASE SendByte
  <2>1. out' = out + 1 /\ out < put
    BY <1>3, TxSendInv
  <2>2. put' = put
    BY <1>3 DEF SendByte
  <2> QED BY <2>1, <2>2 DEF Queue!Next, Queue!Take
<1>4. CASE ~Advance /\ ~SendByte
  <2>1. put' = put /\ out' = out
    BY <1>4 DEF Next, vars, txVars, ReceiveThread, SendThread, RxInterrupt,
       TxInterrupt, CallPutChar, PutChar, WaitForSpace, Store, Enable, Interrupt,
       Empty, Shift
  <2> QED BY <2>1
<1> QED BY <1>2, <1>3, <1>4

(* TypeOK: indices stay in the rings and counters in their ranges, for     *)
(* every size of uart.c's rings.                                           *)
THEOREM TypeCorrect == Spec => []TypeOK
<1>1. Inv => TypeOK
  BY TxTypeCorrect, RxGuarantees DEF Inv, TypeOK
<1> QED BY <1>1, Invariant, PTL

(* NoStrandedByte: the interrupt that disables itself on an empty ring     *)
(* never leaves a byte of a finished uart_putchar behind disabled.         *)
THEOREM NoLostWakeup == Spec => []NoStrandedByte
<1>1. Inv => NoStrandedByte
  BY DEF Inv, TxInv, TxAwake, TxEmpty, NoStrandedByte
<1> QED BY <1>1, Invariant, PTL

(* GetCharNeverSpins: uart_available never promises bytes uart_getchar     *)
(* would have to wait for.                                                 *)
THEOREM GetCharReturns == Spec => []GetCharNeverSpins
<1>1. Inv => GetCharNeverSpins
  BY RxGuarantees DEF Inv
<1> QED BY <1>1, Invariant, PTL

(* Accounted: a byte the receive interrupt ran for is returned, dropped or *)
(* still held.                                                             *)
THEOREM AllAccounted == Spec => []Accounted
<1>1. Inv => Accounted
  BY RxGuarantees DEF Inv
<1> QED BY <1>1, Invariant, PTL

(* InOrder: uart_getchar returns bytes in the order they arrived in.       *)
THEOREM BytesInOrder == Spec => InOrder
<1>1. Inv /\ [Next]_vars => [gotten' # gotten => got' > got]_vars
  BY RxNextInv DEF Inv
<1> QED BY <1>1, Invariant, PTL DEF Spec, InOrder

(* The transmit ring implements the bounded FIFO of ByteQueue, its         *)
(* liveness aside.                                                         *)
THEOREM QueueImplemented == Spec => Queue!Init /\ [][Queue!Next]_<<put, out>>
<1>1. Init => Queue!Init
  BY DEF Init, TxInit, Queue!Init
<1>2. Inv /\ [Next]_vars => [Queue!Next]_<<put, out>>
  BY QueueStep DEF Inv
<1> QED BY <1>1, <1>2, Invariant, PTL DEF Spec
=============================================================================
