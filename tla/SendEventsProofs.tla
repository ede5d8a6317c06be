--------------------------- MODULE SendEventsProofs ---------------------------
(***************************************************************************)
(* Proofs about SendEvents for every length of packets, size of the ring   *)
(* and width of the counters: the bytes on the wire are whole packets, in  *)
(* order, unless an event came in the middle of main's send.               *)
(***************************************************************************)
EXTENDS SendEvents, SequenceTheorems, TLAPS

(* The bytes the ring holds, and where the k-th of them is. *)
Held == IF tx_buffer_head >= tx_buffer_tail THEN tx_buffer_head - tx_buffer_tail
        ELSE TX_BUFFER_SIZE + tx_buffer_head - tx_buffer_tail
Slot(k) == IF tx_buffer_tail + k >= TX_BUFFER_SIZE THEN tx_buffer_tail + k - TX_BUFFER_SIZE
           ELSE tx_buffer_tail + k

(* All bytes put so far: those on the wire, and behind them the ring's. *)
Stream == [k \in 1 .. Len(wire) + Held |->
             IF k <= Len(wire) THEN wire[k] ELSE tx_buffer[Slot(k - Len(wire))]]

(* A stream of bytes as WirePackets wants it. *)
Closes(b)   == b.at = LengthOf(b.of) - 1
StartsOf(s) == {k \in 1 .. Len(s) : k = 1 \/ Closes(s[k - 1])}
Begun(s)    == {s[k].of : k \in StartsOf(s)}
Framed(s)   == \A k \in 1 .. Len(s) :
                 IF k \in StartsOf(s) THEN s[k].at = 0 /\ s[k].of > 0
                 ELSE s[k].of = s[k - 1].of /\ s[k].at = s[k - 1].at + 1
Once(s)     == \A k, l \in StartsOf(s) : k < l => s[k].of # s[l].of
Ordered(s)  == \A l \in StartsOf(s) : s[l].of \in 2 .. MaxPackets =>
                 \E m \in StartsOf(s) : m < l /\ s[m].of = s[l].of - 1
AtEnd(s)    == s = <<>> \/ Closes(s[Len(s)])
Good(s)     == Framed(s) /\ Once(s) /\ Ordered(s)

(* The packet being put, and how many of its bytes are still to be. *)
Current == IF isr = "send" THEN Event(events) ELSE packets
ToPut == IF isr # "off" \/ pc \in {"check", "load", "wait", "store"} THEN bytesLeftToSend
         ELSE CASE pc = "fill" -> 0
                [] pc \in {"start", "restart"} -> PacketBytes
                [] pc = "count" -> bytesLeftToSend - 1
Size == LengthOf(Current)

(* Main, and the handler, are where their counters say; an event comes     *)
(* only between main's packets, or between two bytes of one.               *)
Sending ==
  /\ ToPut \in 0 .. Size
  /\ isr # "off" => pc \in {"fill", "check"} /\ events > 0
  /\ isr = "drain" /\ pc = "fill" => bytesLeftToSend = 0
  /\ isr = "off" /\ pc = "fill" => bytesLeftToSend = 0
  /\ pc = "restart" => bytesLeftToSend = PacketBytes
  /\ pc \in {"load", "wait", "store", "count"} => bytesLeftToSend > 0
  /\ ToPut > 0 => Current > 0

(* What is put next is the next byte of the packet. *)
Loaded ==
  /\ ToPut > 0 => \A k \in 0 .. Size - 1 : transmitBuffer[k] = [of |-> Current, at |-> k]
  /\ ToPut > 0 /\ (isr # "off" \/ pc \in {"check", "load"})
       => bytesSentSoFar = Size - ToPut
  /\ pc \in {"wait", "store"} => /\ c = [of |-> Current, at |-> Size - ToPut]
                                 /\ i = After(tx_buffer_head)
                                 /\ bytesSentSoFar = Size - ToPut + 1
  /\ pc = "count" => bytesSentSoFar = Size - ToPut
  /\ pc = "store" => tx_buffer_tail # i

(* The stream ends where the packet being put is. *)
Reached ==
  IF ToPut \in {0, Size}
  THEN AtEnd(Stream)
  ELSE Stream # <<>> /\ Stream[Len(Stream)] = [of |-> Current, at |-> Size - ToPut - 1]

(* It has the beginnings of exactly the packets before, and of this one    *)
(* once its first byte is put.                                             *)
MainBegun == IF isr # "send" /\ ToPut = PacketBytes THEN packets - 1 ELSE packets
EventsBegun == IF isr = "drain" \/ (isr = "send" /\ ToPut = EventBytes) THEN events - 1 ELSE events
AllBegun == Begun(Stream) = (1 .. MainBegun) \cup (MaxPackets + 1 .. MaxPackets + EventsBegun)

SendInv == Sending /\ Loaded /\ Reached /\ AllBegun /\ Good(Stream)
Whole == ~clash => SendInv

-----------------------------------------------------------------------------
(* The counters, and what the ring's indices do.                           *)
LEMMA Constants ==
  /\ MaxPackets \in Nat /\ MaxEvents \in Nat /\ PacketBytes \in Nat /\ EventBytes \in Nat
  /\ PacketBytes > 2 /\ EventBytes > 2 /\ TX_BUFFER_SIZE \in Nat /\ TX_BUFFER_SIZE > 3
  /\ Modulus \in Nat /\ PacketBytes < Modulus /\ EventBytes < Modulus
BY SendEventsAssumption

LEMMA Wraps ==
  ASSUME NEW M \in Nat, M > 0, NEW n \in Nat
  PROVE  n % M \in 0 .. M - 1
OBVIOUS

LEMMA NextCount ==
  ASSUME NEW M \in Nat, NEW n \in 0 .. M - 1, n + 1 < M
  PROVE  (n + 1) % M = n + 1
OBVIOUS

LEMMA PreviousCount ==
  ASSUME NEW M \in Nat, NEW n \in 1 .. M - 1
  PROVE  (n + M - 1) % M = n - 1
OBVIOUS

LEMMA Lengths ==
  /\ Longest \in Nat /\ Longest > 2
  /\ \A p \in Nat : LengthOf(p) \in 3 .. Longest /\ LengthOf(p) < Modulus
BY Constants DEF Longest, LengthOf

LEMMA AfterSlot == \A s \in Slots : After(s) \in Slots
BY Constants DEF After, Slots

LEMMA JunkIsByte == Junk \in Bytes
BY Constants, Lengths DEF Junk, Bytes

LEMMA FilledType ==
  ASSUME transmitBuffer \in [0 .. Longest - 1 -> Bytes], NEW p \in 0 .. MaxPackets + MaxEvents
  PROVE  Filled(p) \in [0 .. Longest - 1 -> Bytes]
BY Constants, Lengths DEF Filled, Bytes

LEMMA ByteAtType ==
  ASSUME transmitBuffer \in [0 .. Longest - 1 -> Bytes], NEW n \in Nat
  PROVE  ByteAt(n) \in Bytes
BY JunkIsByte, Lengths DEF ByteAt

LEMMA CountType ==
  \A n \in 0 .. Modulus - 1 : /\ (n + 1) % Modulus \in 0 .. Modulus - 1
                             /\ (n + Modulus - 1) % Modulus \in 0 .. Modulus - 1
<1> TAKE n \in 0 .. Modulus - 1
<1>1. Modulus \in Nat /\ Modulus > 0 /\ n + 1 \in Nat /\ n + Modulus - 1 \in Nat
  BY Constants
<1> QED BY <1>1, Wraps

(* TypeOK, one membership for each variable. *)
Types ==
  /\ transmitBuffer \in [0 .. Longest - 1 -> Bytes]
  /\ bytesLeftToSend \in 0 .. Modulus - 1 /\ bytesSentSoFar \in 0 .. Modulus - 1
  /\ tx_buffer \in [Slots -> Bytes]
  /\ tx_buffer_head \in Slots /\ tx_buffer_tail \in Slots
  /\ pc \in {"fill", "start", "restart", "check", "load", "wait", "store", "count"}
  /\ c \in Bytes /\ i \in Slots
  /\ packets \in 0 .. MaxPackets /\ events \in 0 .. MaxEvents
  /\ isr \in {"off", "drain", "send"} /\ wire \in Seq(Bytes)
  /\ clash \in BOOLEAN /\ tight \in BOOLEAN

LEMMA TypesAreTypeOK == Types <=> TypeOK
BY DEF Types, TypeOK

LEMMA InitTypes == Init => Types
<1> SUFFICES ASSUME Init PROVE Types
  OBVIOUS
<1>1. 0 \in Slots /\ 0 \in 0 .. Modulus - 1 /\ <<>> \in Seq(Bytes)
  BY Constants DEF Slots
<1>2. transmitBuffer \in [0 .. Longest - 1 -> Bytes] /\ tx_buffer \in [Slots -> Bytes] /\ c \in Bytes
  BY JunkIsByte DEF Init
<1>3. /\ bytesLeftToSend = 0 /\ bytesSentSoFar = 0 /\ tx_buffer_head = 0 /\ tx_buffer_tail = 0
      /\ pc = "fill" /\ i = 0 /\ packets = 0 /\ isr = "off" /\ events = 0 /\ wire = <<>>
      /\ clash = FALSE /\ tight = FALSE
  BY DEF Init
<1>4. 0 \in 0 .. MaxPackets /\ 0 \in 0 .. MaxEvents
  BY Constants
<1> QED BY <1>1, <1>2, <1>3, <1>4 DEF Types

LEMMA StepTypes == Types /\ [Next]_vars => Types'
<1> SUFFICES ASSUME Types, [Next]_vars PROVE Types'
  OBVIOUS
<1> USE DEF Types
<1>1. CASE Fill
  <2>1. packets + 1 \in 0 .. MaxPackets /\ packets + 1 \in 0 .. MaxPackets + MaxEvents
    BY <1>1, Constants DEF Fill
  <2>2. Filled(packets + 1) \in [0 .. Longest - 1 -> Bytes]
    BY <2>1, FilledType
  <2> QED BY <1>1, <2>1, <2>2 DEF Fill, Main, ring, history
<1>2. CASE StartSend
  <2>1. transmitBuffer[0].of \in Nat
    BY Constants, Lengths DEF Bytes
  <2>2. LengthOf(transmitBuffer[0].of) \in 0 .. Modulus - 1
    <3> DEFINE p == transmitBuffer[0].of
    <3> HIDE DEF p
    <3>1. p \in Nat
      BY <2>1 DEF p
    <3>2. LengthOf(p) \in 3 .. Longest /\ LengthOf(p) < Modulus
      BY <3>1, Lengths
    <3>3. LengthOf(p) \in 0 .. Modulus - 1
      <4> LengthOf(p) \in Nat /\ Modulus \in Nat
        BY <3>2, Lengths, Constants
      <4> QED BY <3>2
    <3> QED BY <3>3 DEF p
  <2> QED BY <1>2, <2>2 DEF StartSend, Main, ring, history
<1>3. CASE Restart
  BY <1>3, Constants DEF Restart, Main, ring, history
<1>4. CASE Check \/ Wait
  BY <1>4 DEF Check, Wait, Main, send, ring, history
<1>5. CASE Load
  <2>1. ByteAt(bytesSentSoFar) \in Bytes
    <3>1. bytesSentSoFar \in Nat
      BY Constants
    <3> QED BY <3>1, ByteAtType
  <2> QED BY <1>5, <2>1, CountType, AfterSlot DEF Load, Main, ring, history
<1>6. CASE Store
  BY <1>6 DEF Store, Main, send, history
<1>7. CASE Count
  BY <1>7, CountType DEF Count, Main, ring, history
<1>8. CASE Interrupt
  <2>1. events + 1 \in 0 .. MaxEvents
    BY <1>8, Constants DEF Interrupt
  <2>2. clash' \in BOOLEAN /\ tight' \in BOOLEAN
    BY <1>8 DEF Interrupt
  <2> QED BY <1>8, <2>1, <2>2 DEF Interrupt, InEvent, send
<1>9. CASE EventPuts
  <2>1. ByteAt(bytesSentSoFar) \in Bytes
    <3>1. bytesSentSoFar \in Nat
      BY Constants
    <3> QED BY <3>1, ByteAtType
  <2>2. bytesLeftToSend - 1 \in 0 .. Modulus - 1
    BY <1>9, Constants DEF EventPuts
  <2>3. tx_buffer_head' \in Slots /\ bytesSentSoFar' \in 0 .. Modulus - 1
    BY <1>9, CountType, AfterSlot DEF EventPuts
  <2>4. tx_buffer' \in [Slots -> Bytes]
    BY <1>9, <2>1 DEF EventPuts
  <2> QED BY <1>9, <2>2, <2>3, <2>4 DEF EventPuts, InEvent, history
<1>10. CASE EventStarts
  <2>1. Event(events) \in 0 .. MaxPackets + MaxEvents
    BY Constants DEF Event
  <2>2. Filled(Event(events)) \in [0 .. Longest - 1 -> Bytes]
    BY <2>1, FilledType
  <2>3. EventBytes \in 0 .. Modulus - 1 /\ 0 \in 0 .. Modulus - 1
    BY Constants
  <2> QED BY <1>10, <2>2, <2>3 DEF EventStarts, InEvent, history
<1>11. CASE EventEnds
  BY <1>11 DEF EventEnds, InEvent, send, history
<1>12. CASE Transmit
  <2>1. wire' \in Seq(Bytes) /\ tx_buffer_tail' \in Slots
    BY <1>12, AfterSlot DEF Transmit
  <2> QED BY <1>12, <2>1 DEF Transmit, send, history
<1>13. CASE UNCHANGED vars
  BY <1>13 DEF vars, send, ring, history
<1> QED BY <1>1, <1>2, <1>3, <1>4, <1>5, <1>6, <1>7, <1>8, <1>9, <1>10, <1>11, <1>12, <1>13
        DEF Next, MainNext, Handler

(* Every variable has the values its comment names, also when events have  *)
(* made the counters wrap.                                                 *)
THEOREM TypeCorrect == Spec => []TypeOK
<1>1. Spec => []Types
  BY InitTypes, StepTypes, PTL DEF Spec
<1> QED BY <1>1, TypesAreTypeOK, PTL

-----------------------------------------------------------------------------
(* The ring as a stream: a byte put is appended, and a byte the UART sends *)
(* leaves the stream as it is.                                             *)
LEMMA HeldRange ==
  ASSUME Types
  PROVE  /\ Held \in 0 .. TX_BUFFER_SIZE - 1
         /\ Slot(Held) = tx_buffer_head
         /\ Held = 0 <=> tx_buffer_head = tx_buffer_tail
         /\ Held = TX_BUFFER_SIZE - 1 <=> After(tx_buffer_head) = tx_buffer_tail
BY Constants DEF Types, Held, Slot, After, Slots

LEMMA SlotsDiffer ==
  ASSUME Types
  PROVE  /\ \A k \in 0 .. TX_BUFFER_SIZE - 1 : Slot(k) \in Slots
         /\ \A k, l \in 0 .. TX_BUFFER_SIZE - 1 : k # l => Slot(k) # Slot(l)
         /\ \A k \in 0 .. TX_BUFFER_SIZE - 2 : Slot(k + 1) = After(Slot(k))
BY Constants DEF Types, Slot, After, Slots

LEMMA StreamType ==
  ASSUME Types
  PROVE  Stream \in Seq(Bytes) /\ Len(Stream) = Len(wire) + Held /\ Len(Stream) \in Nat
<1>1. Len(wire) \in Nat /\ Held \in Nat /\ Held <= TX_BUFFER_SIZE - 1
  BY HeldRange, Constants DEF Types
<1>2. \A k \in 1 .. Len(wire) + Held : Stream[k] \in Bytes
  <2> TAKE k \in 1 .. Len(wire) + Held
  <2>1. CASE k <= Len(wire)
    BY <1>1, <2>1 DEF Stream, Types
  <2>2. CASE k > Len(wire)
    <3>1. k - Len(wire) \in 0 .. TX_BUFFER_SIZE - 1
      BY <1>1, <2>2, Constants
    <3>2. Slot(k - Len(wire)) \in Slots
      BY <3>1, SlotsDiffer
    <3> QED BY <1>1, <2>2, <3>2 DEF Stream, Types
  <2> QED BY <1>1, <2>1, <2>2
<1> QED BY <1>1, <1>2 DEF Stream

LEMMA TransmitStream ==
  ASSUME Types, Types', Transmit
  PROVE  Stream' = Stream
<1>1. /\ tx_buffer' = tx_buffer /\ tx_buffer_head' = tx_buffer_head
      /\ tx_buffer_tail' = After(tx_buffer_tail) /\ tx_buffer_tail # tx_buffer_head
      /\ wire' = Append(wire, tx_buffer[After(tx_buffer_tail)])
  BY DEF Transmit
<1>2. Len(wire) \in Nat /\ Len(wire') = Len(wire) + 1
  BY <1>1 DEF Types
<1>3. Held \in 1 .. TX_BUFFER_SIZE - 1 /\ Held' = Held - 1
  BY <1>1, Constants DEF Types, Held, After, Slots
<1>4. After(tx_buffer_tail) = Slot(1)
  BY Constants DEF Types, After, Slot, Slots
<1>5. ASSUME NEW k \in 1 .. Len(wire) + Held
      PROVE  Stream'[k] = Stream[k]
  <2>1. CASE k <= Len(wire)
    BY <1>1, <1>2, <1>3, <2>1 DEF Stream, Types
  <2>2. CASE k = Len(wire) + 1
    <3>1. Stream'[k] = tx_buffer[Slot(1)]
      BY <1>1, <1>2, <1>3, <1>4, <2>2 DEF Stream
    <3> QED BY <1>2, <1>3, <2>2, <3>1 DEF Stream
  <2>3. CASE k > Len(wire) + 1
    <3> DEFINE n == k - Len(wire')
    <3>1. n \in 1 .. TX_BUFFER_SIZE - 2 /\ n + 1 = k - Len(wire)
      BY <1>2, <1>3, <2>3, Constants
    <3> HIDE DEF n
    <3>2. IF tx_buffer_tail' + n >= TX_BUFFER_SIZE
          THEN tx_buffer_tail' + n - TX_BUFFER_SIZE = Slot(k - Len(wire))
          ELSE tx_buffer_tail' + n = Slot(k - Len(wire))
      <4>1. n \in Nat /\ tx_buffer_tail \in 0 .. TX_BUFFER_SIZE - 1
        BY <3>1, Constants DEF Types, Slots
      <4> QED BY <1>1, <3>1, <4>1, Constants DEF Slot, After
    <3>3. Stream'[k] = tx_buffer'[IF tx_buffer_tail' + n >= TX_BUFFER_SIZE
                                  THEN tx_buffer_tail' + n - TX_BUFFER_SIZE
                                  ELSE tx_buffer_tail' + n]
      BY <1>2, <1>3, <2>3 DEF Stream, Slot, n
    <3>4. Stream[k] = tx_buffer[Slot(k - Len(wire))]
      BY <1>2, <1>3, <2>3 DEF Stream
    <3> QED BY <1>1, <3>2, <3>3, <3>4
  <2> QED BY <1>2, <1>3, <2>1, <2>2, <2>3
<1>6. Len(wire') + Held' = Len(wire) + Held
  BY <1>2, <1>3
<1> QED BY <1>5, <1>6 DEF Stream

LEMMA PutStream ==
  ASSUME Types, Types', NEW b \in Bytes,
         wire' = wire, tx_buffer_tail' = tx_buffer_tail,
         After(tx_buffer_head) # tx_buffer_tail,
         tx_buffer_head' = After(tx_buffer_head),
         tx_buffer' = [tx_buffer EXCEPT ![After(tx_buffer_head)] = b]
  PROVE  Stream' = Append(Stream, b)
<1>1. Held \in 0 .. TX_BUFFER_SIZE - 2 /\ Held' = Held + 1
  BY Constants DEF Types, Held, After, Slots
<1>2. Len(wire) \in Nat /\ Len(wire') = Len(wire)
  BY DEF Types
<1>3. \A k \in 0 .. TX_BUFFER_SIZE - 1 : Slot(k)' = Slot(k)
  BY DEF Slot
<1>4. After(tx_buffer_head) = Slot(Held + 1)
  BY <1>1, HeldRange, SlotsDiffer
<1>5. ASSUME NEW k \in 1 .. Len(wire) + Held
      PROVE  Stream'[k] = Stream[k]
  <2>1. CASE k <= Len(wire)
    BY <1>1, <1>2, <2>1 DEF Stream
  <2>2. CASE k > Len(wire)
    <3>1. /\ k - Len(wire) \in 0 .. TX_BUFFER_SIZE - 1 /\ Held + 1 \in 0 .. TX_BUFFER_SIZE - 1
          /\ k - Len(wire) # Held + 1
      BY <1>1, <1>2, <2>2, Constants
    <3>2. Slot(k - Len(wire)) \in Slots /\ Slot(k - Len(wire)) # After(tx_buffer_head)
      BY <3>1, <1>4, SlotsDiffer
    <3>3. tx_buffer'[Slot(k - Len(wire))] = tx_buffer[Slot(k - Len(wire))]
      BY <3>2 DEF Types
    <3> QED BY <1>1, <1>2, <1>3, <2>2, <3>1, <3>3 DEF Stream
  <2> QED BY <1>1, <1>2, <2>1, <2>2
<1>6. Stream'[Len(wire) + Held + 1] = b
  <2>1. Slot(Held + 1) \in Slots
    BY <1>1, SlotsDiffer, Constants
  <2>2. tx_buffer'[Slot(Held + 1)] = b
    BY <2>1, <1>4 DEF Types
  <2>3. Stream'[Len(wire) + Held + 1] = tx_buffer'[Slot(Held + 1)]
    <3>1. /\ Len(wire) + Held + 1 \in 1 .. Len(wire') + Held'
          /\ ~(Len(wire) + Held + 1 <= Len(wire')) /\ Len(wire) + Held + 1 - Len(wire') = Held + 1
      BY <1>1, <1>2
    <3>2. Stream'[Len(wire) + Held + 1]
            = tx_buffer'[IF tx_buffer_tail' + (Held + 1) >= TX_BUFFER_SIZE
                         THEN tx_buffer_tail' + (Held + 1) - TX_BUFFER_SIZE
                         ELSE tx_buffer_tail' + (Held + 1)]
      <4> DEFINE n == Len(wire) + Held + 1
      <4>1. Stream'[n] = tx_buffer'[IF tx_buffer_tail' + (n - Len(wire')) >= TX_BUFFER_SIZE
                         THEN tx_buffer_tail' + (n - Len(wire')) - TX_BUFFER_SIZE
                         ELSE tx_buffer_tail' + (n - Len(wire'))]
        <5> HIDE DEF n
        <5> QED BY <3>1 DEF Stream, Slot, n
      <4>2. n - Len(wire') = Held + 1
        BY <1>1, <1>2, Constants
      <4> HIDE DEF n
      <4>3. Stream'[n] = tx_buffer'[IF tx_buffer_tail' + (Held + 1) >= TX_BUFFER_SIZE
                         THEN tx_buffer_tail' + (Held + 1) - TX_BUFFER_SIZE
                         ELSE tx_buffer_tail' + (Held + 1)]
        BY <4>1, <4>2
      <4> QED BY <4>3 DEF n
    <3> QED BY <3>2 DEF Slot
  <2> QED BY <2>2, <2>3
<1>7. Len(wire') + Held' = Len(wire) + Held + 1
  BY <1>1, <1>2
<1>8. Stream \in Seq(Bytes) /\ Len(Stream) = Len(wire) + Held
  BY StreamType
<1>9. Stream' = [k \in 1 .. Len(wire) + Held + 1 |-> Stream'[k]]
  BY <1>7 DEF Stream
<1>10. ASSUME NEW k \in 1 .. Len(wire) + Held + 1
       PROVE  Stream'[k] = Append(Stream, b)[k]
  <2>1. CASE k <= Len(wire) + Held
    BY <1>1, <1>2, <1>5, <1>8, <2>1
  <2>2. CASE k = Len(wire) + Held + 1
    BY <1>6, <1>8, <2>2
  <2>3. Len(wire) + Held \in Nat
    BY <1>1, <1>2, Constants
  <2>4. k <= Len(wire) + Held \/ k = Len(wire) + Held + 1
    BY <2>3
  <2> QED BY <2>1, <2>2, <2>4
<1>11. Append(Stream, b) = [k \in 1 .. Len(wire) + Held + 1 |-> Append(Stream, b)[k]]
  <2> HIDE DEF Stream
  <2>1. Append(Stream, b) \in Seq(Bytes) /\ Len(Append(Stream, b)) = Len(wire) + Held + 1
    BY <1>8
  <2>2. Append(Stream, b) \in [1 .. Len(Append(Stream, b)) -> Bytes]
    BY <2>1, LenProperties
  <2> QED BY <2>1, <2>2
<1> QED BY <1>9, <1>10, <1>11

-----------------------------------------------------------------------------
(* A byte that continues a good stream, or begins the next packet.         *)
LEMMA AppendStarts ==
  ASSUME NEW s \in Seq(Bytes), NEW b \in Bytes
  PROVE  /\ \A k \in StartsOf(s) : k \in 1 .. Len(s)
         /\ StartsOf(Append(s, b)) = StartsOf(s) \cup (IF AtEnd(s) THEN {Len(s) + 1} ELSE {})
         /\ \A k \in 1 .. Len(s) : Append(s, b)[k] = s[k]
         /\ Append(s, b)[Len(s) + 1] = b
         /\ Len(Append(s, b)) = Len(s) + 1
<1>1. /\ Len(s) \in Nat /\ Len(Append(s, b)) = Len(s) + 1
      /\ \A k \in 1 .. Len(s) : Append(s, b)[k] = s[k]
      /\ Append(s, b)[Len(s) + 1] = b
      /\ s = <<>> <=> Len(s) = 0
  OBVIOUS
<1>2. ASSUME NEW k \in 1 .. Len(s)
      PROVE  k \in StartsOf(Append(s, b)) <=> k \in StartsOf(s)
  <2>1. k = 1 \/ Append(s, b)[k - 1] = s[k - 1]
    BY <1>1
  <2> QED BY <1>1, <2>1 DEF StartsOf
<1>3. Len(s) + 1 \in StartsOf(Append(s, b)) <=> AtEnd(s)
  <2>1. CASE Len(s) = 0
    BY <1>1, <2>1 DEF StartsOf, AtEnd
  <2>2. CASE Len(s) # 0
    <3>1. Append(s, b)[Len(s)] = s[Len(s)] /\ Len(s) + 1 - 1 = Len(s) /\ Len(s) + 1 # 1
      BY <1>1, <2>2
    <3>2. Append(s, b)[Len(s) + 1 - 1] = s[Len(s)]
      BY <3>1
    <3>3. Len(s) + 1 \in StartsOf(Append(s, b)) <=> Closes(Append(s, b)[Len(s) + 1 - 1])
      <4>1. Len(s) + 1 \in 1 .. Len(Append(s, b)) /\ Len(s) + 1 # 1
        BY <1>1, <2>2
      <4> QED BY <4>1 DEF StartsOf
    <3> QED BY <1>1, <2>2, <3>2, <3>3 DEF AtEnd
  <2> QED BY <2>1, <2>2
<1>4. StartsOf(Append(s, b)) \subseteq 1 .. Len(s) + 1 /\ StartsOf(s) \subseteq 1 .. Len(s)
  BY <1>1 DEF StartsOf
<1>5. \A k \in 1 .. Len(s) + 1 : k \in 1 .. Len(s) \/ k = Len(s) + 1
  BY <1>1
<1>6. Len(s) + 1 \notin 1 .. Len(s)
  BY <1>1
<1>7. StartsOf(Append(s, b)) = StartsOf(s) \cup (IF AtEnd(s) THEN {Len(s) + 1} ELSE {})
  BY <1>2, <1>3, <1>4, <1>5, <1>6
<1> QED BY <1>1, <1>4, <1>7

Continues(s, b) ==
  IF AtEnd(s)
  THEN /\ b.at = 0 /\ b.of > 0 /\ b.of \notin Begun(s)
       /\ b.of \in 2 .. MaxPackets => b.of - 1 \in Begun(s)
  ELSE b.of = s[Len(s)].of /\ b.at = s[Len(s)].at + 1

LEMMA AppendGood ==
  ASSUME NEW s \in Seq(Bytes), NEW b \in Bytes, Good(s), Continues(s, b)
  PROVE  /\ Good(Append(s, b))
         /\ Begun(Append(s, b)) = Begun(s) \cup (IF AtEnd(s) THEN {b.of} ELSE {})
<1> DEFINE t == Append(s, b)
           n == Len(s) + 1
<1>1. /\ Len(s) \in Nat /\ Len(t) = n /\ t[n] = b /\ \A k \in 1 .. Len(s) : t[k] = s[k]
      /\ StartsOf(s) \subseteq 1 .. Len(s)
      /\ StartsOf(t) = StartsOf(s) \cup (IF AtEnd(s) THEN {n} ELSE {})
      /\ s = <<>> <=> Len(s) = 0
  BY AppendStarts
<1>2. Begun(t) = Begun(s) \cup (IF AtEnd(s) THEN {b.of} ELSE {})
  BY <1>1 DEF Begun
<1>3. Framed(t)
  <2> SUFFICES ASSUME NEW k \in 1 .. n
               PROVE  IF k \in StartsOf(t) THEN t[k].at = 0 /\ t[k].of > 0
                      ELSE t[k].of = t[k - 1].of /\ t[k].at = t[k - 1].at + 1
    BY <1>1 DEF Framed
  <2>1. CASE k <= Len(s)
    <3>1. k \in 1 .. Len(s) /\ t[k] = s[k] /\ (k \in StartsOf(t) <=> k \in StartsOf(s))
      BY <1>1, <2>1
    <3>2. k \notin StartsOf(s) => t[k - 1] = s[k - 1]
      BY <1>1, <3>1 DEF StartsOf
    <3> QED BY <3>1, <3>2 DEF Good, Framed
  <2>2. CASE k = n
    <3>1. n \notin 1 .. Len(s) /\ (n \in StartsOf(t) <=> AtEnd(s))
      BY <1>1
    <3>2. ~AtEnd(s) => t[n - 1] = s[Len(s)]
      BY <1>1 DEF AtEnd
    <3> QED BY <1>1, <2>2, <3>1, <3>2 DEF Continues
  <2>3. k <= Len(s) \/ k = n
    BY <1>1
  <2> QED BY <2>1, <2>2, <2>3
<1>4. Once(t)
  <2> SUFFICES ASSUME NEW k \in StartsOf(t), NEW l \in StartsOf(t), k < l
               PROVE  t[k].of # t[l].of
    BY DEF Once
  <2>1. CASE l \in StartsOf(s)
    <3>1. k \in StartsOf(s)
      BY <1>1, <2>1
    <3> QED BY <1>1, <2>1, <3>1 DEF Good, Once
  <2>2. CASE l \notin StartsOf(s)
    <3>1. l = n /\ AtEnd(s) /\ k \in StartsOf(s)
      BY <1>1, <2>2
    <3>2. s[k].of \in Begun(s)
      BY <3>1 DEF Begun
    <3> QED BY <1>1, <3>1, <3>2 DEF Continues
  <2> QED BY <2>1, <2>2
<1>5. Ordered(t)
  <2> SUFFICES ASSUME NEW l \in StartsOf(t), t[l].of \in 2 .. MaxPackets
               PROVE  \E m \in StartsOf(t) : m < l /\ t[m].of = t[l].of - 1
    BY DEF Ordered
  <2>1. CASE l \in StartsOf(s)
    <3>1. t[l] = s[l]
      BY <1>1, <2>1
    <3>2. PICK m \in StartsOf(s) : m < l /\ s[m].of = s[l].of - 1
      BY <2>1, <3>1 DEF Good, Ordered
    <3>3. m \in StartsOf(t) /\ t[m] = s[m]
      BY <1>1, <3>2
    <3> QED BY <3>1, <3>2, <3>3
  <2>2. CASE l \notin StartsOf(s)
    <3>1. l = n /\ AtEnd(s) /\ t[l] = b
      BY <1>1, <2>2
    <3>2. b.of - 1 \in Begun(s)
      BY <3>1 DEF Continues
    <3>3. PICK m \in StartsOf(s) : s[m].of = b.of - 1
      BY <3>2 DEF Begun
    <3>4. m \in StartsOf(t) /\ m < l /\ t[m] = s[m]
      BY <1>1, <3>1, <3>3
    <3> QED BY <3>1, <3>3, <3>4
  <2> QED BY <2>1, <2>2
<1> QED BY <1>2, <1>3, <1>4, <1>5 DEF Good

(* The wire is a beginning of the stream.                                  *)
LEMMA GoodWire ==
  ASSUME Types, Good(Stream)
  PROVE  Good(wire)
<1>1. /\ Len(wire) \in Nat /\ Held \in Nat /\ Len(Stream) = Len(wire) + Held
      /\ \A k \in 1 .. Len(wire) : Stream[k] = wire[k]
  <2>1. Len(wire) \in Nat /\ Held \in Nat
    BY HeldRange, Constants DEF Types
  <2> QED BY <2>1, StreamType DEF Stream
<1>2. \A k \in 1 .. Len(wire) : k \in StartsOf(Stream) <=> k \in StartsOf(wire)
  <2> TAKE k \in 1 .. Len(wire)
  <2>1. k = 1 \/ Stream[k - 1] = wire[k - 1]
    BY <1>1
  <2> HIDE DEF Stream
  <2> QED BY <1>1, <2>1 DEF StartsOf
<1>3. StartsOf(wire) \subseteq 1 .. Len(wire)
  BY DEF StartsOf
<1>4. Framed(wire)
  <2> SUFFICES ASSUME NEW k \in 1 .. Len(wire)
               PROVE  IF k \in StartsOf(wire) THEN wire[k].at = 0 /\ wire[k].of > 0
                      ELSE wire[k].of = wire[k - 1].of /\ wire[k].at = wire[k - 1].at + 1
    BY DEF Framed
  <2>1. k \in 1 .. Len(Stream) /\ Stream[k] = wire[k]
    BY <1>1
  <2>2. k \notin StartsOf(wire) => Stream[k - 1] = wire[k - 1]
    BY <1>1 DEF StartsOf
  <2> QED BY <1>2, <2>1, <2>2 DEF Good, Framed
<1>5. Once(wire)
  BY <1>1, <1>2, <1>3 DEF Good, Once
<1>6. Ordered(wire)
  <2> SUFFICES ASSUME NEW l \in StartsOf(wire), wire[l].of \in 2 .. MaxPackets
               PROVE  \E m \in StartsOf(wire) : m < l /\ wire[m].of = wire[l].of - 1
    BY DEF Ordered
  <2>1. l \in StartsOf(Stream) /\ Stream[l] = wire[l]
    BY <1>1, <1>2, <1>3
  <2>2. PICK m \in StartsOf(Stream) : m < l /\ Stream[m].of = Stream[l].of - 1
    BY <2>1 DEF Good, Ordered
  <2>3. m \in 1 .. Len(wire)
    BY <1>1, <1>3, <2>2 DEF StartsOf
  <2> QED BY <1>1, <1>2, <2>1, <2>2, <2>3
<1> QED BY <1>4, <1>5, <1>6 DEF Good

LEMMA GoodIsWirePackets == Types /\ Good(wire) => WirePackets
<1> SUFFICES ASSUME Types, Good(wire) PROVE WirePackets
  OBVIOUS
<1>1. Starts = StartsOf(wire) /\ DOMAIN wire = 1 .. Len(wire)
  BY DEF Types, Starts, StartsOf, Ends, Closes
<1> QED BY <1>1 DEF Good, Framed, Once, Ordered, WirePackets, Begins

-----------------------------------------------------------------------------
(* A step of the sender that puts nothing.                                 *)
LEMMA StreamSame == UNCHANGED <<wire, ring>> => Stream' = Stream
BY DEF ring, Stream, Held, Slot

LEMMA Sizes ==
  ASSUME Types
  PROVE  /\ LengthOf(packets) = PacketBytes
         /\ events > 0 => LengthOf(Event(events)) = EventBytes
         /\ Sending => Size = IF isr = "send" THEN EventBytes ELSE PacketBytes
         /\ Current \in Nat /\ packets \in Nat /\ events \in Nat /\ packets <= MaxPackets
<1>1. packets \in 0 .. MaxPackets /\ events \in 0 .. MaxEvents
  BY DEF Types
<1>2. LengthOf(packets) = PacketBytes
  BY <1>1, Constants DEF LengthOf
<1>3. events > 0 => LengthOf(Event(events)) = EventBytes
  BY <1>1, Constants DEF LengthOf, Event
<1>4. Current \in Nat /\ packets \in Nat /\ events \in Nat /\ packets <= MaxPackets
  BY <1>1, Constants DEF Current, Event
<1>5. Sending => Size = IF isr = "send" THEN EventBytes ELSE PacketBytes
  BY <1>2, <1>3 DEF Sending, Size, Current
<1> QED BY <1>2, <1>3, <1>4, <1>5

(* A byte of the packet is put.                                            *)
LEMMA PutStep ==
  ASSUME Types, SendInv, ToPut > 0, NEW b \in Bytes,
         b = [of |-> Current, at |-> Size - ToPut],
         Stream' = Append(Stream, b), ToPut' = ToPut - 1,
         isr' = isr, events' = events, packets' = packets
  PROVE  Reached' /\ AllBegun' /\ Good(Stream')
<1> DEFINE S == Stream
           T == Append(Stream, b)
<1>1. /\ ToPut \in 1 .. Size /\ Current > 0 /\ Size \in Nat /\ Size > 2
      /\ Size = IF isr = "send" THEN EventBytes ELSE PacketBytes
  BY Sizes, Constants DEF SendInv, Sending
<1>2. Current' = Current /\ Size' = Size
  BY DEF Current, Size, Event
<1>3. b.of = Current /\ b.at = Size - ToPut /\ LengthOf(b.of) = Size
  BY DEF Size
<1>4. S \in Seq(Bytes) /\ Len(S) \in Nat /\ (S = <<>> <=> Len(S) = 0)
  BY StreamType
<1>5. /\ Begun(S) = (1 .. MainBegun) \cup (MaxPackets + 1 .. MaxPackets + EventsBegun)
      /\ Good(S)
  BY DEF SendInv, AllBegun
<1>6. ASSUME ToPut = Size
      PROVE  AllBegun' /\ Good(T)
  <2>1. AtEnd(S)
    BY <1>6 DEF SendInv, Reached
  <2>2. CASE isr = "send"
    <3>1. /\ Current = MaxPackets + events /\ MainBegun = packets /\ EventsBegun = events - 1
          /\ MainBegun' = packets /\ EventsBegun' = events
      BY <1>1, <1>6, <2>2, Constants DEF Current, Event, MainBegun, EventsBegun
    <3>2. events > 0
      BY <2>2 DEF SendInv, Sending
    <3>3. Current \notin Begun(S) /\ Current \notin 2 .. MaxPackets
      BY <1>5, <3>1, <3>2, Sizes, Constants
    <3>4. Continues(S, b)
      BY <1>1, <1>3, <1>6, <2>1, <3>3 DEF Continues
    <3>5. Good(T) /\ Begun(T) = Begun(S) \cup {Current}
      BY <1>3, <1>4, <1>5, <2>1, <3>4, AppendGood
    <3>6. Begun(T) = (1 .. packets) \cup (MaxPackets + 1 .. MaxPackets + events)
      BY <1>5, <3>1, <3>2, <3>5, Sizes, Constants
    <3>7. AllBegun'
      BY <3>1, <3>6 DEF AllBegun
    <3> QED BY <3>5, <3>7
  <2>3. CASE isr # "send"
    <3>1. /\ Current = packets /\ MainBegun = packets - 1 /\ MainBegun' = packets
          /\ EventsBegun' = EventsBegun /\ EventsBegun \in {events, events - 1}
      BY <1>1, <1>6, <2>3, Constants DEF Current, MainBegun, EventsBegun
    <3>2. Current \notin Begun(S) /\ (Current \in 2 .. MaxPackets => Current - 1 \in Begun(S))
      BY <1>1, <1>5, <3>1, Sizes, Constants
    <3>3. Continues(S, b)
      BY <1>1, <1>3, <1>6, <2>1, <3>2 DEF Continues
    <3>4. Good(T) /\ Begun(T) = Begun(S) \cup {Current}
      BY <1>3, <1>4, <1>5, <2>1, <3>3, AppendGood
    <3>5. Begun(T) = (1 .. packets) \cup (MaxPackets + 1 .. MaxPackets + EventsBegun)
      BY <1>1, <1>5, <3>1, <3>4, Sizes, Constants
    <3>6. AllBegun'
      BY <3>1, <3>5 DEF AllBegun
    <3> QED BY <3>4, <3>6
  <2> QED BY <2>2, <2>3
<1>7. ASSUME ToPut # Size
      PROVE  AllBegun' /\ Good(T)
  <2>1. S # <<>> /\ S[Len(S)] = [of |-> Current, at |-> Size - ToPut - 1] /\ ToPut < Size
    BY <1>1, <1>7 DEF SendInv, Reached
  <2>2. ~AtEnd(S)
    BY <1>1, <1>7, <2>1 DEF AtEnd, Closes, Size
  <2>3. Continues(S, b)
    BY <1>1, <1>3, <2>1, <2>2 DEF Continues
  <2>4. Good(T) /\ Begun(T) = Begun(S)
    BY <1>4, <1>5, <2>2, <2>3, AppendGood
  <2>5. MainBegun' = MainBegun /\ EventsBegun' = EventsBegun
    BY <1>1, <2>1, Constants DEF MainBegun, EventsBegun
  <2>6. AllBegun'
    BY <1>5, <2>4, <2>5 DEF AllBegun
  <2> QED BY <2>4, <2>6
<1>8. Reached'
  <2>1. T # <<>> /\ T[Len(T)] = b
    BY <1>4
  <2>2. CASE ToPut = 1
    <3>1. AtEnd(T)
      BY <1>1, <1>3, <2>1, <2>2 DEF AtEnd, Closes
    <3> QED BY <2>2, <3>1 DEF Reached
  <2>3. CASE ToPut > 1
    <3>1. ToPut' # 0 /\ ToPut' # Size /\ Size - ToPut' - 1 = Size - ToPut
      <4>1. ToPut \in Nat /\ Size \in Nat /\ ToPut <= Size /\ ToPut' = ToPut - 1
        BY <1>1
      <4> QED BY <2>3, <4>1
    <3> QED BY <1>2, <1>3, <2>1, <3>1 DEF Reached
  <2> QED BY <1>1, <2>2, <2>3
<1> QED BY <1>6, <1>7, <1>8

-----------------------------------------------------------------------------
(* Main's own steps: from one packet to the next.                          *)
LEMMA FillStep ==
  ASSUME Types, Types', SendInv, Fill
  PROVE  SendInv'
<1>1. /\ isr = "off" /\ isr' = "off" /\ events' = events /\ pc = "fill" /\ pc' = "start"
      /\ packets' = packets + 1 /\ transmitBuffer' = Filled(packets + 1)
      /\ bytesLeftToSend' = bytesLeftToSend /\ Stream' = Stream
  BY StreamSame DEF Fill, Main, ring
<1>2. /\ ToPut = 0 /\ ToPut' = PacketBytes /\ Current' = packets + 1 /\ packets \in Nat
      /\ LengthOf(packets + 1) = PacketBytes /\ Size' = PacketBytes
  BY <1>1, Constants DEF ToPut, Current, Size, Types, LengthOf
<1>3. Sending'
  BY <1>1, <1>2, Constants DEF Sending
<1>4. Loaded'
  <2>1. \A k \in 0 .. PacketBytes - 1 : transmitBuffer'[k] = [of |-> packets + 1, at |-> k]
    BY <1>1, <1>2, Constants DEF Filled, Longest
  <2> QED BY <1>1, <1>2, <2>1 DEF Loaded
<1>5. Reached'
  BY <1>1, <1>2 DEF SendInv, Reached
<1>6. AllBegun'
  <2>1. MainBegun = packets /\ MainBegun' = packets /\ EventsBegun' = EventsBegun
    BY <1>1, <1>2, Constants DEF MainBegun, EventsBegun
  <2> QED BY <1>1, <2>1 DEF SendInv, AllBegun
<1> QED BY <1>1, <1>3, <1>4, <1>5, <1>6 DEF SendInv

LEMMA StartStep ==
  ASSUME Types, Types', SendInv, StartSend \/ Restart
  PROVE  SendInv'
<1>1. /\ isr = "off" /\ isr' = "off" /\ events' = events /\ pc \in {"start", "restart"}
      /\ packets' = packets /\ transmitBuffer' = transmitBuffer /\ Stream' = Stream
      /\ pc' = IF pc = "start" THEN "restart" ELSE "check"
  BY StreamSame DEF StartSend, Restart, Main, ring
<1>2. ToPut = PacketBytes /\ Current = packets /\ Current' = Current /\ Size' = Size
      /\ Size = PacketBytes /\ packets > 0
  BY <1>1, Sizes, Constants DEF SendInv, Sending, ToPut, Current, Size, Event
<1>3. bytesLeftToSend' = PacketBytes
  <2>1. CASE StartSend
    <3>1. transmitBuffer[0] = [of |-> packets, at |-> 0]
      BY <1>2, Constants DEF SendInv, Loaded
    <3> QED BY <2>1, <3>1, Sizes DEF StartSend
  <2>2. CASE Restart
    BY <2>2 DEF Restart, SendInv, Sending
  <2> QED BY <2>1, <2>2
<1>4. ToPut' = PacketBytes
  BY <1>1, <1>3 DEF ToPut
<1>5. Sending'
  BY <1>1, <1>2, <1>3, <1>4, Constants DEF Sending
<1>6. Loaded'
  <2>1. pc' = "check" => bytesSentSoFar' = 0
    BY <1>1 DEF StartSend, Restart
  <2> QED BY <1>1, <1>2, <1>4, <2>1, Constants DEF SendInv, Loaded
<1>7. Reached' /\ AllBegun'
  BY <1>1, <1>2, <1>4 DEF SendInv, Reached, AllBegun, MainBegun, EventsBegun
<1> QED BY <1>1, <1>5, <1>6, <1>7 DEF SendInv

LEMMA CheckStep ==
  ASSUME Types, Types', SendInv, Check \/ Wait \/ Load
  PROVE  SendInv'
<1>1. /\ isr = "off" /\ isr' = "off" /\ events' = events /\ packets' = packets
      /\ transmitBuffer' = transmitBuffer /\ Stream' = Stream
      /\ bytesLeftToSend' = bytesLeftToSend
      /\ tx_buffer_head' = tx_buffer_head /\ tx_buffer_tail' = tx_buffer_tail
      /\ pc \in {"check", "wait", "load"}
      /\ pc' \in {"load", "wait", "store"} \/ (pc' = "fill" /\ bytesLeftToSend = 0)
      /\ pc' \in {"load", "wait", "store"} => bytesLeftToSend > 0
  BY StreamSame, Constants DEF Check, Wait, Load, Main, ring, send, SendInv, Sending, Types
<1>2. /\ ToPut = bytesLeftToSend /\ ToPut' = ToPut /\ Current' = Current /\ Size' = Size
      /\ Size = PacketBytes /\ ToPut \in 0 .. Size
  BY <1>1, Sizes, Constants DEF SendInv, Sending, ToPut, Current, Size, Event
<1>3. Sending'
  BY <1>1, <1>2, Constants DEF SendInv, Sending
<1>4. Loaded'
  <2>1. CASE Check
    BY <1>1, <1>2, <2>1 DEF Check, Main, send, SendInv, Loaded
  <2>2. CASE Wait
    BY <1>1, <1>2, <2>2 DEF Wait, Main, send, SendInv, Loaded
  <2>3. CASE Load
    <3>1. /\ pc = "load" /\ pc' = "wait" /\ c' = ByteAt(bytesSentSoFar)
          /\ bytesSentSoFar' = (bytesSentSoFar + 1) % Modulus
          /\ i' = After(tx_buffer_head) /\ ToPut > 0
      BY <1>1, <1>2, <2>3 DEF Load
    <3>2. /\ bytesSentSoFar = Size - ToPut
          /\ \A k \in 0 .. Size - 1 : transmitBuffer[k] = [of |-> Current, at |-> k]
      BY <1>2, <3>1 DEF SendInv, Loaded
    <3>3. bytesSentSoFar \in 0 .. Size - 1 /\ bytesSentSoFar < Longest
      BY <1>2, <3>1, <3>2, Constants DEF Longest
    <3>4. c' = [of |-> Current, at |-> Size - ToPut]
      BY <3>1, <3>2, <3>3 DEF ByteAt
    <3>5. bytesSentSoFar' = bytesSentSoFar + 1
      <4>1. bytesSentSoFar \in 0 .. Modulus - 1 /\ bytesSentSoFar + 1 < Modulus
        BY <1>2, <3>3, Constants
      <4> QED BY <3>1, <4>1, NextCount, Constants
    <3> QED BY <1>1, <1>2, <3>1, <3>2, <3>4, <3>5 DEF Loaded
  <2> QED BY <2>1, <2>2, <2>3
<1>5. Reached' /\ AllBegun'
  BY <1>1, <1>2 DEF SendInv, Reached, AllBegun, MainBegun, EventsBegun
<1> QED BY <1>1, <1>3, <1>4, <1>5 DEF SendInv

LEMMA StoreStep ==
  ASSUME Types, Types', SendInv, Store
  PROVE  SendInv'
<1>1. /\ isr = "off" /\ isr' = "off" /\ events' = events /\ packets' = packets
      /\ transmitBuffer' = transmitBuffer /\ bytesSentSoFar' = bytesSentSoFar
      /\ bytesLeftToSend' = bytesLeftToSend /\ pc = "store" /\ pc' = "count"
  BY DEF Store, Main, send
<1>2. /\ ToPut = bytesLeftToSend /\ ToPut' = ToPut - 1 /\ Current' = Current /\ Size' = Size
      /\ Size = PacketBytes /\ ToPut \in 1 .. Size
  BY <1>1, Sizes, Constants DEF SendInv, Sending, ToPut, Current, Size, Event
<1>3. /\ c = [of |-> Current, at |-> Size - ToPut] /\ c \in Bytes
      /\ i = After(tx_buffer_head) /\ i # tx_buffer_tail
      /\ bytesSentSoFar = Size - ToPut + 1
  BY <1>1 DEF SendInv, Loaded, Types
<1>4. Stream' = Append(Stream, c)
  <2>1. /\ wire' = wire /\ tx_buffer_tail' = tx_buffer_tail
        /\ tx_buffer_head' = After(tx_buffer_head)
        /\ tx_buffer' = [tx_buffer EXCEPT ![After(tx_buffer_head)] = c]
    BY <1>3 DEF Store, Main
  <2> QED BY <1>3, <2>1, PutStream
<1>5. Reached' /\ AllBegun' /\ Good(Stream')
  BY <1>1, <1>2, <1>3, <1>4, PutStep
<1>6. Sending'
  BY <1>1, <1>2, Constants DEF SendInv, Sending
<1>7. Loaded'
  BY <1>1, <1>2, <1>3, Constants DEF SendInv, Loaded
<1> QED BY <1>5, <1>6, <1>7 DEF SendInv

LEMMA CountStep ==
  ASSUME Types, Types', SendInv, Count
  PROVE  SendInv'
<1>1. /\ isr = "off" /\ isr' = "off" /\ events' = events /\ packets' = packets
      /\ transmitBuffer' = transmitBuffer /\ bytesSentSoFar' = bytesSentSoFar
      /\ pc = "count" /\ pc' = "check" /\ Stream' = Stream
      /\ bytesLeftToSend' = (bytesLeftToSend + Modulus - 1) % Modulus
  BY StreamSame DEF Count, Main, ring
<1>2. bytesLeftToSend \in 1 .. Modulus - 1
  BY <1>1, Constants DEF SendInv, Sending, Types
<1>3. bytesLeftToSend' = bytesLeftToSend - 1
  BY <1>1, <1>2, PreviousCount, Constants
<1>4. /\ ToPut = bytesLeftToSend - 1 /\ ToPut' = ToPut /\ Current' = Current /\ Size' = Size
  BY <1>1, <1>3 DEF ToPut, Current, Size, Event
<1>5. Sending'
  BY <1>1, <1>2, <1>4, Constants DEF SendInv, Sending
<1>6. Loaded'
  BY <1>1, <1>4 DEF SendInv, Loaded
<1>7. Reached' /\ AllBegun'
  BY <1>1, <1>4 DEF SendInv, Reached, AllBegun, MainBegun, EventsBegun
<1> QED BY <1>1, <1>5, <1>6, <1>7 DEF SendInv

-----------------------------------------------------------------------------
(* The handler: it finishes main's packet, and then sends its own.         *)
LEMMA InterruptStep ==
  ASSUME Types, Types', SendInv, Interrupt, ~clash'
  PROVE  SendInv'
<1>1. /\ isr = "off" /\ isr' = "drain" /\ events' = events + 1 /\ packets' = packets
      /\ transmitBuffer' = transmitBuffer /\ bytesSentSoFar' = bytesSentSoFar
      /\ bytesLeftToSend' = bytesLeftToSend /\ pc' = pc /\ Stream' = Stream
  BY StreamSame DEF Interrupt, InEvent, send, ring
<1>2. pc \in {"fill", "check"}
  BY DEF Interrupt, MidSend, Types
<1>3. events \in Nat
  BY Sizes
<1>4. /\ ToPut' = ToPut /\ Current' = Current /\ Size' = Size
  BY <1>1, <1>2 DEF SendInv, Sending, ToPut, Current, Size
<1>5. Sending'
  BY <1>1, <1>2, <1>3, <1>4 DEF SendInv, Sending
<1>6. Loaded'
  <2>1. ToPut > 0 => pc = "check"
    BY <1>1, <1>2 DEF ToPut
  <2> QED BY <1>1, <1>2, <1>4, <2>1 DEF SendInv, Loaded
<1>7. Reached'
  BY <1>1, <1>4 DEF SendInv, Reached
<1>8. AllBegun'
  <2>1. MainBegun' = MainBegun /\ EventsBegun' = EventsBegun
    BY <1>1, <1>3, <1>4 DEF MainBegun, EventsBegun
  <2> QED BY <1>1, <2>1 DEF SendInv, AllBegun
<1> QED BY <1>1, <1>5, <1>6, <1>7, <1>8 DEF SendInv

LEMMA EventPutsStep ==
  ASSUME Types, Types', SendInv, EventPuts
  PROVE  SendInv'
<1>1. /\ isr # "off" /\ isr' = isr /\ events' = events /\ packets' = packets /\ pc' = pc
      /\ transmitBuffer' = transmitBuffer /\ pc \in {"fill", "check"}
      /\ bytesLeftToSend > 0 /\ bytesLeftToSend' = bytesLeftToSend - 1
      /\ bytesSentSoFar' = (bytesSentSoFar + 1) % Modulus
  BY DEF EventPuts, InEvent, SendInv, Sending
<1>2. /\ ToPut = bytesLeftToSend /\ ToPut' = ToPut - 1 /\ Current' = Current /\ Size' = Size
      /\ Size \in {PacketBytes, EventBytes} /\ ToPut \in 1 .. Size
  BY <1>1, Sizes, Constants DEF SendInv, Sending, ToPut, Current, Size, Event
<1>3. /\ bytesSentSoFar = Size - ToPut
      /\ \A k \in 0 .. Size - 1 : transmitBuffer[k] = [of |-> Current, at |-> k]
  BY <1>1, <1>2 DEF SendInv, Loaded
<1>4. bytesSentSoFar \in 0 .. Size - 1 /\ bytesSentSoFar < Longest
  BY <1>2, <1>3, Constants DEF Longest
<1>5. bytesSentSoFar' = bytesSentSoFar + 1
  <2>1. bytesSentSoFar \in 0 .. Modulus - 1 /\ bytesSentSoFar + 1 < Modulus
    BY <1>2, <1>4, Constants
  <2> QED BY <1>1, <2>1, NextCount, Constants
<1>6. ByteAt(bytesSentSoFar) = [of |-> Current, at |-> Size - ToPut]
  BY <1>3, <1>4 DEF ByteAt
<1>7. ByteAt(bytesSentSoFar) \in Bytes
  <2>1. bytesSentSoFar \in Nat
    BY Constants DEF Types
  <2> QED BY <2>1, ByteAtType DEF Types
<1>8. Stream' = Append(Stream, ByteAt(bytesSentSoFar))
  <2>1. /\ wire' = wire /\ tx_buffer_tail' = tx_buffer_tail
        /\ After(tx_buffer_head) # tx_buffer_tail
        /\ tx_buffer_head' = After(tx_buffer_head)
        /\ tx_buffer' = [tx_buffer EXCEPT ![After(tx_buffer_head)] = ByteAt(bytesSentSoFar)]
    BY DEF EventPuts, InEvent
  <2> QED BY <1>7, <2>1, PutStream
<1>9. Reached' /\ AllBegun' /\ Good(Stream')
  BY <1>1, <1>2, <1>6, <1>7, <1>8, PutStep
<1>10. Sending'
  BY <1>1, <1>2, Constants DEF SendInv, Sending
<1>11. Loaded'
  BY <1>1, <1>2, <1>3, <1>5, Constants DEF Loaded
<1> QED BY <1>9, <1>10, <1>11 DEF SendInv

LEMMA EventStartsStep ==
  ASSUME Types, Types', SendInv, EventStarts
  PROVE  SendInv'
<1>1. /\ isr = "drain" /\ isr' = "send" /\ events' = events /\ packets' = packets /\ pc' = pc
      /\ transmitBuffer' = Filled(Event(events)) /\ pc \in {"fill", "check"} /\ events > 0
      /\ bytesLeftToSend = 0 /\ bytesLeftToSend' = EventBytes /\ bytesSentSoFar' = 0
      /\ Stream' = Stream
  BY StreamSame DEF EventStarts, InEvent, SendInv, Sending, ring
<1>2. /\ ToPut = 0 /\ ToPut' = EventBytes /\ Current' = Event(events)
      /\ LengthOf(Event(events)) = EventBytes /\ Size' = EventBytes
      /\ events \in Nat /\ Event(events) > 0
  BY <1>1, Sizes, Constants DEF ToPut, Current, Size, Event
<1>3. Sending'
  BY <1>1, <1>2, Constants DEF Sending
<1>4. Loaded'
  <2>1. \A k \in 0 .. EventBytes - 1 : transmitBuffer'[k] = [of |-> Event(events), at |-> k]
    BY <1>1, <1>2, Constants DEF Filled, Longest
  <2>2. bytesSentSoFar' = Size' - ToPut'
    BY <1>1, <1>2, Constants
  <2>3. pc' \notin {"wait", "store", "count"}
    BY <1>1
  <2>4. \A k \in 0 .. Size' - 1 : transmitBuffer'[k] = [of |-> Current', at |-> k]
    BY <1>2, <2>1
  <2> QED BY <2>2, <2>3, <2>4 DEF Loaded
<1>5. Reached'
  BY <1>1, <1>2 DEF SendInv, Reached
<1>6. AllBegun'
  <2>1. MainBegun' = MainBegun /\ EventsBegun' = EventsBegun
    BY <1>1, <1>2, Constants DEF MainBegun, EventsBegun
  <2> QED BY <1>1, <2>1 DEF SendInv, AllBegun
<1> QED BY <1>1, <1>3, <1>4, <1>5, <1>6 DEF SendInv

LEMMA EventEndsStep ==
  ASSUME Types, Types', SendInv, EventEnds
  PROVE  SendInv'
<1>1. /\ isr = "send" /\ isr' = "off" /\ events' = events /\ packets' = packets /\ pc' = pc
      /\ pc \in {"fill", "check"} /\ bytesLeftToSend = 0 /\ bytesLeftToSend' = 0
      /\ Stream' = Stream
  BY StreamSame DEF EventEnds, InEvent, send, SendInv, Sending, ring
<1>2. /\ ToPut = 0 /\ ToPut' = 0 /\ Current' = packets /\ Size' = PacketBytes
  BY <1>1, Sizes DEF ToPut, Current, Size
<1>3. Sending'
  BY <1>1, <1>2, Constants DEF Sending
<1>4. Loaded'
  BY <1>1, <1>2 DEF Loaded
<1>5. Reached'
  BY <1>1, <1>2 DEF SendInv, Reached
<1>6. AllBegun'
  <2>1. MainBegun' = MainBegun /\ EventsBegun' = EventsBegun
    BY <1>1, <1>2, Constants DEF MainBegun, EventsBegun
  <2> QED BY <1>1, <2>1 DEF SendInv, AllBegun
<1> QED BY <1>1, <1>3, <1>4, <1>5, <1>6 DEF SendInv

(* The UART only makes room.                                               *)
LEMMA TransmitStep ==
  ASSUME Types, Types', SendInv, Transmit
  PROVE  SendInv'
<1>1. /\ UNCHANGED <<send, tx_buffer, tx_buffer_head, pc, c, i, packets, isr, events>>
      /\ tx_buffer_tail # tx_buffer_head /\ tx_buffer_tail' = After(tx_buffer_tail)
  BY DEF Transmit
<1>2. Stream' = Stream
  BY TransmitStream
<1>3. ToPut' = ToPut /\ Current' = Current /\ Size' = Size
  BY <1>1 DEF ToPut, Current, Size, send
<1>4. Sending'
  BY <1>1, <1>3 DEF SendInv, Sending, send
<1>5. Loaded'
  <2>1. pc = "store" => tx_buffer_tail' # i
    <3>1. pc = "store" => i = After(tx_buffer_head)
      BY DEF SendInv, Loaded
    <3>2. After(tx_buffer_tail) # After(tx_buffer_head)
      BY <1>1, Constants DEF Types, After, Slots
    <3> QED BY <1>1, <3>1, <3>2
  <2> QED BY <1>1, <1>3, <2>1 DEF SendInv, Loaded, send
<1>6. Reached' /\ AllBegun'
  BY <1>1, <1>2, <1>3 DEF SendInv, Reached, AllBegun, MainBegun, EventsBegun
<1> QED BY <1>2, <1>4, <1>5, <1>6 DEF SendInv

-----------------------------------------------------------------------------
LEMMA InitWhole == Init => Whole
<1> SUFFICES ASSUME Init PROVE SendInv
  BY DEF Whole
<1>1. /\ isr = "off" /\ pc = "fill" /\ bytesLeftToSend = 0 /\ packets = 0 /\ events = 0
      /\ wire = <<>> /\ Held = 0
  BY DEF Init, Held
<1>2. Stream = <<>>
  BY <1>1 DEF Stream
<1>3. ToPut = 0 /\ Current = 0 /\ Size = PacketBytes
  BY <1>1, Constants DEF ToPut, Current, Size, LengthOf
<1>4. Sending /\ Loaded /\ Reached
  BY <1>1, <1>2, <1>3, Constants DEF Sending, Loaded, Reached, AtEnd
<1>5. StartsOf(Stream) = {} /\ Begun(Stream) = {}
  BY <1>2 DEF StartsOf, Begun
<1>6. AllBegun
  BY <1>1, <1>3, <1>5, Constants DEF AllBegun, MainBegun, EventsBegun
<1>7. Good(Stream)
  BY <1>2, <1>5 DEF Good, Framed, Once, Ordered
<1> QED BY <1>4, <1>6, <1>7 DEF SendInv

LEMMA StepWhole == Types /\ Types' /\ Whole /\ [Next]_vars => Whole'
<1> SUFFICES ASSUME Types, Types', Whole, [Next]_vars, ~clash' PROVE SendInv'
  BY DEF Whole
<1>1. ~clash
  BY DEF Next, MainNext, Handler, Fill, StartSend, Restart, Check, Load, Wait, Store, Count,
         Main, Interrupt, EventPuts, EventStarts, EventEnds, Transmit, InEvent, history, vars
<1>2. SendInv
  BY <1>1 DEF Whole
<1>3. CASE UNCHANGED vars
  BY <1>2, <1>3, StreamSame DEF vars, send, ring, history, SendInv, Sending, Loaded, Reached, AllBegun,
     ToPut, Current, Size, MainBegun, EventsBegun
<1>4. CASE MainNext
  BY <1>2, <1>4, FillStep, StartStep, CheckStep, StoreStep, CountStep DEF MainNext
<1>5. CASE Interrupt \/ Handler \/ Transmit
  BY <1>2, <1>5, InterruptStep, EventPutsStep, EventStartsStep, EventEndsStep, TransmitStep
     DEF Handler
<1> QED BY <1>3, <1>4, <1>5 DEF Next

(* The bytes on the wire are whole packets, main's in order and none twice,*)
(* for every size of the ring and every time a cable is plugged in or out, *)
(* unless one of those times fell between two accesses of main's send that *)
(* the handler undoes (simulator.c:322-360).                               *)
THEOREM PacketsWhole == Spec => []WirePackets
<1>1. Whole /\ Types => WirePackets
  <2>1. SendInv /\ Types => WirePackets
    BY GoodWire, GoodIsWirePackets DEF SendInv
  <2>2. clash => WirePackets
    BY DEF WirePackets
  <2> QED BY <2>1, <2>2 DEF Whole
<1>2. Spec => []Types
  BY InitTypes, StepTypes, PTL DEF Spec
<1>3. Spec => []Whole
  BY <1>2, InitWhole, StepWhole, PTL DEF Spec
<1> QED BY <1>1, <1>2, <1>3, PTL
====
