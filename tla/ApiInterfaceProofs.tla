-------------------------- MODULE ApiInterfaceProofs --------------------------
(***************************************************************************)
(* Proofs about ApiInterface for every size of banks, rings and packets:   *)
(* towards the simulator nothing is lost, added or reordered; towards the  *)
(* PC every packet is handled whole, alone and in order until one of the   *)
(* four things has happened that the code has no answer to; and the types. *)
(***************************************************************************)
EXTENDS ApiInterface, TLAPS, SequenceTheorems, FiniteSetTheorems

DownByte == [of : Nat, at : Nat]
First    == [of |-> 1, at |-> 1]
Chain(s) == \A k \in 1 .. Len(s) - 1 : Follows(s[k], s[k + 1])

(* The byte put last, and the one that must have been. *)
Latest == IF tx # <<>> THEN tx[Len(tx)] ELSE wire[Len(wire)]
Reached(p, n) ==
  IF p = 0 THEN tx = <<>> /\ wire = <<>>
  ELSE (tx # <<>> \/ wire # <<>>) /\ Latest = [of |-> p, at |-> n]

Offered ==
  /\ writes \in Nat /\ offered \in {0, writes}
  /\ offered # 0 => writes > 0

(* How far the loop is: all that was read is put, but for the packet of    *)
(* which bytesSentSoFar bytes are.                                         *)
Progress ==
  IF pc = "put" THEN /\ bytesSentSoFar \in 0 .. DownBytes /\ ReadLast > 0
                     /\ IF bytesSentSoFar = 0 THEN Reached(ReadLast - 1, DownBytes)
                                              ELSE Reached(ReadLast, bytesSentSoFar)
                ELSE Reached(ReadLast, DownBytes)

(* The ring goes on where the wire ends. *)
Joined ==
  tx # <<>> => IF wire = <<>> THEN tx[1] = First ELSE Follows(wire[Len(wire)], tx[1])

DownTypes == tx \in Seq(DownByte) /\ wire \in Seq(DownByte)
DownInv == Offered /\ DownTypes /\ Progress /\ Joined /\ Chain(tx) /\ DownInOrder

LEMMA Sizes == DownBytes \in Nat /\ DownBytes > 0 /\ MaxDown \in Nat
BY ApiAssumption

LEMMA InitDown == Init => DownInv
<1> SUFFICES ASSUME Init PROVE DownInv
  OBVIOUS
<1> USE DEF Init
<1>1. Offered /\ DownTypes
  BY DEF Offered, DownTypes
<1>2. Progress /\ Joined
  BY DEF Progress, Reached, ReadLast, Joined
<1>3. Chain(tx) /\ DownInOrder
  BY DEF Chain, DownInOrder
<1> QED BY <1>1, <1>2, <1>3 DEF DownInv

-----------------------------------------------------------------------------
LEMMA StartWriteDown == DownInv /\ StartWrite => DownInv'
<1> SUFFICES ASSUME DownInv, StartWrite PROVE DownInv'
  OBVIOUS
<1> USE DEF DownInv
<1>1. /\ offered = 0 /\ writes' = writes + 1 /\ offered' = writes + 1
      /\ tx' = tx /\ wire' = wire /\ pc' = pc /\ bytesSentSoFar' = bytesSentSoFar
  BY DEF StartWrite, down, simSide
<1>2. Offered' /\ ReadLast' = ReadLast
  BY <1>1 DEF Offered, ReadLast
<1>3. DownTypes' /\ Progress' /\ Joined' /\ Chain(tx)' /\ DownInOrder'
  BY <1>1, <1>2 DEF DownTypes, Progress, Reached, Latest, Joined, Chain, DownInOrder
<1> QED BY <1>2, <1>3

LEMMA ReadOutDown == DownInv /\ ReadOut => DownInv'
<1> SUFFICES ASSUME DownInv, ReadOut PROVE DownInv'
  OBVIOUS
<1> USE DEF DownInv
<1>1. /\ pc = "out" /\ offered # 0 /\ offered' = 0 /\ bytesSentSoFar' = 0 /\ pc' = "put"
      /\ writes' = writes /\ tx' = tx /\ wire' = wire
  BY DEF ReadOut, simSide
<1>2. Offered' /\ ReadLast' = ReadLast + 1 /\ ReadLast \in Nat
  BY <1>1 DEF Offered, ReadLast
<1>3. Progress'
  BY <1>1, <1>2, Sizes DEF Progress, Reached, Latest
<1>4. DownTypes' /\ Joined' /\ Chain(tx)' /\ DownInOrder'
  BY <1>1 DEF DownTypes, Joined, Chain, DownInOrder
<1> QED BY <1>2, <1>3, <1>4

(* The byte after the latest is put. *)
LEMMA PutCharDown == DownInv /\ PutChar => DownInv'
<1> SUFFICES ASSUME DownInv, PutChar PROVE DownInv'
  OBVIOUS
<1> USE DEF DownInv
<1> DEFINE b == [of |-> ReadLast, at |-> bytesSentSoFar + 1]
<1>1. /\ pc = "put" /\ bytesSentSoFar < DownBytes /\ bytesSentSoFar' = bytesSentSoFar + 1
      /\ tx' = Append(tx, b) /\ offered' = offered /\ writes' = writes /\ pc' = pc /\ wire' = wire
  BY DEF PutChar, pcSide, simSide
<1>2. /\ Offered' /\ ReadLast' = ReadLast /\ ReadLast \in Nat /\ ReadLast > 0
      /\ bytesSentSoFar \in Nat
  BY <1>1, Sizes DEF Offered, ReadLast, Progress
<1>3. b \in DownByte
  BY <1>2 DEF DownByte
<1>4. DownTypes' /\ Len(tx') = Len(tx) + 1 /\ tx'[Len(tx) + 1] = b /\ Len(tx) \in Nat
      /\ \A k \in 1 .. Len(tx) : tx'[k] = tx[k]
  BY <1>1, <1>3 DEF DownTypes
<1>5. IF tx = <<>> /\ wire = <<>> THEN b = First ELSE Follows(Latest, b)
  <2>1. CASE bytesSentSoFar = 0
    <3>1. Reached(ReadLast - 1, DownBytes)
      BY <1>1, <2>1 DEF Progress
    <3>2. CASE ReadLast = 1
      BY <2>1, <3>1, <3>2 DEF Reached, First
    <3>3. CASE ReadLast # 1
      <4>1. Latest = [of |-> ReadLast - 1, at |-> DownBytes] /\ ~(tx = <<>> /\ wire = <<>>)
        BY <1>2, <3>1, <3>3 DEF Reached
      <4> QED BY <1>2, <2>1, <4>1, Sizes DEF Follows
    <3> QED BY <3>2, <3>3
  <2>2. CASE bytesSentSoFar # 0
    BY <1>1, <1>2, <2>2, Sizes DEF Progress, Reached, Follows, First
  <2> QED BY <2>1, <2>2
<1>6. Progress'
  BY <1>1, <1>2, <1>4, Sizes DEF Progress, Reached, Latest
<1>7. Joined'
  BY <1>1, <1>4, <1>5 DEF Joined, Latest, DownTypes
<1>8. Chain(tx')
  BY <1>1, <1>4, <1>5 DEF Chain, Latest, DownTypes
<1>9. DownInOrder'
  BY <1>1 DEF DownInOrder
<1> QED BY <1>2, <1>4, <1>6, <1>7, <1>8, <1>9

(* A byte goes from the ring to the wire. *)
LEMMA ShiftDown ==
  ASSUME DownInv, Shift, UNCHANGED <<offered, writes, pc, bytesSentSoFar>>
  PROVE  DownInv'
<1> USE DEF DownInv
<1>1. CASE tx = <<>>
  BY <1>1 DEF Shift, Offered, DownTypes, Progress, Reached, ReadLast, Latest, Joined, Chain,
              DownInOrder
<1>2. CASE tx # <<>>
  <2>1. tx' = Tail(tx) /\ wire' = Append(wire, tx[1])
    BY <1>2 DEF Shift
  <2>2. /\ DownTypes' /\ Len(tx) \in Nat /\ Len(tx) > 0 /\ Len(wire) \in Nat
        /\ Len(tx') = Len(tx) - 1 /\ \A k \in 1 .. Len(tx) - 1 : tx'[k] = tx[k + 1]
        /\ Len(wire') = Len(wire) + 1 /\ wire'[Len(wire) + 1] = tx[1]
        /\ \A k \in 1 .. Len(wire) : wire'[k] = wire[k]
    BY <1>2, <2>1 DEF DownTypes
  <2>3. Latest' = Latest /\ wire' # <<>>
    BY <1>2, <2>1, <2>2 DEF Latest, DownTypes
  <2>4. Progress'
    BY <1>2, <2>3 DEF Progress, Reached, ReadLast
  <2>5. Joined'
    BY <1>2, <2>2, <2>3 DEF Joined, Chain, DownTypes
  <2>6. Chain(tx')
    BY <2>2 DEF Chain
  <2>7. DownInOrder'
    <3>1. wire'[1] = First
      BY <1>2, <2>2 DEF DownInOrder, Joined, First
    <3>2. \A k \in 1 .. Len(wire') - 1 : Follows(wire'[k], wire'[k + 1])
      <4> TAKE k \in 1 .. Len(wire') - 1
      <4>1. CASE k < Len(wire)
        <5>1. k \in 1 .. Len(wire) - 1 /\ k \in 1 .. Len(wire) /\ k + 1 \in 1 .. Len(wire)
          BY <2>2, <4>1
        <5> QED BY <2>2, <5>1 DEF DownInOrder
      <4>2. CASE k >= Len(wire)
        <5>1. k = Len(wire) /\ k \in 1 .. Len(wire) /\ wire # <<>>
          BY <2>2, <4>2
        <5> QED BY <1>2, <2>2, <5>1 DEF Joined
      <4> QED BY <2>2, <4>1, <4>2
    <3> QED BY <3>1, <3>2 DEF DownInOrder, First
  <2> QED BY <2>2, <2>4, <2>5, <2>6, <2>7 DEF Offered
<1> QED BY <1>1, <1>2

(* Everything else leaves the way down alone. *)
way == <<offered, writes, tx, wire>>

LEMMA WayUnchanged ==
  ASSUME DownInv, UNCHANGED way,
         \/ pc' = pc /\ bytesSentSoFar' = bytesSentSoFar
         \/ pc # "put" /\ pc' # "put"
         \/ pc = "put" /\ pc' # "put" /\ bytesSentSoFar = DownBytes
  PROVE  DownInv'
<1> USE DEF DownInv, way
<1>1. Offered' /\ DownTypes' /\ Joined' /\ Chain(tx)' /\ DownInOrder'
  BY DEF Offered, DownTypes, Joined, Chain, DownInOrder
<1>2. Progress'
  BY Sizes DEF Progress, Reached, ReadLast, Latest
<1> QED BY <1>1, <1>2

LEMMA DownStep == DownInv /\ [Next]_vars => DownInv'
<1> SUFFICES ASSUME DownInv, [Next]_vars PROVE DownInv'
  OBVIOUS
<1>1. CASE StartWrite  BY <1>1, StartWriteDown
<1>2. CASE HostReadsIn \/ Callback \/ Restart
  BY <1>2, WayUnchanged DEF HostReadsIn, Callback, Restart, pcSide, down, simSide, way
<1>3. CASE SendReceive_Task
  <2>1. CASE ReadOut  BY <2>1, ReadOutDown
  <2>2. CASE PutChar  BY <2>2, PutCharDown
  <2>3. CASE PutAll
    BY <2>3, WayUnchanged DEF PutAll, pcSide, down, simSide, way
  <2>4. CASE ReceiveLength \/ Receive \/ NothingToReceive \/ CheckTimeout
    BY <2>4, WayUnchanged
       DEF ReceiveLength, Receive, NothingToReceive, CheckTimeout, AtSerial, pcSide, down, simSide,
           way
  <2>5. CASE SendUp \/ NothingToSendUp \/ WriteStream \/ StreamTimeout
    BY <2>5, WayUnchanged
       DEF SendUp, NothingToSendUp, WriteStream, StreamTimeout, FillBank, pcSide, down, simSide, way
  <2> QED BY <1>3, <2>1, <2>2, <2>3, <2>4, <2>5 DEF SendReceive_Task
<1>4. CASE Tick
  BY <1>4, ShiftDown DEF Tick, TickOnly, TickBegins, TickGoesOn, pcSide
<1>5. CASE UNCHANGED vars
  BY <1>5, WayUnchanged DEF vars, pcSide, down, simSide, way
<1> QED BY <1>1, <1>2, <1>3, <1>4, <1>5 DEF Next

(* Whatever goes up meanwhile, is lost or times out, the simulator receives*)
(* the PC's packets byte for byte in order (api_interface.c:64-96).        *)
THEOREM DownwardFaithful == Spec => []DownInOrder
<1>1. Init => DownInv                   BY InitDown
<1>2. DownInv /\ [Next]_vars => DownInv'  BY DownStep
<1>3. DownInv => DownInOrder            BY DEF DownInv
<1> QED BY <1>1, <1>2, <1>3, PTL DEF Spec

-----------------------------------------------------------------------------
(* The types, with what keeps the lengths in range: the buffer has no more *)
(* than a packet, what is in the ring belongs to packets that were begun,  *)
(* and bytesProcessed counts only inside a write.                          *)
UpTypes ==
  /\ pc \in {"out", "put", "serial", "up", "write"}
  /\ rx \in Seq(UpBytes) /\ Len(rx) <= RX_ROOM
  /\ receiveBuffer \in Seq(UpBytes) /\ bytesWaiting \in 0 .. Longest - 2
  /\ Len(receiveBuffer) + bytesWaiting <= Longest
  /\ receiveBuffer = <<>> => bytesWaiting = 0
  /\ bytesProcessed \in 0 .. Len(receiveBuffer)
  /\ pc = "write" => Complete /\ bytesProcessed > 0 /\ bytesProcessed < Len(receiveBuffer)
  /\ bytesProcessed > 0 => pc = "write"
  /\ bank \in Seq(UpBytes) /\ Len(bank) <= BANK
  /\ lengths \in Seq(UpLengths) /\ Len(lengths) <= MaxUp
  /\ sent \in Nat
  /\ lengths = <<>> => sent = 0
  /\ lengths # <<>> => sent >= 1 /\ sent <= lengths[Len(lengths)]
  /\ \A k \in 1 .. Len(rx) : rx[k].of <= Len(lengths)
  /\ abandoned \subseteq 1 .. Len(lengths) /\ harm \subseteq Damage
  /\ reader \in {"reading", "callback"}
  /\ transfer \in Seq(UpBytes) /\ handled \in Seq(Seq(UpBytes))

(* What has arrived and is not yet in the IN endpoint.                     *)
Arrived == receiveBuffer \o rx
Begun == Len(lengths)

(* It is one packet after the other, each from its first byte on, up to    *)
(* the byte that was sent last; only the last packet may be abandoned.     *)
Run ==
  \A i, j \in 1 .. Len(Arrived) :
    LET n == lengths[Arrived[i].of] - Arrived[i].at IN
      /\ i <= j /\ j - i <= n => Arrived[j] = [of |-> Arrived[i].of, at |-> Arrived[i].at + j - i]
      /\ j - i = n + 1 => Arrived[j] = [of |-> Arrived[i].of + 1, at |-> 1]
InStep ==
  /\ \A i \in 1 .. Len(Arrived) :
       /\ Arrived[i].of \in 1 .. Begun /\ Arrived[i].at \in 1 .. lengths[Arrived[i].of]
       /\ Arrived[i].of \in abandoned => Arrived[i].of = Begun
  /\ Arrived # <<>> => /\ Arrived[1].at = 1
                       /\ Arrived[Len(Arrived)] = [of |-> Begun, at |-> sent]
  /\ Arrived = <<>> => Silent
  /\ Begun \in abandoned => sent >= 2 /\ sent < lengths[Begun]
  /\ receiveBuffer # <<>> =>
       Len(receiveBuffer) + bytesWaiting = lengths[Arrived[1].of]

(* The packet that comes next, and those that came before it.              *)
Coming == IF Arrived = <<>> THEN Begun + 1 ELSE Arrived[1].of
Passed == {p \in Finished : p < Coming}
IsNth(p, n) == p \in Passed /\ Cardinality({q \in Finished : q <= p}) = n

(* What the reader and the IN endpoint have of a packet; and how many they *)
(* have had, handled or not.                                               *)
Current == IF reader = "callback" THEN bank ELSE transfer \o bank
InCallback == IF reader = "callback" THEN 1 ELSE 0
Whole == pc # "write" /\ bank # <<>>
InBank == IF Whole THEN 1 ELSE 0
Delivered ==
  /\ Cardinality(Passed) = Len(handled) + InCallback + InBank
  /\ \A n \in 1 .. Len(handled) : \E p \in Passed : IsNth(p, n) /\ handled[n] = Packet(p)
  /\ reader = "callback" => \E p \in Passed : IsNth(p, Len(handled) + 1) /\ transfer = Packet(p)
  /\ Whole => /\ Len(bank) < BANK
              /\ \E p \in Passed : IsNth(p, Len(handled) + InCallback + 1) /\ Current = Packet(p)
  /\ ~Whole => /\ bank # <<>> => Len(bank) = BANK
               /\ Current = SubSeq(receiveBuffer, 1, bytesProcessed)
Undamaged == harm = {} => Run /\ InStep /\ Delivered

LEMMA UpSizes ==
  /\ Longest \in UpLengths /\ Longest \in Nat
  /\ \A n \in UpLengths : n \in Nat /\ n >= 3 /\ n <= Longest
  /\ MaxUp \in Nat /\ MaxDown \in Nat /\ BANK \in Nat /\ BANK >= 1 /\ TX_ROOM \in Nat
  /\ RX_ROOM \in Nat /\ RX_ROOM >= 2
<1>1. UpLengths \subseteq Nat \ {0, 1, 2} /\ \E n \in UpLengths : \A m \in UpLengths : m <= n
  BY ApiAssumption
<1>2. Longest \in UpLengths /\ \A m \in UpLengths : m <= Longest
  BY <1>1 DEF Longest
<1>3. \A n \in UpLengths : n \in Nat /\ n >= 3
  <2>1. \A n \in Nat \ {0, 1, 2} : n \in Nat /\ n >= 3
    OBVIOUS
  <2> QED BY <1>1, <2>1
<1>4. MaxUp \in Nat /\ MaxDown \in Nat /\ BANK \in Nat /\ BANK >= 1 /\ TX_ROOM \in Nat
  BY ApiAssumption
<1>5. RX_ROOM \in Nat /\ RX_ROOM >= 2
  BY ApiAssumption
<1> QED BY <1>2, <1>3, <1>4, <1>5

(* A part of a sequence. *)
LEMMA Part ==
  ASSUME NEW S, NEW s \in Seq(S), NEW m \in Nat, NEW n \in Nat, m >= 1, m <= n + 1, n <= Len(s)
  PROVE  /\ SubSeq(s, m, n) \in Seq(S) /\ Len(SubSeq(s, m, n)) = n + 1 - m
         /\ \A i \in 1 .. n + 1 - m : SubSeq(s, m, n)[i] = s[m + i - 1]
<1>1. \A i \in m .. n : s[i] \in S
  <2> SUFFICES ASSUME NEW i \in m .. n PROVE s[i] \in S
    OBVIOUS
  <2>1. i \in 1 .. Len(s)
    OBVIOUS
  <2> QED BY <2>1, ElementOfSeq
<1>2. /\ SubSeq(s, m, n) \in Seq(S)
      /\ Len(SubSeq(s, m, n)) = IF m <= n THEN n - m + 1 ELSE 0
      /\ \A i \in 1 .. n - m + 1 : SubSeq(s, m, n)[i] = s[m + i - 1]
  BY <1>1, SubSeqProperties
<1>3. n - m + 1 = n + 1 - m /\ (~(m <= n) => n + 1 - m = 0)
  OBVIOUS
<1> QED BY <1>2, <1>3

LEMMA LengthSaid ==
  ASSUME UpTypes, LengthReady, NEW n \in LengthIn(rx[1], rx[2])
  PROVE  n \in Nat /\ n >= 1 /\ n <= Longest - 2
<1>1. /\ 1 \in 1 .. Len(rx) /\ lengths \in Seq(UpLengths) /\ rx \in Seq(UpBytes)
      /\ \A k \in 1 .. Len(rx) : rx[k].of <= Len(lengths)
  BY DEF UpTypes, LengthReady
<1>2. rx[1] \in UpBytes /\ rx[1].of <= Len(lengths)
  BY <1>1, ElementOfSeq
<1>3. rx[1].of \in 1 .. Len(lengths)
  BY <1>1, <1>2 DEF UpBytes
<1>4. lengths[rx[1].of] \in UpLengths
  BY <1>1, <1>3, ElementOfSeq
<1>5. \E l \in UpLengths : n = l - 2
  BY <1>4 DEF LengthIn
<1> QED BY <1>5, UpSizes

(* What the UART puts into the ring. *)
LEMMA ArriveTypes ==
  ASSUME UpTypes, NEW b \in UpBytes, Arrive(b)
  PROVE  /\ rx' \in Seq(UpBytes) /\ Len(rx') <= RX_ROOM /\ harm' \subseteq Damage
         /\ \A k \in 1 .. Len(rx') : (k \in 1 .. Len(rx) /\ rx'[k] = rx[k]) \/ rx'[k] = b
<1>1. rx \in Seq(UpBytes) /\ Len(rx) \in Nat /\ Len(rx) <= RX_ROOM /\ RX_ROOM \in Nat /\ harm \subseteq Damage
  BY UpSizes DEF UpTypes
<1>2. CASE rx' = rx
  BY <1>1, <1>2 DEF Arrive, Damage
<1>3. CASE Len(rx) < RX_ROOM /\ rx' = Append(rx, b) /\ harm' = harm
  <2>1. /\ rx' \in Seq(UpBytes) /\ Len(rx') = Len(rx) + 1 /\ rx'[Len(rx) + 1] = b
        /\ \A i \in 1 .. Len(rx) : rx'[i] = rx[i]
    BY <1>1, <1>3, AppendProperties
  <2>2. \A k \in 1 .. Len(rx) + 1 : k \in 1 .. Len(rx) \/ k = Len(rx) + 1
    BY <1>1
  <2> QED BY <1>1, <1>3, <2>1, <2>2
<1> QED BY <1>2, <1>3 DEF Arrive

LEMMA FillBankTypes ==
  ASSUME UpTypes, Complete, FillBank, UNCHANGED <<pcSide, rx, bytesWaiting, simSide>>,
         pc \in {"up", "out", "write"}
  PROVE  UpTypes'
<1>1. /\ receiveBuffer \in Seq(UpBytes) /\ Len(receiveBuffer) \in Nat /\ Len(receiveBuffer) >= 1
      /\ bytesProcessed \in 0 .. Len(receiveBuffer) /\ bytesWaiting = 0
      /\ bytesProcessed < Len(receiveBuffer)
      /\ BANK \in Nat /\ BANK >= 1
  BY UpSizes DEF UpTypes, Complete
<1> DEFINE n == Least(BANK, Left)
<1>2. /\ n \in Nat /\ n >= 1 /\ n <= BANK /\ n <= Left /\ Left \in Nat /\ bytesProcessed + n <= Len(receiveBuffer)
      /\ Left + bytesProcessed = Len(receiveBuffer)
  BY <1>1 DEF Least, Left
<1>3. /\ bank' = SubSeq(receiveBuffer, bytesProcessed + 1, bytesProcessed + n)
      /\ IF n < Left
         THEN bytesProcessed' = bytesProcessed + n /\ pc' = "write" /\ UNCHANGED <<receiveBuffer, harm>>
         ELSE receiveBuffer' = <<>> /\ bytesProcessed' = 0 /\ pc' = "out"
              /\ harm' = IF n = BANK THEN harm \cup {"full bank"} ELSE harm
  BY DEF FillBank
<1> HIDE DEF n
<1>4. bank' \in Seq(UpBytes) /\ Len(bank') <= BANK
  <2>1. /\ bytesProcessed + 1 \in Nat /\ bytesProcessed + n \in Nat /\ bytesProcessed + 1 >= 1
        /\ bytesProcessed + 1 <= bytesProcessed + n + 1
        /\ bytesProcessed + n + 1 - (bytesProcessed + 1) = n
    BY <1>1, <1>2
  <2>2. /\ SubSeq(receiveBuffer, bytesProcessed + 1, bytesProcessed + n) \in Seq(UpBytes)
        /\ Len(SubSeq(receiveBuffer, bytesProcessed + 1, bytesProcessed + n))
             = bytesProcessed + n + 1 - (bytesProcessed + 1)
    BY <1>1, <1>2, <2>1, Part
  <2> QED BY <1>2, <1>3, <2>1, <2>2
<1>5. CASE n < Left
  <2>1. bytesProcessed' \in 0 .. Len(receiveBuffer) /\ bytesProcessed' > 0 /\ bytesProcessed' < Len(receiveBuffer)
    BY <1>1, <1>2, <1>3, <1>5
  <2>2. pc' = "write" /\ UNCHANGED <<receiveBuffer, bytesWaiting, harm, rx, lengths, sent, abandoned>>
        /\ UNCHANGED <<reader, transfer, handled>>
    BY <1>3, <1>5 DEF pcSide, simSide
  <2>3. Complete'
    BY <2>2 DEF Complete
  <2> QED BY <1>4, <2>1, <2>2, <2>3 DEF UpTypes
<1>6. CASE ~(n < Left)
  <2>1. /\ receiveBuffer' = <<>> /\ bytesProcessed' = 0 /\ pc' = "out" /\ harm' \subseteq Damage
    BY <1>3, <1>6 DEF UpTypes, Damage
  <2>2. receiveBuffer' \in Seq(UpBytes) /\ Len(receiveBuffer') = 0 /\ Longest \in Nat
    BY <2>1, EmptySeq, UpSizes
  <2> QED BY <1>1, <1>4, <2>1, <2>2 DEF UpTypes, Complete, pcSide, simSide
<1> QED BY <1>5, <1>6

(* The packet that is being sent goes on, or a new one begins.             *)
LEMMA TickTypes == UpTypes /\ Tick => UpTypes'
<1> SUFFICES ASSUME UpTypes, Tick PROVE UpTypes'
  OBVIOUS
<1>0. /\ lengths \in Seq(UpLengths) /\ Len(lengths) \in Nat /\ Len(lengths) <= MaxUp /\ MaxUp \in Nat
      /\ sent \in Nat /\ Longest \in Nat
      /\ UNCHANGED <<pcSide, pc, bytesSentSoFar, up, bank, abandoned>>
  BY UpSizes DEF UpTypes, Tick, TickOnly, TickBegins, TickGoesOn
<1>1. CASE TickOnly
  BY <1>0, <1>1 DEF TickOnly, UpTypes, Complete, pcSide, up
<1>2. CASE TickBegins
  <2>1. PICK n \in UpLengths : lengths' = Append(lengths, n)
    BY <1>2 DEF TickBegins
  <2>2. /\ sent' = 1 /\ Arrive([of |-> Len(lengths) + 1, at |-> 1]) /\ Len(lengths) < MaxUp
    BY <1>2 DEF TickBegins
  <2>3. /\ lengths' \in Seq(UpLengths) /\ Len(lengths') = Len(lengths) + 1 /\ lengths'[Len(lengths) + 1] = n
    BY <1>0, <2>1, AppendProperties
  <2>4. [of |-> Len(lengths) + 1, at |-> 1] \in UpBytes
    <3>1. Len(lengths) + 1 \in 1 .. MaxUp /\ 1 \in 1 .. Longest
      BY <1>0, <2>2, UpSizes
    <3> QED BY <3>1 DEF UpBytes
  <2>5. /\ rx' \in Seq(UpBytes) /\ Len(rx') <= RX_ROOM /\ harm' \subseteq Damage
        /\ \A k \in 1 .. Len(rx') : (k \in 1 .. Len(rx) /\ rx'[k] = rx[k]) \/ rx'[k] = [of |-> Len(lengths) + 1, at |-> 1]
    BY <2>2, <2>4, ArriveTypes
  <2>6. \A k \in 1 .. Len(rx') : rx'[k].of <= Len(lengths')
    <3> SUFFICES ASSUME NEW k \in 1 .. Len(rx') PROVE rx'[k].of <= Len(lengths) + 1
      BY <2>3
    <3>1. CASE k \in 1 .. Len(rx) /\ rx'[k] = rx[k]
      <4>1. rx[k] \in UpBytes /\ rx[k].of <= Len(lengths)
        BY <3>1, ElementOfSeq DEF UpTypes
      <4> QED BY <1>0, <3>1, <4>1 DEF UpBytes
    <3>2. CASE rx'[k] = [of |-> Len(lengths) + 1, at |-> 1]
      BY <1>0, <3>2
    <3> QED BY <2>5, <3>1, <3>2
  <2>7. lengths' # <<>> /\ sent' >= 1 /\ sent' <= lengths'[Len(lengths')] /\ Len(lengths') <= MaxUp
    BY <1>0, <2>2, <2>3, UpSizes
  <2>8. abandoned' \subseteq 1 .. Len(lengths')
    BY <1>0, <2>3 DEF UpTypes
  <2> QED BY <1>0, <2>2, <2>3, <2>5, <2>6, <2>7, <2>8 DEF UpTypes, Complete, pcSide, up
<1>3. CASE TickGoesOn
  <2>1. /\ lengths # <<>> /\ sent # lengths[Len(lengths)] /\ sent' = sent + 1 /\ lengths' = lengths
        /\ Arrive([of |-> Len(lengths), at |-> sent + 1])
    BY <1>3 DEF TickGoesOn, Silent
  <2>2. /\ Len(lengths) \in 1 .. Len(lengths) /\ Len(lengths) \in 1 .. MaxUp
    BY <1>0, <2>1
  <2>3. lengths[Len(lengths)] \in UpLengths /\ sent >= 1 /\ sent <= lengths[Len(lengths)]
    BY <1>0, <2>1, <2>2, ElementOfSeq DEF UpTypes
  <2>4. sent + 1 \in 1 .. Longest /\ sent + 1 <= lengths[Len(lengths)]
    <3>1. PICK l \in UpLengths : l = lengths[Len(lengths)]
      BY <2>3
    <3>2. l \in Nat /\ l <= Longest
      BY UpSizes
    <3> QED BY <1>0, <2>1, <2>3, <3>1, <3>2
  <2>5. [of |-> Len(lengths), at |-> sent + 1] \in UpBytes
    BY <2>2, <2>4 DEF UpBytes
  <2>6. /\ rx' \in Seq(UpBytes) /\ Len(rx') <= RX_ROOM /\ harm' \subseteq Damage
        /\ \A k \in 1 .. Len(rx') : (k \in 1 .. Len(rx) /\ rx'[k] = rx[k]) \/ rx'[k] = [of |-> Len(lengths), at |-> sent + 1]
    BY <2>1, <2>5, ArriveTypes
  <2>7. \A k \in 1 .. Len(rx') : rx'[k].of <= Len(lengths')
    <3> SUFFICES ASSUME NEW k \in 1 .. Len(rx') PROVE rx'[k].of <= Len(lengths)
      BY <2>1
    <3>1. CASE k \in 1 .. Len(rx) /\ rx'[k] = rx[k]
      BY <3>1 DEF UpTypes
    <3>2. CASE rx'[k] = [of |-> Len(lengths), at |-> sent + 1]
      BY <1>0, <3>2
    <3> QED BY <2>6, <3>1, <3>2
  <2> QED BY <1>0, <2>1, <2>4, <2>6, <2>7 DEF UpTypes, Complete, pcSide, up
<1> QED BY <1>1, <1>2, <1>3 DEF Tick

LEMMA UpTypesInit == Init => UpTypes
<1> SUFFICES ASSUME Init PROVE UpTypes
  OBVIOUS
<1>1. <<>> \in Seq(UpBytes) /\ <<>> \in Seq(UpLengths) /\ <<>> \in Seq(Seq(UpBytes))
  BY EmptySeq
<1>2. 0 \in 0 .. Longest - 2 /\ Longest \in Nat /\ RX_ROOM \in Nat /\ BANK \in Nat /\ MaxUp \in Nat
  BY UpSizes
<1>3. Len(<<>>) = 0 /\ 0 \in 0 .. 0 /\ 1 .. 0 = {}
  OBVIOUS
<1> QED BY <1>1, <1>2, <1>3 DEF Init, UpTypes, Complete, Damage

(* The receiving half of the loop. *)
LEMMA ReceiveTypes ==
  ASSUME UpTypes, ReceiveLength \/ Receive \/ NothingToReceive \/ CheckTimeout
  PROVE  UpTypes'
<1>0. /\ rx \in Seq(UpBytes) /\ receiveBuffer \in Seq(UpBytes) /\ Len(rx) \in Nat /\ Len(receiveBuffer) \in Nat
      /\ RX_ROOM \in Nat /\ Len(rx) <= RX_ROOM /\ Longest \in Nat /\ Longest >= 3
      /\ bytesWaiting \in Nat /\ bytesWaiting <= Longest - 2 /\ Len(receiveBuffer) + bytesWaiting <= Longest
  BY UpSizes DEF UpTypes
<1>00. /\ UNCHANGED <<pcSide, bytesProcessed, bank, simSide, harm>> /\ pc # "write"
       /\ pc' \in {"out", "up", "serial"} /\ bytesProcessed = 0
  <2>1. /\ UNCHANGED <<pcSide, bytesProcessed, bank, simSide, harm>> /\ pc \in {"out", "serial"}
        /\ pc' \in {"out", "up", "serial"}
    BY DEF ReceiveLength, Receive, NothingToReceive, CheckTimeout, AtSerial, up
  <2> QED BY <2>1 DEF UpTypes
<1>1. CASE ReceiveLength
  <2>1. PICK n \in LengthIn(rx[1], rx[2]) : bytesWaiting' = n
    BY <1>1 DEF ReceiveLength
  <2>2. LengthReady /\ receiveBuffer' = SubSeq(rx, 1, 2) /\ rx' = SubSeq(rx, 3, Len(rx)) /\ Len(rx) >= 2
    BY <1>1 DEF ReceiveLength, LengthReady
  <2>3. bytesWaiting' \in 0 .. Longest - 2 /\ 2 + bytesWaiting' <= Longest
    BY <1>0, <2>1, <2>2, LengthSaid
  <2>4. receiveBuffer' \in Seq(UpBytes) /\ Len(receiveBuffer') = 2
    <3>1. 1 \in Nat /\ 2 \in Nat /\ 1 >= 1 /\ 1 <= 2 + 1 /\ 2 + 1 - 1 = 2
      OBVIOUS
    <3> QED BY <1>0, <2>2, <3>1, Part
  <2>5. /\ rx' \in Seq(UpBytes) /\ Len(rx') = Len(rx) - 2
        /\ \A i \in 1 .. Len(rx) - 2 : i + 2 \in 1 .. Len(rx) /\ rx'[i] = rx[i + 2]
    <3>1. 3 \in Nat /\ 3 >= 1 /\ 3 <= Len(rx) + 1 /\ Len(rx) + 1 - 3 = Len(rx) - 2 /\ Len(rx) <= Len(rx)
      BY <1>0, <2>2
    <3>2. \A i \in 1 .. Len(rx) - 2 : i + 2 \in 1 .. Len(rx) /\ 3 + i - 1 = i + 2
      BY <1>0, <2>2
    <3> QED BY <1>0, <2>2, <3>1, <3>2, Part
  <2>6. receiveBuffer' # <<>> /\ 0 \in 0 .. 2 /\ Len(rx') <= RX_ROOM
    BY <1>0, <2>2, <2>4, <2>5
  <2> QED BY <1>00, <2>3, <2>4, <2>5, <2>6 DEF UpTypes, Complete, pcSide, simSide
<1>2. CASE Receive
  <2> DEFINE k == Least(bytesWaiting, Len(rx))
  <2>1. /\ bytesWaiting > 0 /\ rx # <<>>
        /\ receiveBuffer' = receiveBuffer \o SubSeq(rx, 1, k)
        /\ rx' = SubSeq(rx, k + 1, Len(rx)) /\ bytesWaiting' = bytesWaiting - k
    BY <1>2 DEF Receive, DataReady
  <2>2. k \in Nat /\ k >= 1 /\ k <= bytesWaiting /\ k <= Len(rx)
    BY <1>0, <2>1 DEF Least
  <2> HIDE DEF k
  <2>3. SubSeq(rx, 1, k) \in Seq(UpBytes) /\ Len(SubSeq(rx, 1, k)) = k
    <3>1. 1 \in Nat /\ 1 >= 1 /\ 1 <= k + 1 /\ k + 1 - 1 = k
      BY <2>2
    <3> QED BY <1>0, <2>2, <3>1, Part
  <2>4. receiveBuffer' \in Seq(UpBytes) /\ Len(receiveBuffer') = Len(receiveBuffer) + k
    BY <1>0, <2>1, <2>3, ConcatProperties
  <2>5. /\ rx' \in Seq(UpBytes) /\ Len(rx') = Len(rx) - k
        /\ \A i \in 1 .. Len(rx) - k : i + k \in 1 .. Len(rx) /\ rx'[i] = rx[i + k]
    <3>1. k + 1 \in Nat /\ k + 1 >= 1 /\ k + 1 <= Len(rx) + 1 /\ Len(rx) + 1 - (k + 1) = Len(rx) - k /\ Len(rx) <= Len(rx)
      BY <1>0, <2>2
    <3>2. \A i \in 1 .. Len(rx) - k : i + k \in 1 .. Len(rx) /\ k + 1 + i - 1 = i + k
      BY <1>0, <2>2
    <3>3. /\ SubSeq(rx, k + 1, Len(rx)) \in Seq(UpBytes)
          /\ Len(SubSeq(rx, k + 1, Len(rx))) = Len(rx) + 1 - (k + 1)
          /\ \A i \in 1 .. Len(rx) + 1 - (k + 1) : SubSeq(rx, k + 1, Len(rx))[i] = rx[k + 1 + i - 1]
      BY <1>0, <3>1, Part
    <3> QED BY <2>1, <3>1, <3>2, <3>3
  <2>6. /\ bytesWaiting' \in 0 .. Longest - 2 /\ Len(receiveBuffer') + bytesWaiting' <= Longest
        /\ receiveBuffer' # <<>> /\ 0 \in 0 .. Len(receiveBuffer') /\ Len(rx') <= RX_ROOM
    <3>1. Len(receiveBuffer') \in Nat /\ Len(receiveBuffer') >= 1
      BY <1>0, <2>2, <2>4
    <3>2. PICK a \in Nat, l \in Nat, w \in Nat : a = Len(receiveBuffer) /\ l = Len(rx) /\ w = bytesWaiting
      BY <1>0
    <3>3. bytesWaiting' = w - k /\ Len(receiveBuffer') = a + k /\ Len(rx') = l - k
      BY <2>1, <2>4, <2>5, <3>2
    <3>4. Len(rx') <= RX_ROOM
      BY <1>0, <2>2, <3>2, <3>3
    <3>5. w - k \in 0 .. Longest - 2 /\ a + k + (w - k) <= Longest /\ a + k >= 1
      BY <1>0, <2>2, <3>2
    <3> QED BY <2>4, <3>1, <3>3, <3>4, <3>5
  <2> QED BY <1>00, <2>4, <2>5, <2>6 DEF UpTypes, Complete, pcSide, simSide
<1>3. CASE NothingToReceive
  BY <1>00, <1>3 DEF NothingToReceive, UpTypes, Complete, pcSide, simSide, up
<1>4. CASE CheckTimeout
  <2>1. receiveBuffer' = <<>> /\ bytesWaiting' = 0 /\ rx' = rx
    BY <1>4 DEF CheckTimeout
  <2>2. receiveBuffer' \in Seq(UpBytes) /\ Len(receiveBuffer') = 0 /\ 0 \in 0 .. 0 /\ 0 \in 0 .. Longest - 2
    BY <1>0, <2>1, EmptySeq
  <2> QED BY <1>0, <1>00, <2>1, <2>2 DEF UpTypes, Complete, pcSide, simSide
<1> QED BY <1>1, <1>2, <1>3, <1>4

LEMMA UpTypesKept == UpTypes /\ [Next]_vars => UpTypes'
<1> SUFFICES ASSUME UpTypes, [Next]_vars PROVE UpTypes'
  OBVIOUS
<1>1. CASE StartWrite
  BY <1>1 DEF StartWrite, UpTypes, Complete, simSide, up
<1>2. CASE HostReadsIn
  <2>1. bank' = <<>> /\ transfer' = transfer \o bank /\ reader' \in {"reading", "callback"}
    BY <1>2 DEF HostReadsIn
  <2>2. bank' \in Seq(UpBytes) /\ Len(bank') <= BANK
    BY <2>1, EmptySeq, UpSizes
  <2>3. transfer' \in Seq(UpBytes)
    BY <2>1, ConcatProperties DEF UpTypes
  <2> QED BY <1>2, <2>1, <2>2, <2>3 DEF HostReadsIn, UpTypes, Complete, simSide, up
<1>3. CASE Callback
  <2>1. handled' = Append(handled, transfer) /\ transfer' = <<>> /\ reader' = "reading"
    BY <1>3 DEF Callback
  <2>2. handled' \in Seq(Seq(UpBytes)) /\ transfer' \in Seq(UpBytes)
    BY <2>1, AppendProperties, EmptySeq DEF UpTypes
  <2> QED BY <1>3, <2>1, <2>2 DEF Callback, UpTypes, Complete, simSide, up
<1>4. CASE SendReceive_Task
  <2>1. CASE ReadOut \/ PutChar \/ PutAll
    BY <2>1 DEF ReadOut, PutChar, PutAll, UpTypes, Complete, simSide, up, pcSide
  <2>2. CASE ReceiveLength \/ Receive \/ NothingToReceive \/ CheckTimeout
    BY <2>2, ReceiveTypes
  <2>3. CASE SendUp \/ WriteStream
    <3>1. Complete /\ FillBank /\ UNCHANGED <<pcSide, rx, bytesWaiting, simSide>> /\ pc \in {"up", "out", "write"}
      BY <2>3 DEF SendUp, WriteStream, UpTypes
    <3> QED BY <3>1, FillBankTypes
  <2>4. CASE NothingToSendUp
    BY <2>4 DEF NothingToSendUp, UpTypes, Complete, simSide, up, pcSide
  <2>5. CASE StreamTimeout
    <3>1. /\ receiveBuffer' = <<>> /\ bytesProcessed' = 0 /\ pc' = "out" /\ bytesWaiting' = bytesWaiting /\ bytesWaiting = 0
          /\ harm' = harm \cup {"truncated"}
      BY <2>5 DEF StreamTimeout, UpTypes, Complete
    <3>2. receiveBuffer' \in Seq(UpBytes) /\ Len(receiveBuffer') = 0 /\ 0 \in 0 .. 0 /\ 0 <= Longest
      BY <3>1, EmptySeq, UpSizes
    <3>3. harm' \subseteq Damage
      BY <3>1 DEF UpTypes, Damage
    <3>4. UNCHANGED <<rx, bank, lengths, sent, abandoned, reader, transfer, handled>>
      BY <2>5 DEF StreamTimeout, simSide, pcSide
    <3> QED BY <3>1, <3>2, <3>3, <3>4 DEF UpTypes, Complete
  <2> QED BY <1>4, <2>1, <2>2, <2>3, <2>4, <2>5 DEF SendReceive_Task
<1>5. CASE Tick
  BY <1>5, TickTypes
<1>6. CASE Restart
  <2>1. lengths # <<>> /\ abandoned' = abandoned \cup {Len(lengths)} /\ lengths' = lengths /\ harm' \subseteq Damage
    BY <1>6 DEF Restart, Silent, UpTypes, Damage
  <2>2. abandoned' \subseteq 1 .. Len(lengths)
    <3>1. Len(lengths) \in Nat /\ Len(lengths) # 0
      BY <2>1 DEF UpTypes
    <3>2. Len(lengths) \in 1 .. Len(lengths)
      BY <3>1
    <3> QED BY <2>1, <3>2 DEF UpTypes
  <2> QED BY <1>6, <2>1, <2>2 DEF Restart, UpTypes, Complete, up, pcSide
<1>7. CASE UNCHANGED vars
  BY <1>7 DEF UpTypes, Complete, vars, pcSide, up, simSide
<1> QED BY <1>1, <1>2, <1>3, <1>4, <1>5, <1>6, <1>7 DEF Next

-----------------------------------------------------------------------------
(* What has arrived, byte by byte. *)
ArrivedFacts ==
  /\ Arrived \in Seq(UpBytes) /\ Len(Arrived) \in Nat /\ Len(receiveBuffer) \in Nat /\ Len(rx) \in Nat
  /\ Len(Arrived) = Len(receiveBuffer) + Len(rx)
  /\ \A i \in 1 .. Len(receiveBuffer) : i \in 1 .. Len(Arrived) /\ Arrived[i] = receiveBuffer[i]
  /\ \A i \in 1 .. Len(rx) : Len(receiveBuffer) + i \in 1 .. Len(Arrived) /\ Arrived[Len(receiveBuffer) + i] = rx[i]
  /\ \A i \in 1 .. Len(Arrived) : Arrived[i] \in UpBytes
  /\ receiveBuffer = <<>> => Arrived = rx
  /\ rx = <<>> => Arrived = receiveBuffer
  /\ Begun \in Nat /\ \A p \in 1 .. Begun : lengths[p] \in Nat /\ lengths[p] >= 3
  /\ Arrived # <<>> => Len(Arrived) >= 1 /\ 1 \in 1 .. Len(Arrived)
  /\ sent \in Nat

LEMMA ArrivedKnown == UpTypes => ArrivedFacts
<1> SUFFICES ASSUME UpTypes PROVE ArrivedFacts
  OBVIOUS
<1>1. receiveBuffer \in Seq(UpBytes) /\ rx \in Seq(UpBytes) /\ lengths \in Seq(UpLengths) /\ sent \in Nat
  BY DEF UpTypes
<1>2. PICK a \in Nat, l \in Nat : a = Len(receiveBuffer) /\ l = Len(rx)
  BY <1>1
<1>3. /\ Arrived \in Seq(UpBytes) /\ Len(Arrived) = a + l
      /\ \A i \in 1 .. a + l : Arrived[i] = IF i <= a THEN receiveBuffer[i] ELSE rx[i - a]
  BY <1>1, <1>2, ConcatProperties DEF Arrived
<1>4. \A i \in 1 .. a : i \in 1 .. a + l /\ i <= a
  OBVIOUS
<1>5. \A i \in 1 .. l : a + i \in 1 .. a + l /\ ~(a + i <= a) /\ a + i - a = i
  OBVIOUS
<1>6. \A i \in 1 .. Len(Arrived) : Arrived[i] \in UpBytes
  BY <1>3, ElementOfSeq
<1>7. (receiveBuffer = <<>> => Arrived = rx) /\ (rx = <<>> => Arrived = receiveBuffer)
  BY <1>1, ConcatEmptySeq DEF Arrived
<1>8. Begun \in Nat /\ \A p \in 1 .. Begun : lengths[p] \in Nat /\ lengths[p] >= 3
  <2>1. \A p \in 1 .. Begun : lengths[p] \in UpLengths
    BY <1>1, ElementOfSeq DEF Begun
  <2>2. Begun \in Nat
    BY <1>1 DEF Begun
  <2> QED BY <2>1, <2>2, UpSizes
<1>9. Arrived # <<>> => Len(Arrived) >= 1 /\ 1 \in 1 .. Len(Arrived)
  <2>1. Len(Arrived) \in Nat /\ (Len(Arrived) = 0 <=> Arrived = <<>>)
    BY <1>3
  <2> QED BY <2>1
<1>10. \A i \in 1 .. a : Arrived[i] = receiveBuffer[i]
  BY <1>3, <1>4
<1>11. \A i \in 1 .. l : Arrived[a + i] = rx[i]
  BY <1>3, <1>5
<1>12. /\ Len(Arrived) \in Nat /\ Len(receiveBuffer) \in Nat /\ Len(rx) \in Nat
       /\ Len(Arrived) = Len(receiveBuffer) + Len(rx)
  BY <1>2, <1>3
<1>13. \A i \in 1 .. Len(receiveBuffer) : i \in 1 .. Len(Arrived) /\ Arrived[i] = receiveBuffer[i]
  BY <1>2, <1>3, <1>4, <1>10
<1>14. \A i \in 1 .. Len(rx) : Len(receiveBuffer) + i \in 1 .. Len(Arrived) /\ Arrived[Len(receiveBuffer) + i] = rx[i]
  BY <1>2, <1>3, <1>5, <1>11
<1> QED BY <1>1, <1>3, <1>6, <1>7, <1>8, <1>9, <1>12, <1>13, <1>14, Zenon DEF ArrivedFacts

LEMMA ArrivedKnownNext == UpTypes' => ArrivedFacts'
BY ArrivedKnown, PTL

(* The first packet that has arrived. *)
LEMMA FirstArrived ==
  ASSUME UpTypes, Run, InStep
  PROVE  /\ Coming \in 1 .. Begun + 1
         /\ Arrived # <<>> => /\ Coming = Arrived[1].of /\ Coming \in 1 .. Begun
                              /\ \A j \in 1 .. Len(Arrived) :
                                   /\ j <= lengths[Coming] => Arrived[j] = [of |-> Coming, at |-> j]
                                   /\ j = lengths[Coming] + 1 => Arrived[j] = [of |-> Coming + 1, at |-> 1]
<1>1. ArrivedFacts
  BY ArrivedKnown
<1>2. CASE Arrived = <<>>
  BY <1>1, <1>2 DEF Coming, ArrivedFacts
<1>3. CASE Arrived # <<>>
  <2>1. 1 \in 1 .. Len(Arrived) /\ Coming = Arrived[1].of /\ Coming \in 1 .. Begun /\ Arrived[1].at = 1
        /\ Begun \in Nat /\ lengths[Coming] \in Nat
    BY <1>1, <1>3 DEF ArrivedFacts, Coming, InStep
  <2>2. ASSUME NEW j \in 1 .. Len(Arrived)
        PROVE  /\ j <= lengths[Coming] => Arrived[j] = [of |-> Coming, at |-> j]
               /\ j = lengths[Coming] + 1 => Arrived[j] = [of |-> Coming + 1, at |-> 1]
    <3>1. /\ 1 <= j /\ j - 1 <= lengths[Coming] - 1 => Arrived[j] = [of |-> Coming, at |-> 1 + j - 1]
          /\ j - 1 = lengths[Coming] - 1 + 1 => Arrived[j] = [of |-> Coming + 1, at |-> 1]
      BY <2>1 DEF Run
    <3>2. j \in Nat /\ j >= 1 /\ 1 + j - 1 = j
      BY <1>1 DEF ArrivedFacts
    <3>3. /\ j <= lengths[Coming] => j - 1 <= lengths[Coming] - 1
          /\ j = lengths[Coming] + 1 => j - 1 = lengths[Coming] - 1 + 1
      BY <2>1, <3>2
    <3> QED BY <3>1, <3>2, <3>3
  <2> QED BY <1>3, <2>1, <2>2
<1> QED BY <1>2, <1>3

(* A complete packet is the one that comes, and has been sent to its end.  *)
LEMMA CompletePacket ==
  ASSUME UpTypes, Run, InStep, Complete
  PROVE  /\ Coming \in 1 .. Begun /\ Len(receiveBuffer) = lengths[Coming]
         /\ receiveBuffer = Packet(Coming) /\ Coming \in Finished
         /\ rx = <<>> => Coming = Begun /\ sent = lengths[Begun]
         /\ rx # <<>> => rx[1] = [of |-> Coming + 1, at |-> 1]
<1>1. ArrivedFacts
  BY ArrivedKnown
<1>2. Arrived # <<>> /\ Len(receiveBuffer) \in Nat /\ Len(receiveBuffer) >= 1
  BY <1>1 DEF Complete, ArrivedFacts
<1>3. /\ Coming = Arrived[1].of /\ Coming \in 1 .. Begun
      /\ \A j \in 1 .. Len(Arrived) :
           /\ j <= lengths[Coming] => Arrived[j] = [of |-> Coming, at |-> j]
           /\ j = lengths[Coming] + 1 => Arrived[j] = [of |-> Coming + 1, at |-> 1]
  BY <1>2, FirstArrived
<1>4. Len(receiveBuffer) = lengths[Coming]
  BY <1>1, <1>3 DEF InStep, Complete, ArrivedFacts
<1>5. \A i \in 1 .. Len(receiveBuffer) : receiveBuffer[i] = [of |-> Coming, at |-> i]
  <2> SUFFICES ASSUME NEW i \in 1 .. Len(receiveBuffer) PROVE receiveBuffer[i] = [of |-> Coming, at |-> i]
    OBVIOUS
  <2>1. i \in 1 .. Len(Arrived) /\ Arrived[i] = receiveBuffer[i]
    BY <1>1 DEF ArrivedFacts
  <2>2. i <= lengths[Coming]
    BY <1>2, <1>4
  <2> QED BY <1>3, <2>1, <2>2
<1>6. receiveBuffer = Packet(Coming)
  <2>1. receiveBuffer \in Seq(UpBytes)
    BY DEF UpTypes
  <2>2. receiveBuffer = [i \in 1 .. Len(receiveBuffer) |-> receiveBuffer[i]]
    BY <2>1
  <2> QED BY <1>4, <1>5, <2>2 DEF Packet
<1>7. CASE rx = <<>>
  <2>1. Arrived = receiveBuffer /\ Len(Arrived) = lengths[Coming] /\ Len(Arrived) \in 1 .. Len(Arrived)
    BY <1>1, <1>2, <1>4, <1>7 DEF ArrivedFacts
  <2>2. Arrived[Len(Arrived)] = [of |-> Coming, at |-> lengths[Coming]]
    BY <1>1, <1>3, <2>1 DEF ArrivedFacts
  <2>3. Arrived[Len(Arrived)] = [of |-> Begun, at |-> sent]
    BY <1>2 DEF InStep
  <2>4. Coming = Begun /\ sent = lengths[Begun]
    BY <2>2, <2>3
  <2>5. Begun \notin abandoned
    BY <1>1, <2>4 DEF InStep, ArrivedFacts
  <2>6. Coming \in Finished
    BY <1>1, <1>3, <2>4, <2>5 DEF Finished, Begun, UpTypes
  <2> QED BY <1>3, <1>4, <1>6, <1>7, <2>4, <2>6
<1>8. CASE rx # <<>>
  <2>1. PICK a \in Nat : a = Len(receiveBuffer)
    BY <1>2
  <2>2. 1 \in 1 .. Len(rx)
    BY <1>1, <1>8 DEF ArrivedFacts, UpTypes
  <2>3. a + 1 \in 1 .. Len(Arrived) /\ Arrived[a + 1] = rx[1]
    BY <1>1, <2>1, <2>2 DEF ArrivedFacts
  <2>4. rx[1] = [of |-> Coming + 1, at |-> 1]
    BY <1>3, <1>4, <2>1, <2>3
  <2>5. rx[1].of = Coming + 1 /\ rx[1].of \in 1 .. Begun
    BY <2>3, <2>4 DEF InStep
  <2>6. Coming < Begun /\ Coming \notin abandoned
    <3>1. Coming < Begun
      BY <1>1, <1>3, <2>5 DEF ArrivedFacts
    <3>2. Arrived[1].of = Coming /\ 1 \in 1 .. Len(Arrived)
      BY <1>1, <1>2, <1>3 DEF ArrivedFacts
    <3> QED BY <1>1, <1>3, <3>1, <3>2 DEF InStep, ArrivedFacts
  <2>7. Coming \in Finished
    BY <1>1, <1>3, <2>6 DEF Finished, Begun, UpTypes
  <2> QED BY <1>3, <1>4, <1>6, <1>8, <2>4, <2>7
<1> QED BY <1>7, <1>8

(* The packets that have been sent, counted. *)
LEMMA Counted ==
  ASSUME UpTypes
  PROVE  /\ IsFiniteSet(Finished) /\ Finished \subseteq 1 .. Begun
         /\ \A T \in SUBSET Finished : /\ IsFiniteSet(T) /\ Cardinality(T) \in Nat
                                       /\ Cardinality(T) <= Cardinality(Finished)
<1>1. Begun \in Nat /\ DOMAIN lengths = 1 .. Begun
  BY LenProperties DEF UpTypes, Begun
<1>2. IsFiniteSet(1 .. Begun)
  BY <1>1, FS_Interval
<1>3. Finished \subseteq 1 .. Begun
  BY <1>1 DEF Finished
<1>4. IsFiniteSet(Finished)
  BY <1>2, <1>3, FS_Subset
<1>5. \A T \in SUBSET Finished : IsFiniteSet(T) /\ Cardinality(T) <= Cardinality(Finished)
  BY <1>4, FS_Subset
<1>6. \A T \in SUBSET Finished : Cardinality(T) \in Nat
  BY <1>5, FS_CardinalityType
<1> QED BY <1>3, <1>4, <1>5, <1>6

LEMMA NthIsOne ==
  ASSUME UpTypes, NEW n, NEW p \in Finished, Cardinality({r \in Finished : r <= p}) = n
  PROVE  Nth(n) = p /\ n <= Cardinality(Finished)
<1> DEFINE Upto(q) == {r \in Finished : r <= q}
<1>1. /\ IsFiniteSet(Finished) /\ Finished \subseteq 1 .. Begun /\ Begun \in Nat
      /\ \A T \in SUBSET Finished : /\ IsFiniteSet(T) /\ Cardinality(T) \in Nat
                                    /\ Cardinality(T) <= Cardinality(Finished)
  BY Counted, ArrivedKnown DEF ArrivedFacts
<1>2. \A q \in Finished : q \in Nat
  BY <1>1
<1>3. ASSUME NEW q \in Finished, NEW r \in Finished, q < r, Cardinality(Upto(q)) = Cardinality(Upto(r))
      PROVE  FALSE
  <2>1. Upto(q) \subseteq Upto(r) /\ r \in Upto(r) /\ r \notin Upto(q)
    BY <1>2, <1>3
  <2>2. IsFiniteSet(Upto(r)) /\ Upto(q) \in SUBSET Upto(r)
    BY <1>1, <2>1
  <2> HIDE DEF Upto
  <2>3. Upto(r) = Upto(q)
    BY <1>3, <2>2, FS_Subset
  <2> QED BY <2>1, <2>3
<1>4. \A q \in Finished : Cardinality(Upto(q)) = n => q = p
  <2> SUFFICES ASSUME NEW q \in Finished, Cardinality(Upto(q)) = n, q # p PROVE FALSE
    OBVIOUS
  <2>1. q < p \/ p < q
    BY <1>2
  <2>2. Cardinality(Upto(p)) = n
    OBVIOUS
  <2> QED BY <1>3, <2>1, <2>2
<1>5. Nth(n) = p
  BY <1>4 DEF Nth
<1>6. n <= Cardinality(Finished)
  BY <1>1
<1> QED BY <1>5, <1>6

LEMMA NothingWrong ==
  ASSUME UpTypes, Undamaged
  PROVE  KnownDamage
<1> SUFFICES ASSUME harm = {}, NEW n \in DOMAIN handled
             PROVE  n <= Cardinality(Finished) /\ handled[n] = Packet(Nth(n))
  BY DEF KnownDamage
<1>1. n \in 1 .. Len(handled)
  BY LenProperties DEF UpTypes
<1>2. PICK p \in Passed : IsNth(p, n) /\ handled[n] = Packet(p)
  BY <1>1 DEF Undamaged, Delivered
<1> QED BY <1>2, NthIsOne DEF IsNth, Passed

(* Nothing of this changes. *)
LEMMA DamageUnchanged ==
  ASSUME UpTypes, Undamaged,
         UNCHANGED <<receiveBuffer, rx, bytesWaiting, bytesProcessed, bank, lengths, sent, abandoned>>,
         UNCHANGED <<reader, transfer, handled, harm>>,
         pc' = pc \/ (pc # "write" /\ pc' # "write")
  PROVE  Undamaged'
<1> SUFFICES ASSUME harm = {} PROVE Run' /\ InStep' /\ Delivered'
  BY DEF Undamaged
<1>1. Run /\ InStep /\ Delivered
  BY DEF Undamaged
<1>2. Arrived' = Arrived /\ Begun' = Begun /\ Finished' = Finished /\ (Silent' <=> Silent)
  BY DEF Arrived, Begun, Finished, Silent
<1>3. Run' /\ InStep'
  BY <1>1, <1>2 DEF Run, InStep
<1>4. Coming' = Coming /\ Passed' = Passed /\ Current' = Current /\ (Whole' <=> Whole)
  <2>1. Coming' = Coming
    BY <1>2 DEF Coming
  <2> QED BY <1>2, <2>1 DEF Passed, Current, Whole
<1>5. Delivered'
  <2>1. \A p, n : (IsNth(p, n)' <=> IsNth(p, n)) /\ Packet(p)' = Packet(p)
    BY <1>2, <1>4 DEF IsNth, Packet
  <2>2. InCallback' = InCallback /\ InBank' = InBank
    BY <1>4 DEF InCallback, InBank
  <2> QED BY <1>1, <1>4, <2>1, <2>2 DEF Delivered
<1> QED BY <1>3, <1>5

-----------------------------------------------------------------------------
LEMMA DeliveredKept ==
  ASSUME Delivered, UNCHANGED <<reader, handled, transfer, bank>>, Whole' <=> Whole, Passed' = Passed,
         \A p \in Passed : /\ {q \in Finished' : q <= p} = {q \in Finished : q <= p}
                           /\ Packet(p)' = Packet(p),
         SubSeq(receiveBuffer', 1, bytesProcessed') = SubSeq(receiveBuffer, 1, bytesProcessed)
  PROVE  Delivered'
<1>1. \A p, n : IsNth(p, n) => IsNth(p, n)'
  BY DEF IsNth
<1>2. InCallback' = InCallback /\ InBank' = InBank /\ Current' = Current
  BY DEF InCallback, InBank, Current
<1>3. \A p \in Passed : Packet(p)' = Packet(p)
  OBVIOUS
<1>4. \A n \in 1 .. Len(handled) : \E p \in Passed : IsNth(p, n)' /\ handled[n] = Packet(p)'
  <2> SUFFICES ASSUME NEW n \in 1 .. Len(handled)
               PROVE  \E p \in Passed : IsNth(p, n)' /\ handled[n] = Packet(p)'
    OBVIOUS
  <2>1. PICK p \in Passed : IsNth(p, n) /\ handled[n] = Packet(p)
    BY DEF Delivered
  <2>2. IsNth(p, n)' /\ Packet(p)' = Packet(p)
    BY <1>1, <1>3, <2>1
  <2> QED BY <2>1, <2>2
<1>5. ASSUME reader = "callback"
      PROVE  \E p \in Passed : IsNth(p, Len(handled) + 1)' /\ transfer = Packet(p)'
  <2>1. PICK p \in Passed : IsNth(p, Len(handled) + 1) /\ transfer = Packet(p)
    BY <1>5 DEF Delivered
  <2>2. IsNth(p, Len(handled) + 1)' /\ Packet(p)' = Packet(p)
    BY <1>3, <2>1 DEF IsNth
  <2> QED BY <2>1, <2>2
<1>6. ASSUME Whole
      PROVE  /\ Len(bank) < BANK
             /\ \E p \in Passed : IsNth(p, Len(handled) + InCallback + 1)' /\ Current = Packet(p)'
  <2>1. PICK p \in Passed : IsNth(p, Len(handled) + InCallback + 1) /\ Current = Packet(p)
    BY <1>6 DEF Delivered
  <2>2. IsNth(p, Len(handled) + InCallback + 1)' /\ Packet(p)' = Packet(p)
    BY <1>2, <1>3, <2>1 DEF IsNth
  <2> QED BY <1>6, <2>1, <2>2 DEF Delivered
<1> QED BY <1>2, <1>4, <1>5, <1>6 DEF Delivered, IsNth

(* Bytes go from the ring to the buffer. *)
LEMMA MovesUp ==
  ASSUME UpTypes, UpTypes', Undamaged, ReceiveLength \/ Receive
  PROVE  Undamaged'
<1> SUFFICES ASSUME harm = {} PROVE Run' /\ InStep' /\ Delivered'
  BY DEF Undamaged, ReceiveLength, Receive
<1>1. /\ Run /\ InStep /\ Delivered
      /\ UNCHANGED <<bytesProcessed, bank, lengths, sent, abandoned, reader, transfer, handled>>
      /\ pc # "write" /\ pc' # "write" /\ bytesProcessed = 0
  <2>1. /\ UNCHANGED <<bytesProcessed, bank, lengths, sent, abandoned, reader, transfer, handled>>
        /\ pc # "write" /\ pc' # "write"
    BY DEF ReceiveLength, Receive, AtSerial, pcSide, simSide
  <2> QED BY <2>1 DEF Undamaged, UpTypes
<1>2. ArrivedFacts /\ ArrivedFacts' /\ rx \in Seq(UpBytes) /\ receiveBuffer \in Seq(UpBytes)
      /\ bytesWaiting \in Nat
  <2>1. ArrivedFacts /\ ArrivedFacts'
    BY ArrivedKnown, ArrivedKnownNext
  <2>2. rx \in Seq(UpBytes) /\ receiveBuffer \in Seq(UpBytes) /\ bytesWaiting \in Nat
    BY DEF UpTypes
  <2> QED BY <2>1, <2>2
<1>3. \A k \in Nat : 1 <= k /\ k <= Len(rx) => SubSeq(rx, 1, k) \o SubSeq(rx, k + 1, Len(rx)) = rx
  <2> SUFFICES ASSUME NEW k \in Nat, 1 <= k, k <= Len(rx)
               PROVE  SubSeq(rx, 1, k) \o SubSeq(rx, k + 1, Len(rx)) = rx
    OBVIOUS
  <2>1. /\ 1 \in 1 .. Len(rx) + 1 /\ k \in 1 - 1 .. Len(rx) /\ Len(rx) \in k .. Len(rx)
    BY <1>2
  <2>2. SubSeq(rx, 1, k) \o SubSeq(rx, k + 1, Len(rx)) = SubSeq(rx, 1, Len(rx))
    BY <1>2, <2>1, ConcatAdjacentSubSeq
  <2> QED BY <1>2, <2>2, SubSeqFull
<1>4. Arrived' = Arrived /\ receiveBuffer' # <<>>
      /\ Len(receiveBuffer') + bytesWaiting' = lengths[Arrived[1].of]
  <2>1. CASE ReceiveLength
    <3>1. /\ receiveBuffer = <<>> /\ Len(rx) >= 2 /\ receiveBuffer' = SubSeq(rx, 1, 2) /\ rx' = SubSeq(rx, 3, Len(rx))
          /\ bytesWaiting' \in LengthIn(rx[1], rx[2])
      BY <2>1 DEF ReceiveLength, LengthReady
    <3>2. Arrived = rx /\ 1 \in 1 .. Len(Arrived) /\ 2 \in 1 .. Len(Arrived) /\ Arrived # <<>>
      BY <1>2, <3>1 DEF ArrivedFacts
    <3>3. Arrived' = rx
      <4>1. 2 \in Nat /\ 1 <= 2 /\ 2 <= Len(rx) /\ 2 + 1 = 3
        BY <1>2, <3>1
      <4>2. SubSeq(rx, 1, 2) \o SubSeq(rx, 3, Len(rx)) = rx
        BY <1>3, <4>1
      <4> QED BY <3>1, <4>2 DEF Arrived
    <3>4. rx[1] = [of |-> Coming, at |-> 1] /\ rx[2] = [of |-> Coming, at |-> 2]
          /\ Coming = Arrived[1].of /\ lengths[Coming] >= 3 /\ lengths[Coming] \in Nat
      <4>1. Coming \in 1 .. Begun /\ Coming = Arrived[1].of
        BY <1>1, <3>2, FirstArrived
      <4>2. PICK l \in Nat : l = lengths[Coming] /\ l >= 3
        BY <1>2, <4>1 DEF ArrivedFacts
      <4>3. 1 <= l /\ 2 <= l
        BY <4>2
      <4>4. \A j \in 1 .. Len(Arrived) : j <= lengths[Coming] => Arrived[j] = [of |-> Coming, at |-> j]
        BY <1>1, <3>2, FirstArrived
      <4>5. Arrived[1] = [of |-> Coming, at |-> 1] /\ Arrived[2] = [of |-> Coming, at |-> 2]
        BY <3>2, <4>2, <4>3, <4>4
      <4> QED BY <3>2, <4>1, <4>2, <4>5
    <3>5. bytesWaiting' = lengths[Coming] - 2
      BY <3>1, <3>4 DEF LengthIn
    <3>6. Len(receiveBuffer') = 2
      <4>1. 1 \in Nat /\ 2 \in Nat /\ 1 >= 1 /\ 1 <= 2 + 1 /\ 2 + 1 - 1 = 2
        OBVIOUS
      <4> QED BY <1>2, <3>1, <4>1, Part
    <3>7. receiveBuffer' # <<>>
      BY <3>6
    <3> QED BY <3>2, <3>3, <3>4, <3>5, <3>6, <3>7
  <2>2. CASE Receive
    <3> DEFINE k == Least(bytesWaiting, Len(rx))
    <3>1. /\ bytesWaiting > 0 /\ rx # <<>>
          /\ receiveBuffer' = receiveBuffer \o SubSeq(rx, 1, k)
          /\ rx' = SubSeq(rx, k + 1, Len(rx)) /\ bytesWaiting' = bytesWaiting - k
      BY <2>2 DEF Receive, DataReady
    <3>2. k \in Nat /\ k >= 1 /\ k <= bytesWaiting /\ k <= Len(rx)
      BY <1>2, <3>1 DEF Least
    <3> HIDE DEF k
    <3>3. SubSeq(rx, 1, k) \in Seq(UpBytes) /\ Len(SubSeq(rx, 1, k)) = k
      <4>1. 1 \in Nat /\ 1 >= 1 /\ 1 <= k + 1 /\ k + 1 - 1 = k
        BY <3>2
      <4> QED BY <1>2, <3>2, <4>1, Part
    <3>4. rx' \in Seq(UpBytes)
      BY DEF UpTypes
    <3>5. Arrived' = receiveBuffer \o (SubSeq(rx, 1, k) \o SubSeq(rx, k + 1, Len(rx)))
      <4>1. SubSeq(rx, k + 1, Len(rx)) \in Seq(UpBytes)
        BY <3>1, <3>4
      <4>2. (receiveBuffer \o SubSeq(rx, 1, k)) \o SubSeq(rx, k + 1, Len(rx))
              = receiveBuffer \o (SubSeq(rx, 1, k) \o SubSeq(rx, k + 1, Len(rx)))
        <5>1. PICK t, u, v : t = SubSeq(rx, 1, k) /\ u = SubSeq(rx, k + 1, Len(rx)) /\ v = receiveBuffer
          OBVIOUS
        <5>2. t \in Seq(UpBytes) /\ u \in Seq(UpBytes) /\ v \in Seq(UpBytes)
          BY <1>2, <3>3, <4>1, <5>1
        <5>3. (v \o t) \o u = v \o (t \o u)
          BY <5>2, ConcatAssociative
        <5> QED BY <5>1, <5>3
      <4> QED BY <3>1, <4>2 DEF Arrived
    <3>6. Arrived' = Arrived
      BY <1>3, <3>2, <3>5 DEF Arrived
    <3>7. Len(receiveBuffer') = Len(receiveBuffer) + k /\ receiveBuffer # <<>>
      <4>1. Len(receiveBuffer \o SubSeq(rx, 1, k)) = Len(receiveBuffer) + Len(SubSeq(rx, 1, k))
        BY <1>2, <3>3, ConcatProperties
      <4>2. receiveBuffer # <<>>
        <5>1. receiveBuffer = <<>> => bytesWaiting = 0
          BY DEF UpTypes
        <5> QED BY <1>2, <3>1, <5>1
      <4> QED BY <3>1, <3>3, <4>1, <4>2
    <3>8. Len(receiveBuffer') + bytesWaiting' = Len(receiveBuffer) + bytesWaiting
      BY <1>2, <3>1, <3>2, <3>7 DEF ArrivedFacts
    <3>9. receiveBuffer' # <<>>
      <4>1. Len(receiveBuffer') # 0
        BY <1>2, <3>2, <3>7 DEF ArrivedFacts
      <4> QED BY <4>1
    <3> QED BY <1>1, <3>6, <3>7, <3>8, <3>9 DEF InStep
  <2> QED BY <2>1, <2>2
<1>5. Begun' = Begun /\ Finished' = Finished /\ (Silent' <=> Silent)
  BY <1>1 DEF Begun, Finished, Silent
<1>6. Run' /\ InStep'
  BY <1>1, <1>4, <1>5 DEF Run, InStep
<1>7. Passed' = Passed /\ (Whole' <=> Whole)
  <2>1. Coming' = Coming
    BY <1>4, <1>5 DEF Coming
  <2> QED BY <1>1, <1>5, <2>1 DEF Passed, Whole
<1>8. SubSeq(receiveBuffer', 1, bytesProcessed') = SubSeq(receiveBuffer, 1, bytesProcessed)
  <2>1. SubSeq(receiveBuffer', 1, 0) = <<>> /\ SubSeq(receiveBuffer, 1, 0) = <<>>
    BY SubSeqEmpty
  <2> QED BY <1>1, <2>1
<1>9. \A p \in Passed : Packet(p)' = Packet(p)
  BY <1>1 DEF Packet
<1>10. Delivered'
  BY <1>1, <1>5, <1>7, <1>8, <1>9, DeliveredKept
<1> QED BY <1>6, <1>10

(* A packet that was abandoned is thrown away. *)
LEMMA ThrownAway ==
  ASSUME UpTypes, UpTypes', Undamaged, CheckTimeout
  PROVE  Undamaged'
<1> SUFFICES ASSUME harm = {} PROVE Run' /\ InStep' /\ Delivered'
  BY DEF Undamaged, CheckTimeout
<1>1. /\ Run /\ InStep /\ Delivered
      /\ UNCHANGED <<rx, bytesProcessed, bank, lengths, sent, abandoned, reader, transfer, handled>>
      /\ pc = "out" /\ pc' = "out" /\ bytesProcessed = 0 /\ rx = <<>> /\ Silent
      /\ bytesWaiting > 0 /\ receiveBuffer # <<>> /\ receiveBuffer' = <<>>
  <2>1. /\ UNCHANGED <<rx, bytesProcessed, bank, lengths, sent, abandoned, reader, transfer, handled>>
        /\ pc = "out" /\ pc' = "out" /\ rx = <<>> /\ Silent
        /\ bytesWaiting > 0 /\ receiveBuffer # <<>> /\ receiveBuffer' = <<>>
    BY DEF CheckTimeout, pcSide, simSide
  <2> QED BY <2>1 DEF Undamaged, UpTypes
<1>2. ArrivedFacts /\ ArrivedFacts' /\ bytesWaiting \in Nat
  <2>1. ArrivedFacts /\ ArrivedFacts'
    BY ArrivedKnown, ArrivedKnownNext
  <2>2. bytesWaiting \in Nat
    BY DEF UpTypes
  <2> QED BY <2>1, <2>2
<1>3. Arrived = receiveBuffer /\ Arrived' = <<>>
  BY <1>1, <1>2 DEF ArrivedFacts
<1>4. Begun' = Begun /\ Finished' = Finished /\ (Silent' <=> Silent)
  BY <1>1 DEF Begun, Finished, Silent
<1>5. /\ Coming = Begun /\ sent < lengths[Begun] /\ Begun \in 1 .. Begun
  <2>1. /\ Coming = Arrived[1].of /\ Coming \in 1 .. Begun
        /\ \A j \in 1 .. Len(Arrived) : j <= lengths[Coming] => Arrived[j] = [of |-> Coming, at |-> j]
    BY <1>1, <1>3, FirstArrived
  <2>2. Len(Arrived) < lengths[Coming] /\ Len(Arrived) \in 1 .. Len(Arrived) /\ Len(Arrived) <= lengths[Coming]
    <3>1. Len(receiveBuffer) + bytesWaiting = lengths[Coming]
      BY <1>1, <2>1 DEF InStep
    <3> QED BY <1>1, <1>2, <1>3, <3>1 DEF ArrivedFacts
  <2>3. Arrived[Len(Arrived)] = [of |-> Coming, at |-> Len(Arrived)]
    BY <2>1, <2>2
  <2>4. Arrived[Len(Arrived)] = [of |-> Begun, at |-> sent]
    BY <1>1, <1>3 DEF InStep
  <2>5. Coming = Begun /\ sent = Len(Arrived)
    BY <2>3, <2>4
  <2> QED BY <2>1, <2>2, <2>5
<1>6. Begun \in abandoned
  BY <1>1, <1>2, <1>5 DEF Silent, Begun, ArrivedFacts
<1>7. Run' /\ InStep'
  <2>1. Len(Arrived') = 0
    BY <1>3
  <2>2. \A i \in 1 .. Len(Arrived') : FALSE
    BY <2>1
  <2>3. Run'
    BY <2>2 DEF Run
  <2> QED BY <1>1, <1>3, <1>4, <2>2, <2>3 DEF InStep
<1>8. Passed' = Passed
  <2>1. Coming' = Begun + 1
    BY <1>3, <1>4 DEF Coming
  <2>2. \A p \in Finished : p \in 1 .. Begun /\ p # Begun
    BY <1>6, Counted DEF Finished
  <2>3. \A p \in Finished : p < Begun + 1 <=> p < Begun
    BY <1>2, <2>2 DEF ArrivedFacts
  <2> QED BY <1>4, <1>5, <2>1, <2>3 DEF Passed
<1>9. SubSeq(receiveBuffer', 1, bytesProcessed') = SubSeq(receiveBuffer, 1, bytesProcessed)
  <2>1. SubSeq(receiveBuffer', 1, 0) = <<>> /\ SubSeq(receiveBuffer, 1, 0) = <<>>
    BY SubSeqEmpty
  <2> QED BY <1>1, <2>1
<1>10. (\A p \in Passed : Packet(p)' = Packet(p)) /\ (Whole' <=> Whole)
  BY <1>1 DEF Packet, Whole
<1>11. Delivered'
  BY <1>1, <1>4, <1>8, <1>9, <1>10, DeliveredKept
<1> QED BY <1>7, <1>11

(* The next byte arrives. *)
LEMMA RunGrows ==
  ASSUME UpTypes, UpTypes', Run, InStep, NEW b \in UpBytes,
         rx' = Append(rx, b), receiveBuffer' = receiveBuffer,
         Begun' >= Begun, \A p \in 1 .. Begun : lengths'[p] = lengths[p],
         b.of \in 1 .. Begun', b.at \in 1 .. lengths'[b.of],
         Arrived # <<>> => \/ sent = lengths[Begun] /\ b.of = Begun + 1 /\ b.at = 1
                           \/ sent < lengths[Begun] /\ b.of = Begun /\ b.at = sent + 1
  PROVE  /\ Run' /\ Len(Arrived') = Len(Arrived) + 1 /\ Arrived'[Len(Arrived) + 1] = b
         /\ \A i \in 1 .. Len(Arrived) : Arrived'[i] = Arrived[i]
<1>1. ArrivedFacts /\ ArrivedFacts' /\ rx \in Seq(UpBytes)
  <2>1. ArrivedFacts /\ ArrivedFacts'
    BY ArrivedKnown, ArrivedKnownNext
  <2>2. rx \in Seq(UpBytes)
    BY DEF UpTypes
  <2> QED BY <2>1, <2>2
<1>2. PICK m \in Nat : m = Len(Arrived)
  BY <1>1 DEF ArrivedFacts
<1>3. /\ Len(Arrived') = m + 1 /\ Arrived'[m + 1] = b
      /\ \A i \in 1 .. m : Arrived'[i] = Arrived[i]
  <2>1. Arrived' = Append(Arrived, b)
    <3>1. <<b>> \in Seq(UpBytes) /\ receiveBuffer \in Seq(UpBytes)
      BY DEF UpTypes
    <3>2. rx' = rx \o <<b>>
      BY <1>1
    <3>3. Arrived' = (receiveBuffer \o rx) \o <<b>>
      BY <1>1, <3>1, <3>2, ConcatAssociative DEF Arrived
    <3>4. Arrived \in Seq(UpBytes)
      BY <1>1 DEF ArrivedFacts
    <3>5. \A s \in Seq(UpBytes) : s \o <<b>> = Append(s, b)
      OBVIOUS
    <3> QED BY <3>3, <3>4, <3>5 DEF Arrived
  <2> QED BY <1>1, <1>2, <2>1, AppendProperties DEF ArrivedFacts
<1>4. ASSUME NEW i \in 1 .. m
      PROVE  /\ Arrived[i].of \in 1 .. Begun /\ Arrived[i].at \in 1 .. lengths[Arrived[i].of]
             /\ lengths'[Arrived[i].of] = lengths[Arrived[i].of] /\ lengths[Arrived[i].of] \in Nat
             /\ Arrived[i].at \in Nat /\ Arrived[i].of \in Nat
  <2>1. Arrived[i].of \in 1 .. Begun /\ Arrived[i].at \in 1 .. lengths[Arrived[i].of]
    BY <1>2, <1>4 DEF InStep
  <2>2. lengths[Arrived[i].of] \in Nat
    BY <1>1, <2>1 DEF ArrivedFacts
  <2> QED BY <1>1, <2>1, <2>2
<1>5. m >= 1 => Arrived[m] = [of |-> Begun, at |-> sent] /\ Arrived # <<>> /\ m \in 1 .. m
  <2>1. m >= 1 => Arrived # <<>>
    BY <1>2
  <2> QED BY <1>2, <2>1 DEF InStep
<1>6. b = [of |-> b.of, at |-> b.at] /\ b.of \in Nat /\ b.at \in Nat
  BY DEF UpBytes
<1>7. ASSUME NEW i \in 1 .. m + 1, NEW j \in 1 .. m + 1
      PROVE  LET n == lengths'[Arrived'[i].of] - Arrived'[i].at IN
               /\ i <= j /\ j - i <= n => Arrived'[j] = [of |-> Arrived'[i].of, at |-> Arrived'[i].at + j - i]
               /\ j - i = n + 1 => Arrived'[j] = [of |-> Arrived'[i].of + 1, at |-> 1]
  <2>1. CASE i \in 1 .. m /\ j \in 1 .. m
    <3>1. PICK e, f, l : e = Arrived[i] /\ f = Arrived[j] /\ l = lengths[e.of]
      OBVIOUS
    <3>2. Arrived'[i] = e /\ Arrived'[j] = f /\ lengths'[e.of] = l
      BY <1>3, <1>4, <2>1, <3>1
    <3>3. /\ i <= j /\ j - i <= l - e.at => f = [of |-> e.of, at |-> e.at + j - i]
          /\ j - i = l - e.at + 1 => f = [of |-> e.of + 1, at |-> 1]
      BY <1>2, <2>1, <3>1 DEF Run
    <3> QED BY <3>2, <3>3
  <2>2. CASE i = m + 1
    <3>1. PICK l \in Nat : l = lengths'[b.of] /\ b.at <= l /\ b.at >= 1
      <4>1. lengths'[b.of] \in Nat
        <5>1. \A p \in 1 .. Begun' : lengths'[p] \in Nat
          BY <1>1 DEF ArrivedFacts
        <5> QED BY <5>1
      <4> QED BY <4>1
    <3>2. Arrived'[i] = b /\ ~(j - i = l - b.at + 1)
      BY <1>3, <1>6, <2>2, <3>1
    <3>3. i <= j => j = m + 1 /\ b.at + j - i = b.at
      BY <1>6, <2>2
    <3> QED BY <1>3, <1>6, <3>1, <3>2, <3>3
  <2>3. CASE i \in 1 .. m /\ j = m + 1
    <3>1. PICK e : e = Arrived[i]
      OBVIOUS
    <3>2. PICK l \in Nat : l = lengths[e.of] /\ l = lengths'[e.of]
      BY <1>4, <2>3, <3>1
    <3>3. /\ e.at \in Nat /\ e.of \in Nat /\ e.at >= 1 /\ e.at <= l /\ Arrived'[i] = e /\ m >= 1
          /\ Begun \in Nat /\ sent \in Nat /\ m - i >= 0 /\ i <= m /\ i \in Nat
      <4>1. e.of \in 1 .. Begun /\ e.at \in 1 .. l /\ Arrived'[i] = e
        BY <1>3, <1>4, <2>3, <3>1, <3>2
      <4>2. Begun \in Nat /\ sent \in Nat
        BY <1>1 DEF ArrivedFacts
      <4>3. m >= 1 /\ m - i >= 0 /\ i <= m /\ i \in Nat
        BY <2>3
      <4> QED BY <4>1, <4>2, <4>3
    <3>4. /\ m - i <= l - e.at => Arrived[m] = [of |-> e.of, at |-> e.at + m - i]
          /\ m - i = l - e.at + 1 => Arrived[m] = [of |-> e.of + 1, at |-> 1]
      <4>1. m \in 1 .. Len(Arrived) /\ i \in 1 .. Len(Arrived)
        BY <1>2, <2>3, <3>3
      <4>2. LET n == lengths[Arrived[i].of] - Arrived[i].at IN
              /\ i <= m /\ m - i <= n => Arrived[m] = [of |-> Arrived[i].of, at |-> Arrived[i].at + m - i]
              /\ m - i = n + 1 => Arrived[m] = [of |-> Arrived[i].of + 1, at |-> 1]
        BY <4>1 DEF Run
      <4> QED BY <3>1, <3>2, <3>3, <4>2
    <3>5. m - i <= l - e.at => Begun = e.of /\ sent = e.at + m - i
      BY <1>5, <3>3, <3>4
    <3>6. \/ sent = lengths[Begun] /\ b.of = Begun + 1 /\ b.at = 1
          \/ sent < lengths[Begun] /\ b.of = Begun /\ b.at = sent + 1
      BY <1>5, <3>3
    <3>9. m - i <= l - e.at => lengths[Begun] = l
      BY <3>2, <3>5
    <3>7. ASSUME j - i <= l - e.at PROVE b = [of |-> e.of, at |-> e.at + j - i]
      <4>1. Begun = e.of /\ sent = e.at + m - i /\ sent < l /\ lengths[Begun] = l
        BY <2>3, <3>3, <3>5, <3>7, <3>9
      <4>2. b.of = e.of /\ b.at = sent + 1 /\ sent + 1 = e.at + j - i
        <5>1. b.of = Begun /\ b.at = sent + 1
          BY <3>3, <3>6, <4>1
        <5>2. sent + 1 = e.at + j - i
          BY <2>3, <3>3, <4>1
        <5> QED BY <4>1, <5>1, <5>2
      <4> QED BY <1>6, <4>2
    <3>8. ASSUME j - i = l - e.at + 1 PROVE b = [of |-> e.of + 1, at |-> 1]
      <4>1. Begun = e.of /\ sent = l /\ lengths[Begun] = l
        BY <2>3, <3>3, <3>5, <3>8, <3>9
      <4>2. b.of = e.of + 1 /\ b.at = 1
        BY <3>3, <3>6, <4>1
      <4> QED BY <1>6, <4>2
    <3> QED BY <1>3, <2>3, <3>2, <3>3, <3>7, <3>8
  <2>4. \A h \in 1 .. m + 1 : h \in 1 .. m \/ h = m + 1
    OBVIOUS
  <2> QED BY <2>1, <2>2, <2>3, <2>4
<1>8. Run'
  BY <1>3, <1>7 DEF Run
<1> QED BY <1>2, <1>3, <1>8

LEMMA ByteArrives ==
  ASSUME UpTypes, UpTypes', Run, InStep, Delivered, NEW b \in UpBytes,
         rx' = Append(rx, b), UNCHANGED <<receiveBuffer, bytesWaiting, bytesProcessed, bank, abandoned>>,
         UNCHANGED <<reader, transfer, handled, pc>>,
         Begun' >= Begun, \A p \in 1 .. Begun : lengths'[p] = lengths[p],
         b.of = Begun', b.at = sent', b.at \in 1 .. lengths'[b.of], b.of \in 1 .. Begun',
         Begun' \notin abandoned, Arrived # <<>> => Begun \notin abandoned,
         Arrived = <<>> => b.of = Begun + 1 /\ b.at = 1,
         Arrived # <<>> => \/ sent = lengths[Begun] /\ b.of = Begun + 1 /\ b.at = 1
                           \/ sent < lengths[Begun] /\ b.of = Begun /\ b.at = sent + 1,
         \A p \in 1 .. Begun : p < Begun' => (p \in Finished' <=> p \in Finished)
  PROVE  Run' /\ InStep' /\ Delivered'
<1>1. /\ Run' /\ Len(Arrived') = Len(Arrived) + 1 /\ Arrived'[Len(Arrived) + 1] = b
      /\ \A i \in 1 .. Len(Arrived) : Arrived'[i] = Arrived[i]
  BY RunGrows
<1>2. ArrivedFacts /\ ArrivedFacts'
  BY ArrivedKnown, ArrivedKnownNext
<1>3. PICK m \in Nat : m = Len(Arrived)
  BY <1>2 DEF ArrivedFacts
<1>4. (Arrived = <<>> <=> m = 0) /\ Arrived' # <<>> /\ Begun \in Nat /\ Begun' \in Nat
  <2>1. Arrived \in Seq(UpBytes) /\ Arrived' \in Seq(UpBytes) /\ Begun \in Nat /\ Begun' \in Nat
    BY <1>2 DEF ArrivedFacts
  <2>2. Len(Arrived') # 0
    BY <1>1, <1>3
  <2> QED BY <1>3, <2>1, <2>2
<1>5. Arrived # <<>> => Arrived'[1] = Arrived[1] /\ Arrived[1].of \in 1 .. Begun
  <2>1. Arrived # <<>> => 1 \in 1 .. Len(Arrived)
    BY <1>3, <1>4
  <2> QED BY <1>1, <2>1 DEF InStep
<1>6. Arrived = <<>> => Arrived'[1] = b
  BY <1>1, <1>3, <1>4
<1>7. InStep'
  <2>1. ASSUME NEW i \in 1 .. m + 1
        PROVE  /\ Arrived'[i].of \in 1 .. Begun' /\ Arrived'[i].at \in 1 .. lengths'[Arrived'[i].of]
               /\ Arrived'[i].of \in abandoned => Arrived'[i].of = Begun'
    <3>1. CASE i = m + 1
      BY <1>1, <1>3, <3>1
    <3>2. CASE i \in 1 .. m
      <4>1. /\ Arrived[i].of \in 1 .. Begun /\ Arrived[i].at \in 1 .. lengths[Arrived[i].of]
            /\ Arrived[i].of \in abandoned => Arrived[i].of = Begun
        BY <1>3, <3>2 DEF InStep
      <4>2. Arrived'[i] = Arrived[i] /\ Arrived # <<>>
        BY <1>1, <1>3, <1>4, <3>2
      <4>3. Arrived[i].of \notin abandoned
        BY <4>1, <4>2
      <4>4. Arrived[i].of \in 1 .. Begun' /\ lengths'[Arrived[i].of] = lengths[Arrived[i].of]
        BY <1>4, <4>1
      <4> QED BY <4>1, <4>2, <4>3, <4>4
    <3> QED BY <3>1, <3>2
  <2>2. Arrived'[1].at = 1
    BY <1>5, <1>6 DEF InStep
  <2>3. b = [of |-> b.of, at |-> b.at]
    BY DEF UpBytes
  <2>4. Arrived'[Len(Arrived')] = [of |-> Begun', at |-> sent']
    BY <1>1, <2>3
  <2>5. receiveBuffer' # <<>> => Len(receiveBuffer') + bytesWaiting' = lengths'[Arrived'[1].of]
    <3>1. receiveBuffer # <<>> => Arrived # <<>>
      <4>1. receiveBuffer # <<>> => Len(receiveBuffer) # 0 /\ Len(receiveBuffer) \in Nat
        <5>1. receiveBuffer \in Seq(UpBytes)
          BY DEF UpTypes
        <5> QED BY <5>1
      <4>2. receiveBuffer # <<>> => Len(Arrived) # 0
        BY <1>2, <4>1 DEF ArrivedFacts
      <4> QED BY <1>3, <1>4, <4>2
    <3> QED BY <1>5, <3>1 DEF InStep
  <2> QED BY <1>1, <1>3, <1>4, <2>1, <2>2, <2>4, <2>5 DEF InStep
<1>8. Coming' = Coming /\ Coming \in 1 .. Begun + 1 /\ Coming <= Begun'
  <2>1. Coming \in 1 .. Begun + 1
    BY FirstArrived
  <2>2. CASE Arrived = <<>>
    BY <1>4, <1>6, <2>2, <2>1 DEF Coming
  <2>3. CASE Arrived # <<>>
    <3>1. Coming \in 1 .. Begun /\ Coming' = Coming
      BY <1>4, <1>5, <2>3 DEF Coming
    <3> QED BY <1>4, <2>1, <3>1
  <2> QED BY <2>2, <2>3
<1>9. \A p : p \in 1 .. Begun /\ p < Coming => (p \in Finished' <=> p \in Finished)
  <2> SUFFICES ASSUME NEW p \in 1 .. Begun, p < Coming PROVE p \in Finished' <=> p \in Finished
    OBVIOUS
  <2>1. p < Begun'
    BY <1>4, <1>8
  <2> QED BY <2>1
<1>10. /\ \A p \in Finished : p \in 1 .. Begun
       /\ \A p \in Finished' : p \in 1 .. Begun'
  <2>1. \A p \in Finished : p \in 1 .. Begun
    BY Counted
  <2>2. DOMAIN lengths' = 1 .. Begun'
    <3>1. lengths' \in Seq(UpLengths)
      BY DEF UpTypes
    <3> QED BY <3>1, LenProperties DEF Begun
  <2> QED BY <2>1, <2>2 DEF Finished
<1>11. \A p : p < Coming => (p \in Finished' <=> p \in Finished)
  <2> SUFFICES ASSUME NEW p, p < Coming PROVE p \in Finished' <=> p \in Finished
    OBVIOUS
  <2>1. p \in Finished' => p \in 1 .. Begun
    BY <1>4, <1>8, <1>10
  <2>2. p \in Finished => p \in 1 .. Begun
    BY <1>10
  <2> QED BY <1>9, <2>1, <2>2
<1>12. Passed' = Passed
  BY <1>8, <1>11 DEF Passed
<1>13. \A p \in Passed : /\ {q \in Finished' : q <= p} = {q \in Finished : q <= p}
                         /\ Packet(p)' = Packet(p)
  <2> SUFFICES ASSUME NEW p \in Passed
               PROVE  /\ {q \in Finished' : q <= p} = {q \in Finished : q <= p}
                      /\ Packet(p)' = Packet(p)
    OBVIOUS
  <2>1. p \in 1 .. Begun /\ p < Coming
    BY <1>10 DEF Passed
  <2>2. \A q : q \in Finished \/ q \in Finished' => (q <= p => q < Coming)
    BY <1>4, <1>8, <1>10, <2>1
  <2>3. {q \in Finished' : q <= p} = {q \in Finished : q <= p}
    BY <1>11, <2>2
  <2> QED BY <2>1, <2>3 DEF Packet
<1>14. Whole' <=> Whole
  BY DEF Whole
<1>15. Delivered'
  BY <1>12, <1>13, <1>14, DeliveredKept
<1> QED BY <1>1, <1>7, <1>15

LEMMA TickBeginsKeeps ==
  ASSUME ApiAssumption, UpTypes, UpTypes', Undamaged, TickBegins
  PROVE  Undamaged'
<1> SUFFICES ASSUME harm' = {} PROVE Run' /\ InStep' /\ Delivered'
  BY DEF Undamaged
<1> DEFINE b == [of |-> Begun + 1, at |-> 1]
<1>1. /\ rx' = Append(rx, b) /\ harm = {} /\ sent' = 1 /\ Silent /\ Begun < MaxUp
      /\ UNCHANGED <<receiveBuffer, bytesWaiting, bytesProcessed, bank, abandoned>>
      /\ UNCHANGED <<reader, transfer, handled, pc>>
      /\ Begun \in abandoned => receiveBuffer = <<>> /\ Len(rx) <= 1
      /\ \E n \in UpLengths : lengths' = Append(lengths, n)
  BY DEF TickBegins, Arrive, Begun, pcSide, up
<1>2. Run /\ InStep /\ Delivered
  BY <1>1 DEF Undamaged
<1>3. ArrivedFacts
  BY ArrivedKnown
<1>4. PICK n \in UpLengths : lengths' = Append(lengths, n)
  BY <1>1
<1>5. lengths \in Seq(UpLengths) /\ abandoned \subseteq 1 .. Begun
  BY DEF UpTypes, Begun
<1>6. PICK k \in Nat : k = Begun
  BY <1>3 DEF ArrivedFacts
<1>7. Begun' = k + 1 /\ lengths'[k + 1] = n /\ \A p \in 1 .. k : lengths'[p] = lengths[p]
  BY <1>4, <1>5, <1>6, AppendProperties DEF Begun
<1>8. n \in Nat /\ n >= 3
  BY UpSizes
<1>9. b \in UpBytes /\ b.of = k + 1 /\ b.at = 1 /\ 1 \in 1 .. n
  <2>1. rx' \in Seq(UpBytes) /\ rx \in Seq(UpBytes)
    BY DEF UpTypes
  <2>2. MaxUp \in Nat
    BY DEF ApiAssumption
  <2>3. k + 1 \in 1 .. MaxUp
    BY <1>1, <1>6, <2>2
  <2>4. 1 \in 1 .. Longest
    BY UpSizes
  <2> QED BY <1>6, <1>8, <2>3, <2>4 DEF UpBytes
<1>10. Arrived # <<>> => Begun \notin abandoned /\ sent = lengths[Begun]
  <2> SUFFICES ASSUME Arrived # <<>> PROVE Begun \notin abandoned /\ sent = lengths[Begun]
    OBVIOUS
  <2>1. Begun \notin abandoned
    <3> SUFFICES ASSUME Begun \in abandoned PROVE FALSE
      OBVIOUS
    <3>1. receiveBuffer = <<>> /\ Len(rx) <= 1 /\ sent >= 2
      BY <1>1, <1>2 DEF InStep
    <3>2. Len(Arrived) = 1
      BY <1>3, <3>1 DEF ArrivedFacts
    <3>3. Arrived[1].at = 1 /\ Arrived[1] = [of |-> Begun, at |-> sent]
      BY <1>2, <3>2 DEF InStep
    <3>4. sent = 1
      BY <3>3
    <3> QED BY <3>1, <3>4
  <2>2. lengths # <<>>
    <3>1. 1 \in 1 .. Len(Arrived)
      BY <1>3 DEF ArrivedFacts
    <3>2. Arrived[1].of \in 1 .. Begun
      BY <1>2, <3>1 DEF InStep
    <3>3. Len(lengths) # 0
      BY <1>6, <3>2 DEF Begun
    <3> QED BY <3>3
  <2> QED BY <1>1, <2>1, <2>2 DEF Silent, Begun
<1>11. Begun' \notin abandoned
  BY <1>5, <1>6, <1>7
<1>12. \A p \in 1 .. Begun : p \in Finished' <=> p \in Finished
  <2> SUFFICES ASSUME NEW p \in 1 .. Begun PROVE p \in Finished' <=> p \in Finished
    OBVIOUS
  <2>1. DOMAIN lengths = 1 .. k /\ DOMAIN lengths' = 1 .. k + 1 /\ Len(lengths) = k /\ Len(lengths') = k + 1
    BY <1>4, <1>5, <1>6, <1>7 DEF Begun
  <2>2. p \in Finished' <=> p \notin abandoned
    BY <1>1, <1>6, <2>1 DEF Finished
  <2>3. p = k /\ p \notin abandoned => sent = lengths[p]
    <3>1. Len(lengths) # 0
      BY <1>6, <2>1
    <3>2. lengths # <<>>
      BY <3>1
    <3> QED BY <1>1, <2>1, <3>2 DEF Silent
  <2>4. p \in Finished <=> p \notin abandoned
    BY <1>6, <2>1, <2>3 DEF Finished
  <2> QED BY <2>2, <2>4
<1> HIDE DEF b
<1>13. /\ Begun' >= Begun /\ \A p \in 1 .. Begun : lengths'[p] = lengths[p]
       /\ b.of = Begun' /\ b.at = sent' /\ b.at \in 1 .. lengths'[b.of] /\ b.of \in 1 .. Begun'
       /\ b.of = Begun + 1 /\ b.at = 1
  <2>1. b.of = k + 1 /\ b.at = 1 /\ sent' = 1 /\ Begun = k /\ Begun' = k + 1
    BY <1>1, <1>6, <1>7, <1>9
  <2>2. lengths'[b.of] = n /\ 1 \in 1 .. n
    BY <1>7, <1>8, <2>1
  <2>3. k + 1 \in 1 .. k + 1 /\ k + 1 >= k
    OBVIOUS
  <2> QED BY <1>7, <2>1, <2>2, <2>3
<1>14. Arrived # <<>> => \/ sent = lengths[Begun] /\ b.of = Begun + 1 /\ b.at = 1
                         \/ sent < lengths[Begun] /\ b.of = Begun /\ b.at = sent + 1
  BY <1>10, <1>13
<1> QED BY <1>1, <1>2, <1>9, <1>10, <1>11, <1>12, <1>13, <1>14, ByteArrives

LEMMA TickGoesOnKeeps ==
  ASSUME ApiAssumption, UpTypes, UpTypes', Undamaged, TickGoesOn
  PROVE  Undamaged'
<1> SUFFICES ASSUME harm' = {} PROVE Run' /\ InStep' /\ Delivered'
  BY DEF Undamaged
<1> DEFINE b == [of |-> Begun, at |-> sent + 1]
<1>1. /\ rx' = Append(rx, b) /\ harm = {} /\ sent' = sent + 1 /\ ~Silent
      /\ UNCHANGED <<receiveBuffer, bytesWaiting, bytesProcessed, bank, abandoned, lengths>>
      /\ UNCHANGED <<reader, transfer, handled, pc>>
  BY DEF TickGoesOn, Arrive, Begun, pcSide, up
<1>2. Run /\ InStep /\ Delivered
  BY <1>1 DEF Undamaged
<1>3. ArrivedFacts
  BY ArrivedKnown
<1>4. lengths \in Seq(UpLengths) /\ (lengths # <<>> => sent >= 1 /\ sent <= lengths[Len(lengths)])
      /\ Len(lengths) <= MaxUp
  BY DEF UpTypes
<1>5. PICK k \in Nat : k = Begun
  BY <1>3 DEF ArrivedFacts
<1>6. lengths # <<>> /\ Begun \notin abandoned /\ sent # lengths[Begun] /\ Arrived # <<>>
  BY <1>1, <1>2 DEF Silent, Begun, InStep
<1>7. k >= 1 /\ Begun' = Begun /\ sent \in Nat /\ lengths[Begun] \in Nat /\ sent < lengths[Begun]
      /\ sent >= 1 /\ Begun \in 1 .. Begun
  <2>1. k # 0
    BY <1>4, <1>5, <1>6 DEF Begun
  <2>2. lengths[k] \in Nat /\ sent \in Nat
    BY <1>3, <1>5, <2>1 DEF ArrivedFacts
  <2>3. sent >= 1 /\ sent <= lengths[k]
    BY <1>4, <1>5, <1>6 DEF Begun
  <2>4. Begun' = Begun
    BY <1>1 DEF Begun
  <2> QED BY <1>5, <1>6, <2>1, <2>2, <2>3, <2>4
<1>8. b \in UpBytes /\ b.of = Begun /\ b.at = sent + 1
  <2>1. MaxUp \in Nat
    BY DEF ApiAssumption
  <2>2. k \in 1 .. MaxUp
    BY <1>4, <1>5, <1>7, <2>1 DEF Begun
  <2>3. lengths[k] \in UpLengths
    BY <1>4, <1>5, <1>7 DEF Begun
  <2>4. sent + 1 \in 1 .. Longest
    <3>1. PICK l \in Nat : l = lengths[k] /\ l <= Longest /\ Longest \in Nat
      BY <2>3, UpSizes
    <3> QED BY <1>5, <1>7, <3>1
  <2> QED BY <1>5, <2>2, <2>4 DEF UpBytes
<1>9. \A p \in 1 .. Begun : p < Begun' => (p \in Finished' <=> p \in Finished)
  BY <1>1, <1>7 DEF Finished, Begun
<1> HIDE DEF b
<1>10. /\ Begun' >= Begun /\ \A p \in 1 .. Begun : lengths'[p] = lengths[p]
       /\ b.of = Begun' /\ b.at = sent' /\ b.at \in 1 .. lengths'[b.of] /\ b.of \in 1 .. Begun'
       /\ Begun' \notin abandoned
  BY <1>1, <1>5, <1>6, <1>7, <1>8
<1>11. Arrived # <<>> => \/ sent = lengths[Begun] /\ b.of = Begun + 1 /\ b.at = 1
                         \/ sent < lengths[Begun] /\ b.of = Begun /\ b.at = sent + 1
  BY <1>7, <1>8
<1> QED BY <1>1, <1>2, <1>6, <1>8, <1>9, <1>10, <1>11, ByteArrives

LEMMA RestartKeeps ==
  ASSUME UpTypes, UpTypes', Undamaged, Restart
  PROVE  Undamaged'
<1> SUFFICES ASSUME harm' = {} PROVE Run' /\ InStep' /\ Delivered'
  BY DEF Undamaged
<1>1. /\ harm = {} /\ sent # 1 /\ ~Silent /\ abandoned' = abandoned \cup {Begun}
      /\ UNCHANGED <<rx, receiveBuffer, bytesWaiting, bytesProcessed, bank, lengths, sent>>
      /\ UNCHANGED <<reader, transfer, handled, pc>>
  BY DEF Restart, Begun, pcSide, up
<1>2. Run /\ InStep /\ Delivered
  BY <1>1 DEF Undamaged
<1>3. ArrivedFacts
  BY ArrivedKnown
<1>4. Arrived' = Arrived /\ Begun' = Begun /\ Coming' = Coming
  BY <1>1 DEF Arrived, Begun, Coming
<1>5. lengths # <<>> /\ Begun \notin abandoned /\ sent # lengths[Begun] /\ Arrived # <<>>
  BY <1>1, <1>2 DEF Silent, Begun, InStep
<1>6. sent >= 2 /\ sent < lengths[Begun]
  <2>1. sent >= 1 /\ sent <= lengths[Begun] /\ lengths \in Seq(UpLengths)
    BY <1>5 DEF UpTypes, Begun
  <2>2. Begun # 0
    BY <1>5, <2>1 DEF Begun
  <2>3. PICK l \in Nat : l = lengths[Begun]
    BY <1>3, <2>2 DEF ArrivedFacts
  <2>4. PICK n \in Nat : n = sent
    BY <1>3 DEF ArrivedFacts
  <2> QED BY <1>1, <1>5, <2>1, <2>3, <2>4
<1>7. Run'
  BY <1>1, <1>2, <1>4 DEF Run
<1>8. InStep'
  BY <1>1, <1>2, <1>4, <1>5, <1>6 DEF InStep
<1>9. Finished' = Finished
  BY <1>1, <1>5 DEF Finished, Begun
<1>10. Passed' = Passed /\ (Whole' <=> Whole) /\ \A p \in Passed : Packet(p)' = Packet(p)
  BY <1>1, <1>4, <1>9 DEF Passed, Whole, Packet
<1>11. Delivered'
  BY <1>1, <1>2, <1>9, <1>10, DeliveredKept
<1> QED BY <1>7, <1>8, <1>11

(* The PC takes a bank: the packet is whole when the bank is not full.     *)
LEMMA ReadsKeeps ==
  ASSUME ApiAssumption, UpTypes, UpTypes', Undamaged, HostReadsIn
  PROVE  Undamaged'
<1> SUFFICES ASSUME harm = {} PROVE Run' /\ InStep' /\ Delivered'
  BY DEF Undamaged, HostReadsIn
<1>1. /\ reader = "reading" /\ bank # <<>> /\ transfer' = transfer \o bank /\ bank' = <<>>
      /\ reader' = IF Len(bank) < BANK THEN "callback" ELSE reader
      /\ UNCHANGED <<rx, receiveBuffer, bytesWaiting, bytesProcessed, lengths, sent, abandoned, handled, pc>>
  BY DEF HostReadsIn, up, simSide
<1>2. Run /\ InStep /\ Delivered
  BY DEF Undamaged
<1>3. /\ Arrived' = Arrived /\ Begun' = Begun /\ Coming' = Coming /\ Finished' = Finished /\ Passed' = Passed
      /\ (Silent' <=> Silent)
  <2>1. /\ Arrived' = Arrived /\ Begun' = Begun /\ Finished' = Finished /\ (Silent' <=> Silent)
    BY <1>1 DEF Arrived, Begun, Finished, Silent
  <2>2. Coming' = Coming
    BY <2>1 DEF Coming
  <2> QED BY <2>1, <2>2 DEF Passed
<1>4. Run' /\ InStep'
  BY <1>1, <1>2, <1>3 DEF Run, InStep
<1>5. \A p, n : Packet(p)' = Packet(p) /\ (IsNth(p, n)' <=> IsNth(p, n))
  BY <1>1, <1>3 DEF Packet, IsNth
<1>6. /\ transfer \in Seq(UpBytes) /\ transfer' \in Seq(UpBytes) /\ bank \in Seq(UpBytes)
      /\ Len(bank) <= BANK /\ BANK \in Nat /\ BANK > 0 /\ Len(handled) \in Nat
  <2>1. transfer \in Seq(UpBytes) /\ bank \in Seq(UpBytes) /\ Len(bank) <= BANK /\ handled \in Seq(Seq(UpBytes))
    BY DEF UpTypes
  <2>2. transfer' \in Seq(UpBytes)
    BY DEF UpTypes
  <2>3. BANK \in Nat /\ BANK > 0
    BY DEF ApiAssumption
  <2>4. Len(handled) \in Nat
    BY <2>1
  <2> QED BY <2>1, <2>2, <2>3, <2>4
<1>7. ~Whole'
  BY <1>1 DEF Whole
<1>8. InCallback = 0 /\ InBank' = 0
  BY <1>1, <1>7 DEF InCallback, InBank
<1>9. \A n \in 1 .. Len(handled') : \E p \in Passed' : IsNth(p, n)' /\ handled'[n] = Packet(p)'
  BY <1>1, <1>2, <1>3, <1>5 DEF Delivered
<1>10. CASE Whole
  <2>1. /\ Len(bank) < BANK
        /\ \E p \in Passed : IsNth(p, Len(handled) + InCallback + 1) /\ Current = Packet(p)
        /\ Cardinality(Passed) = Len(handled) + InCallback + 1
    BY <1>2, <1>10 DEF Delivered, InBank
  <2>2. reader' = "callback" /\ InCallback' = 1 /\ pc # "write"
    BY <1>1, <1>10, <2>1 DEF InCallback, Whole
  <2>3. Cardinality(Passed') = Len(handled') + InCallback' + InBank'
    BY <1>1, <1>3, <1>6, <1>8, <2>1, <2>2
  <2>4. PICK p \in Passed : IsNth(p, Len(handled) + 1) /\ transfer' = Packet(p)
    <3>1. PICK p \in Passed : IsNth(p, Len(handled) + InCallback + 1) /\ Current = Packet(p)
      BY <2>1
    <3>2. Len(handled) + InCallback + 1 = Len(handled) + 1
      BY <1>6, <1>8
    <3>3. Current = transfer'
      BY <1>1 DEF Current
    <3> QED BY <3>1, <3>2, <3>3
  <2>5. IsNth(p, Len(handled) + 1)' /\ transfer' = Packet(p)' /\ p \in Passed'
    BY <1>1, <1>3, <1>5, <2>4 DEF IsNth
  <2>6. Current' = SubSeq(receiveBuffer', 1, bytesProcessed')
    <3>1. bytesProcessed' = 0 /\ bytesProcessed = 0
      BY <1>1, <2>2 DEF UpTypes
    <3>2. Current' = <<>>
      BY <1>1, <2>2 DEF Current
    <3> QED BY <3>1, <3>2, SubSeqEmpty
  <2> QED BY <1>1, <1>4, <1>7, <1>9, <2>3, <2>5, <2>6 DEF Delivered
<1>11. CASE ~Whole
  <2>1. /\ Cardinality(Passed) = Len(handled) + InCallback + 0
        /\ Len(bank) = BANK /\ Current = SubSeq(receiveBuffer, 1, bytesProcessed)
    BY <1>1, <1>2, <1>11 DEF Delivered, InBank
  <2>2. reader' = "reading"
    BY <1>1, <1>6, <2>1
  <2>3. InCallback' = 0
    BY <2>2 DEF InCallback
  <2>4. Cardinality(Passed') = Len(handled') + InCallback' + InBank'
    BY <1>1, <1>3, <1>8, <2>1, <2>3
  <2>5. Current' = SubSeq(receiveBuffer', 1, bytesProcessed')
    <3>1. transfer' \o <<>> = transfer'
      BY <1>6, ConcatEmptySeq
    <3>2. Current' = transfer' /\ Current = transfer'
      BY <1>1, <2>2, <3>1 DEF Current
    <3> QED BY <1>1, <2>1, <3>2
  <2> QED BY <1>1, <1>4, <1>7, <1>9, <2>2, <2>4, <2>5 DEF Delivered
<1> QED BY <1>10, <1>11

LEMMA CallbackKeeps ==
  ASSUME ApiAssumption, UpTypes, UpTypes', Undamaged, Callback
  PROVE  Undamaged'
<1> SUFFICES ASSUME harm = {} PROVE Run' /\ InStep' /\ Delivered'
  BY DEF Undamaged, Callback
<1>1. /\ reader = "callback" /\ reader' = "reading" /\ transfer' = <<>>
      /\ handled' = Append(handled, transfer)
      /\ UNCHANGED <<rx, receiveBuffer, bytesWaiting, bytesProcessed, bank, lengths, sent, abandoned, pc>>
  BY DEF Callback, up, simSide
<1>2. Run /\ InStep /\ Delivered
  BY DEF Undamaged
<1>3. /\ Arrived' = Arrived /\ Begun' = Begun /\ Coming' = Coming /\ Finished' = Finished /\ Passed' = Passed
      /\ (Silent' <=> Silent)
  <2>1. /\ Arrived' = Arrived /\ Begun' = Begun /\ Finished' = Finished /\ (Silent' <=> Silent)
    BY <1>1 DEF Arrived, Begun, Finished, Silent
  <2>2. Coming' = Coming
    BY <2>1 DEF Coming
  <2> QED BY <2>1, <2>2 DEF Passed
<1>4. Run' /\ InStep'
  BY <1>1, <1>2, <1>3 DEF Run, InStep
<1>5. \A p, n : Packet(p)' = Packet(p) /\ (IsNth(p, n)' <=> IsNth(p, n))
  BY <1>1, <1>3 DEF Packet, IsNth
<1>6. PICK h \in Nat : h = Len(handled)
  <2>1. handled \in Seq(Seq(UpBytes))
    BY DEF UpTypes
  <2> QED BY <2>1
<1>7. /\ Len(handled') = h + 1 /\ handled'[h + 1] = transfer
      /\ \A n \in 1 .. h : handled'[n] = handled[n]
  <2>1. handled \in Seq(Seq(UpBytes)) /\ transfer \in Seq(UpBytes)
    BY DEF UpTypes
  <2> QED BY <1>1, <1>6, <2>1, AppendProperties
<1>8. Current' = Current /\ (Whole' <=> Whole)
  <2>1. Current = bank
    BY <1>1 DEF Current
  <2>2. Current' = bank
    <3>1. <<>> \o bank = bank
      <4>1. bank \in Seq(UpBytes)
        BY DEF UpTypes
      <4> QED BY <4>1, ConcatEmptySeq
    <3> QED BY <1>1, <3>1 DEF Current
  <2> QED BY <1>1, <2>1, <2>2 DEF Whole
<1>9. InCallback = 1 /\ InCallback' = 0 /\ InBank' = InBank /\ InBank \in Nat
  BY <1>1, <1>8 DEF InCallback, InBank
<1>10. Len(handled) + InCallback = Len(handled') + InCallback'
  BY <1>6, <1>7, <1>9
<1>11. Cardinality(Passed') = Len(handled') + InCallback' + InBank'
  BY <1>2, <1>3, <1>9, <1>10 DEF Delivered
<1>12. \A n \in 1 .. Len(handled') : \E p \in Passed' : IsNth(p, n)' /\ handled'[n] = Packet(p)'
  <2> SUFFICES ASSUME NEW n \in 1 .. h + 1 PROVE \E p \in Passed' : IsNth(p, n)' /\ handled'[n] = Packet(p)'
    BY <1>7
  <2>1. CASE n \in 1 .. h
    <3>1. PICK p \in Passed : IsNth(p, n) /\ handled[n] = Packet(p)
      BY <1>2, <1>6, <2>1 DEF Delivered
    <3>2. p \in Passed' /\ IsNth(p, n)' /\ handled'[n] = Packet(p)'
      BY <1>3, <1>5, <1>7, <2>1, <3>1
    <3> QED BY <3>2
  <2>2. CASE n = h + 1
    <3>1. PICK p \in Passed : IsNth(p, n) /\ transfer = Packet(p)
      BY <1>1, <1>2, <1>6, <2>2 DEF Delivered
    <3>2. p \in Passed' /\ IsNth(p, n)' /\ handled'[n] = Packet(p)'
      BY <1>3, <1>5, <1>7, <2>2, <3>1
    <3> QED BY <3>2
  <2> QED BY <2>1, <2>2
<1>13. ASSUME Whole'
       PROVE  /\ Len(bank') < BANK
              /\ \E p \in Passed' : IsNth(p, Len(handled) + InCallback + 1)' /\ Current' = Packet(p)'
  <2>1. PICK p \in Passed : IsNth(p, Len(handled) + InCallback + 1) /\ Current = Packet(p)
    BY <1>2, <1>8, <1>13 DEF Delivered
  <2>2. p \in Passed' /\ Current' = Packet(p)'
    BY <1>3, <1>5, <1>8, <2>1
  <2>4. IsNth(p, Len(handled) + InCallback + 1)'
    BY <1>3, <1>10, <2>1 DEF IsNth
  <2>5. Len(bank') < BANK
    BY <1>1, <1>2, <1>8, <1>13 DEF Delivered
  <2> QED BY <2>2, <2>4, <2>5
<1>14. ~Whole' => /\ bank' # <<>> => Len(bank') = BANK
                  /\ Current' = SubSeq(receiveBuffer', 1, bytesProcessed')
  BY <1>1, <1>2, <1>8 DEF Delivered
<1>15. Delivered'
  BY <1>1, <1>11, <1>12, <1>13, <1>14 DEF Delivered
<1> QED BY <1>4, <1>15

(* A bank is filled: a packet stays the one that comes until its last bank *)
(* is, which is not a full one.                                            *)
LEMMA FillKeeps ==
  ASSUME ApiAssumption, UpTypes, UpTypes', Undamaged, SendUp \/ WriteStream
  PROVE  Undamaged'
<1> SUFFICES ASSUME harm' = {} PROVE Run' /\ InStep' /\ Delivered'
  BY DEF Undamaged
<1> DEFINE n == Least(BANK, Left)
           at == bytesProcessed + n
<1>1. /\ Complete /\ bank = <<>>
      /\ UNCHANGED <<rx, bytesWaiting, lengths, sent, abandoned, reader, transfer, handled>>
      /\ bytesProcessed < Len(receiveBuffer)
  <2>1. CASE SendUp
    <3>1. bytesProcessed = 0 /\ receiveBuffer # <<>> /\ receiveBuffer \in Seq(UpBytes)
      <4>1. pc # "write" /\ receiveBuffer # <<>>
        BY <2>1 DEF SendUp, Complete
      <4>2. receiveBuffer \in Seq(UpBytes) /\ bytesProcessed \in 0 .. Len(receiveBuffer)
            /\ (bytesProcessed > 0 => pc = "write")
        BY DEF UpTypes
      <4>3. Len(receiveBuffer) \in Nat
        BY <4>2
      <4> QED BY <4>1, <4>2, <4>3
    <3> QED BY <2>1, <3>1 DEF SendUp, pcSide, simSide
  <2>2. CASE WriteStream
    BY <2>2 DEF WriteStream, pcSide, simSide, UpTypes
  <2> QED BY <2>1, <2>2
<1>2. /\ bank' = SubSeq(receiveBuffer, bytesProcessed + 1, at)
      /\ n < Left => bytesProcessed' = at /\ pc' = "write" /\ UNCHANGED <<receiveBuffer, harm>>
      /\ ~(n < Left) => /\ receiveBuffer' = <<>> /\ bytesProcessed' = 0 /\ pc' = "out"
                        /\ harm' = IF n = BANK THEN harm \cup {"full bank"} ELSE harm
  BY DEF SendUp, WriteStream, FillBank
<1>3. harm = {}
  BY <1>2
<1>4. Run /\ InStep /\ Delivered
  BY <1>3 DEF Undamaged
<1>5. ArrivedFacts /\ ArrivedFacts' /\ receiveBuffer \in Seq(UpBytes)
  <2>1. ArrivedFacts /\ ArrivedFacts'
    BY ArrivedKnown, ArrivedKnownNext
  <2>2. receiveBuffer \in Seq(UpBytes)
    BY DEF UpTypes
  <2> QED BY <2>1, <2>2
<1>6. PICK a \in Nat, d \in Nat : a = Len(receiveBuffer) /\ d = bytesProcessed /\ d < a
  <2>1. Len(receiveBuffer) \in Nat
    BY <1>5
  <2>2. bytesProcessed \in 0 .. Len(receiveBuffer)
    BY DEF UpTypes
  <2> QED BY <1>1, <2>1, <2>2
<1>7. n \in Nat /\ n >= 1 /\ n <= BANK /\ d + n <= a /\ (n < Left <=> d + n < a) /\ (n < Left => n = BANK)
  BY <1>6 DEF Least, Left, ApiAssumption
<1>8. at = d + n
  BY <1>6
<1> HIDE DEF n, at
<1>9. Len(bank') = n /\ bank' \in Seq(UpBytes)
  <2>1. /\ d + 1 \in Nat /\ at \in Nat /\ d + 1 >= 1 /\ d + 1 <= at + 1 /\ at <= Len(receiveBuffer)
        /\ at + 1 - (d + 1) = n
    BY <1>6, <1>7, <1>8
  <2>2. PICK lo, hi : lo = d + 1 /\ hi = at
    OBVIOUS
  <2>3. SubSeq(receiveBuffer, lo, hi) \in Seq(UpBytes) /\ Len(SubSeq(receiveBuffer, lo, hi)) = hi + 1 - lo
    BY <1>5, <2>1, <2>2, Part
  <2> QED BY <1>2, <1>6, <2>1, <2>2, <2>3
<1>10. ~Whole /\ InBank = 0 /\ bank' # <<>>
  <2>1. Len(bank') # 0
    BY <1>7, <1>9
  <2> QED BY <1>1, <2>1 DEF Whole, InBank
<1>11. Current' = SubSeq(receiveBuffer, 1, at)
  <2>1. Current = SubSeq(receiveBuffer, 1, d)
    BY <1>4, <1>6, <1>10 DEF Delivered
  <2>2. Current' = Current \o bank'
    <3>1. transfer \in Seq(UpBytes) /\ transfer \o <<>> = transfer /\ <<>> \o bank' = bank'
      <4>1. transfer \in Seq(UpBytes)
        BY DEF UpTypes
      <4> QED BY <1>9, <4>1, ConcatEmptySeq
    <3> QED BY <1>1, <3>1 DEF Current
  <2>3. SubSeq(receiveBuffer, 1, d) \o SubSeq(receiveBuffer, d + 1, at) = SubSeq(receiveBuffer, 1, at)
    <3>1. 1 \in 1 .. Len(receiveBuffer) + 1 /\ d \in 1 - 1 .. Len(receiveBuffer) /\ at \in d .. Len(receiveBuffer)
      BY <1>6, <1>7, <1>8
    <3> QED BY <1>5, <3>1, ConcatAdjacentSubSeq
  <2> QED BY <1>2, <1>6, <2>1, <2>2, <2>3
<1>12. Begun' = Begun /\ Finished' = Finished /\ (Silent' <=> Silent) /\ InCallback' = InCallback
  BY <1>1 DEF Begun, Finished, Silent, InCallback
<1>13. \A p, k : Packet(p)' = Packet(p)
  BY <1>1 DEF Packet
<1>14. Cardinality(Passed) = Len(handled) + InCallback
  <2>1. Len(handled) \in Nat /\ InCallback \in Nat
    <3>1. handled \in Seq(Seq(UpBytes))
      BY DEF UpTypes
    <3> QED BY <3>1 DEF InCallback
  <2> QED BY <1>4, <1>10, <2>1 DEF Delivered
<1>15. ASSUME Passed \subseteq Passed', \A p \in Passed : p \in Passed'
       PROVE  /\ \A k \in 1 .. Len(handled') : \E p \in Passed' : IsNth(p, k)' /\ handled'[k] = Packet(p)'
              /\ reader' = "callback" => \E p \in Passed' : IsNth(p, Len(handled) + 1)' /\ transfer' = Packet(p)'
  <2>1. ASSUME NEW k \in 1 .. Len(handled)
        PROVE  \E p \in Passed' : IsNth(p, k)' /\ handled[k] = Packet(p)'
    <3>1. PICK p \in Passed : IsNth(p, k) /\ handled[k] = Packet(p)
      BY <1>4 DEF Delivered
    <3>2. p \in Passed' /\ IsNth(p, k)' /\ handled[k] = Packet(p)'
      BY <1>12, <1>13, <1>15, <3>1 DEF IsNth
    <3> QED BY <3>2
  <2>2. ASSUME reader = "callback"
        PROVE  \E p \in Passed' : IsNth(p, Len(handled) + 1)' /\ transfer = Packet(p)'
    <3>1. PICK p \in Passed : IsNth(p, Len(handled) + 1) /\ transfer = Packet(p)
      BY <1>4, <2>2 DEF Delivered
    <3>2. p \in Passed' /\ IsNth(p, Len(handled) + 1)' /\ transfer = Packet(p)'
      BY <1>1, <1>12, <1>13, <1>15, <3>1 DEF IsNth
    <3> QED BY <3>2
  <2> QED BY <1>1, <2>1, <2>2
<1>16. CASE n < Left
  <2>1. UNCHANGED receiveBuffer /\ pc' = "write" /\ bytesProcessed' = at /\ n = BANK
    BY <1>2, <1>7, <1>16
  <2>2. Arrived' = Arrived
    BY <1>1, <2>1 DEF Arrived
  <2>3. Run' /\ InStep'
    BY <1>1, <1>4, <1>12, <2>1, <2>2 DEF Run, InStep
  <2>4. Passed' = Passed /\ ~Whole' /\ InBank' = 0
    <3>1. Coming' = Coming
      BY <1>12, <2>2 DEF Coming
    <3> QED BY <1>12, <2>1, <3>1 DEF Passed, Whole, InBank
  <2>5. Cardinality(Passed') = Len(handled') + InCallback' + InBank'
    BY <1>1, <1>4, <1>10, <1>12, <2>4 DEF Delivered
  <2>6. Current' = SubSeq(receiveBuffer', 1, bytesProcessed')
    BY <1>11, <2>1
  <2>7. Delivered'
    BY <1>9, <1>15, <2>1, <2>4, <2>5, <2>6 DEF Delivered
  <2> QED BY <2>3, <2>7
<1>17. CASE ~(n < Left)
  <2>1. receiveBuffer' = <<>> /\ bytesProcessed' = 0 /\ pc' = "out" /\ n < BANK /\ at = a
    <3>1. receiveBuffer' = <<>> /\ bytesProcessed' = 0 /\ pc' = "out"
          /\ harm' = IF n = BANK THEN harm \cup {"full bank"} ELSE harm
      BY <1>2, <1>17
    <3>2. n # BANK
      BY <3>1
    <3>3. BANK \in Nat
      BY DEF ApiAssumption
    <3> QED BY <1>7, <1>8, <1>17, <3>1, <3>2, <3>3
  <2>2. /\ Coming \in 1 .. Begun /\ receiveBuffer = Packet(Coming) /\ Coming \in Finished
        /\ rx = <<>> => Coming = Begun /\ sent = lengths[Begun]
        /\ rx # <<>> => rx[1] = [of |-> Coming + 1, at |-> 1]
    BY <1>1, <1>4, CompletePacket
  <2>3. Arrived' = rx /\ Begun \in Nat
    BY <1>1, <1>5, <2>1 DEF ArrivedFacts
  <2>4. PICK m \in Nat : m = Len(rx) /\ Len(Arrived) = a + m
    BY <1>5, <1>6 DEF ArrivedFacts
  <2>5. \A i \in 1 .. m : a + i \in 1 .. Len(Arrived) /\ Arrived'[i] = Arrived[a + i]
    BY <1>5, <1>6, <2>3, <2>4 DEF ArrivedFacts
  <2>6. Run'
    <3> SUFFICES ASSUME NEW i \in 1 .. m, NEW j \in 1 .. m
                 PROVE  LET l == lengths'[Arrived'[i].of] - Arrived'[i].at IN
                          /\ i <= j /\ j - i <= l
                               => Arrived'[j] = [of |-> Arrived'[i].of, at |-> Arrived'[i].at + j - i]
                          /\ j - i = l + 1 => Arrived'[j] = [of |-> Arrived'[i].of + 1, at |-> 1]
      BY <2>3, <2>4 DEF Run
    <3>1. PICK e, f : e = Arrived[a + i] /\ f = Arrived[a + j]
      OBVIOUS
    <3>2. Arrived'[i] = e /\ Arrived'[j] = f
      BY <2>5, <3>1
    <3>3. PICK l : l = lengths[e.of]
      OBVIOUS
    <3>4. /\ a + i <= a + j /\ a + j - (a + i) <= l - e.at => f = [of |-> e.of, at |-> e.at + (a + j) - (a + i)]
          /\ a + j - (a + i) = l - e.at + 1 => f = [of |-> e.of + 1, at |-> 1]
      <4>1. a + i \in 1 .. Len(Arrived) /\ a + j \in 1 .. Len(Arrived)
        BY <2>5
      <4>2. PICK x, y : x = a + i /\ y = a + j
        OBVIOUS
      <4>3. /\ x <= y /\ y - x <= l - e.at => f = [of |-> e.of, at |-> e.at + y - x]
            /\ y - x = l - e.at + 1 => f = [of |-> e.of + 1, at |-> 1]
        BY <1>4, <3>1, <3>3, <4>1, <4>2 DEF Run
      <4> QED BY <4>2, <4>3
    <3>5. e.at \in Nat
      <4>1. e \in UpBytes
        BY <1>5, <2>5, <3>1 DEF ArrivedFacts
      <4> QED BY <4>1 DEF UpBytes
    <3>6. /\ (a + i <= a + j <=> i <= j) /\ a + j - (a + i) = j - i
          /\ e.at + (a + j) - (a + i) = e.at + j - i
      BY <3>5
    <3>7. /\ i <= j /\ j - i <= l - e.at => f = [of |-> e.of, at |-> e.at + j - i]
          /\ j - i = l - e.at + 1 => f = [of |-> e.of + 1, at |-> 1]
      BY <3>4, <3>6
    <3> QED BY <1>1, <3>2, <3>3, <3>7
  <2>7. InStep'
    <3>1. \A i \in 1 .. Len(Arrived') :
            /\ Arrived'[i].of \in 1 .. Begun' /\ Arrived'[i].at \in 1 .. lengths'[Arrived'[i].of]
            /\ Arrived'[i].of \in abandoned' => Arrived'[i].of = Begun'
      <4> SUFFICES ASSUME NEW i \in 1 .. m
                   PROVE  /\ Arrived'[i].of \in 1 .. Begun /\ Arrived'[i].at \in 1 .. lengths[Arrived'[i].of]
                          /\ Arrived'[i].of \in abandoned => Arrived'[i].of = Begun
        BY <1>1, <1>12, <2>3, <2>4
      <4>1. PICK e : e = Arrived[a + i] /\ e = Arrived'[i] /\ a + i \in 1 .. Len(Arrived)
        BY <2>5
      <4>2. e.of \in 1 .. Begun /\ e.at \in 1 .. lengths[e.of] /\ (e.of \in abandoned => e.of = Begun)
        BY <1>4, <4>1 DEF InStep
      <4> QED BY <4>1, <4>2
    <3>2. ASSUME Arrived' # <<>>
          PROVE  Arrived'[1].at = 1 /\ Arrived'[Len(Arrived')] = [of |-> Begun', at |-> sent']
      <4>1. m # 0 /\ m \in 1 .. m
        <5>1. Len(rx) # 0
          <6>1. rx \in Seq(UpBytes)
            BY DEF UpTypes
          <6> QED BY <2>3, <3>2, <6>1
        <5> QED BY <2>4, <5>1
      <4>2. Arrived'[m] = Arrived[Len(Arrived)] /\ Arrived # <<>>
        <5>1. a + m \in 1 .. Len(Arrived) /\ Arrived'[m] = Arrived[a + m]
          BY <2>5, <4>1
        <5>2. Arrived # <<>>
          BY <1>6, <2>4
        <5> QED BY <2>4, <5>1, <5>2
      <4>3. Arrived'[1].at = 1
        BY <2>2, <2>3, <3>2
      <4> QED BY <1>1, <1>4, <1>12, <2>3, <2>4, <4>2, <4>3 DEF InStep
    <3>3. Arrived' = <<>> => Silent'
      BY <1>12, <2>2, <2>3 DEF Silent, Begun
    <3>4. Begun' \in abandoned' => sent' >= 2 /\ sent' < lengths'[Begun']
      BY <1>1, <1>4, <1>12 DEF InStep
    <3> QED BY <2>1, <3>1, <3>2, <3>3, <3>4 DEF InStep
  <2>8. Coming' = Coming + 1
    <3>1. CASE rx = <<>>
      BY <1>12, <2>2, <2>3, <3>1 DEF Coming
    <3>2. CASE rx # <<>>
      BY <2>2, <2>3, <3>2 DEF Coming
    <3> QED BY <3>1, <3>2
  <2>9. \A p \in Finished : p \in Nat
    <3>1. Finished \subseteq 1 .. Begun
      BY Counted
    <3> QED BY <2>3, <3>1
  <2>10. Passed' = Passed \cup {Coming} /\ Coming \notin Passed
         /\ Passed' = {q \in Finished : q <= Coming} /\ Coming \in Nat
    <3>1. Coming \in Nat
      BY <2>2, <2>3
    <3>2. \A p \in Finished : (p < Coming + 1 <=> p < Coming \/ p = Coming) /\ (p <= Coming <=> p < Coming + 1)
      BY <2>9, <3>1
    <3>3. Passed' = {q \in Finished : q < Coming + 1}
      BY <1>12, <2>8 DEF Passed
    <3>4. ~(Coming < Coming)
      BY <3>1
    <3> QED BY <2>2, <3>1, <3>2, <3>3, <3>4 DEF Passed
  <2>11. Cardinality(Passed') = Cardinality(Passed) + 1
    <3>1. IsFiniteSet(Passed)
      BY Counted DEF Passed
    <3> QED BY <2>10, <3>1, FS_AddElement
  <2>12. Whole' /\ InBank' = 1
    BY <1>10, <2>1 DEF Whole, InBank
  <2>13. Cardinality(Passed') = Len(handled') + InCallback' + InBank'
    BY <1>1, <1>12, <1>14, <2>11, <2>12
  <2>14. Current' = Packet(Coming)
    <3>1. SubSeq(receiveBuffer, 1, Len(receiveBuffer)) = receiveBuffer
      BY <1>5, SubSeqFull
    <3> QED BY <1>6, <1>11, <2>1, <2>2, <3>1
  <2>15. \E p \in Passed' : IsNth(p, Len(handled) + InCallback + 1)' /\ Current' = Packet(p)'
    <3>1. PICK p : p = Coming
      OBVIOUS
    <3>2. p \in Passed' /\ {q \in Finished' : q <= p} = Passed'
      BY <1>12, <2>10, <3>1
    <3>3. Cardinality(Passed') = Len(handled') + InCallback' + 1
      BY <2>12, <2>13
    <3>4. IsNth(p, Len(handled) + InCallback + 1)'
      BY <3>2, <3>3 DEF IsNth
    <3>5. Current' = Packet(p)'
      BY <1>13, <2>14, <3>1
    <3> QED BY <3>2, <3>4, <3>5
  <2>16. Delivered'
    BY <1>9, <1>15, <2>1, <2>10, <2>12, <2>13, <2>15 DEF Delivered
  <2> QED BY <2>6, <2>7, <2>16
<1> QED BY <1>16, <1>17

LEMMA UndamagedInit == Init => Undamaged
<1> SUFFICES ASSUME Init PROVE Run /\ InStep /\ Delivered
  BY DEF Undamaged
<1>1. Arrived = <<>> /\ Len(Arrived) = 0 /\ Begun = 0 /\ Silent
  BY DEF Init, Arrived, Begun, Silent
<1>2. \A i \in 1 .. Len(Arrived) : FALSE
  BY <1>1
<1>3. Run /\ InStep
  BY <1>1, <1>2 DEF Run, InStep, Init
<1>4. Finished = {} /\ Passed = {}
  <2>1. \A p \in DOMAIN lengths : FALSE
    BY DEF Init
  <2> QED BY <2>1 DEF Finished, Passed
<1>5. Cardinality(Passed) = 0
  BY <1>4, FS_EmptySet
<1>6. ~Whole /\ InBank = 0 /\ InCallback = 0 /\ Current = <<>>
  BY DEF Init, Whole, InBank, InCallback, Current
<1>7. Current = SubSeq(receiveBuffer, 1, bytesProcessed)
  BY <1>6, SubSeqEmpty DEF Init
<1>8. \A n \in 1 .. Len(handled) : FALSE
  BY DEF Init
<1>9. Cardinality(Passed) = Len(handled) + InCallback + InBank
  BY <1>5, <1>6 DEF Init
<1>10. reader # "callback" /\ bank = <<>>
  BY DEF Init
<1> QED BY <1>3, <1>6, <1>7, <1>8, <1>9, <1>10, Zenon DEF Delivered

LEMMA UndamagedKept ==
  ASSUME ApiAssumption, UpTypes, UpTypes', Undamaged, [Next]_vars
  PROVE  Undamaged'
<1>1. CASE StartWrite
  BY <1>1, DamageUnchanged DEF StartWrite, up, simSide
<1>2. CASE HostReadsIn
  BY <1>2, ReadsKeeps
<1>3. CASE Callback
  BY <1>3, CallbackKeeps
<1>4. CASE ReadOut \/ PutChar \/ PutAll
  BY <1>4, DamageUnchanged DEF ReadOut, PutChar, PutAll, up, simSide, pcSide, down
<1>5. CASE ReceiveLength \/ Receive
  BY <1>5, MovesUp
<1>6. CASE NothingToReceive \/ NothingToSendUp
  BY <1>6, DamageUnchanged DEF NothingToReceive, NothingToSendUp, up, simSide, pcSide, down
<1>7. CASE CheckTimeout
  BY <1>7, ThrownAway
<1>8. CASE SendUp \/ WriteStream
  BY <1>8, FillKeeps
<1>9. CASE StreamTimeout
  BY <1>9 DEF StreamTimeout, Undamaged
<1>10. CASE TickOnly
  BY <1>10, DamageUnchanged DEF TickOnly, up, pcSide
<1>11. CASE TickBegins
  BY <1>11, TickBeginsKeeps
<1>12. CASE TickGoesOn
  BY <1>12, TickGoesOnKeeps
<1>13. CASE Restart
  BY <1>13, RestartKeeps
<1>14. CASE UNCHANGED vars
  BY <1>14, DamageUnchanged DEF vars, up, pcSide, simSide, down
<1> QED BY <1>1, <1>2, <1>3, <1>4, <1>5, <1>6, <1>7, <1>8, <1>9, <1>10, <1>11, <1>12, <1>13, <1>14
        DEF Next, SendReceive_Task, Tick

(* KnownDamage: what the callback has been given is, up to then and in     *)
(* this order, the packets the simulator sent to their end, each whole and *)
(* alone, for as long as none of the four things has happened.             *)
THEOREM PacketsWholeAndInOrder == Spec => []KnownDamage
<1>1. Init => UpTypes /\ Undamaged
  BY ApiAssumption, UpTypesInit, UndamagedInit
<1>2. (UpTypes /\ Undamaged) /\ [Next]_vars => (UpTypes /\ Undamaged)'
  <2> SUFFICES ASSUME UpTypes, Undamaged, [Next]_vars PROVE UpTypes' /\ Undamaged'
    OBVIOUS
  <2>1. UpTypes'
    BY ApiAssumption, UpTypesKept
  <2> QED BY <2>1, ApiAssumption, UndamagedKept
<1>3. UpTypes /\ Undamaged => KnownDamage
  BY NothingWrong
<1> QED BY <1>1, <1>2, <1>3, PTL DEF Spec

-----------------------------------------------------------------------------
(* The types.                                                              *)
PutByte == [of : 1 .. MaxDown, at : 1 .. DownBytes]
PutTypes ==
  /\ tx \in Seq(PutByte) /\ Len(tx) <= TX_ROOM /\ wire \in Seq(PutByte)
  /\ writes <= MaxDown /\ bytesSentSoFar \in 0 .. DownBytes

LEMMA PutTypesKept ==
  ASSUME DownInv, PutTypes, [Next]_vars
  PROVE  PutTypes'
<1>1. offered \in {0, writes} /\ writes \in Nat /\ (offered # 0 => writes > 0)
  BY DEF DownInv, Offered
<1>2. CASE StartWrite
  <2>1. writes' <= MaxDown
    BY <1>1, <1>2, Sizes DEF StartWrite
  <2> QED BY <1>2, <2>1 DEF StartWrite, PutTypes, down, simSide
<1>3. CASE ReadOut
  <2>1. bytesSentSoFar' \in 0 .. DownBytes
    BY <1>3, Sizes DEF ReadOut
  <2> QED BY <1>3, <2>1 DEF ReadOut, PutTypes, simSide
<1>4. CASE PutChar
  <2>1. /\ pc = "put" /\ bytesSentSoFar < DownBytes /\ bytesSentSoFar' = bytesSentSoFar + 1
        /\ Len(tx) < TX_ROOM /\ UNCHANGED <<wire, writes>>
        /\ tx' = Append(tx, [of |-> ReadLast, at |-> bytesSentSoFar + 1])
    BY <1>4 DEF PutChar, pcSide, simSide
  <2>2. ReadLast > 0 /\ bytesSentSoFar \in 0 .. DownBytes
    BY <2>1 DEF DownInv, Progress
  <2>3. ReadLast \in 1 .. MaxDown
    BY <1>1, <2>2, Sizes DEF ReadLast, PutTypes
  <2>4. bytesSentSoFar + 1 \in 1 .. DownBytes
    BY <2>1, <2>2, Sizes
  <2>5. [of |-> ReadLast, at |-> bytesSentSoFar + 1] \in PutByte
    BY <2>3, <2>4 DEF PutByte
  <2>6. tx \in Seq(PutByte) /\ wire \in Seq(PutByte) /\ writes <= MaxDown
    BY DEF PutTypes
  <2>7. tx' \in Seq(PutByte) /\ Len(tx') = Len(tx) + 1
    BY <2>1, <2>5, <2>6, AppendProperties
  <2>8. Len(tx') <= TX_ROOM
    <3>1. Len(tx) \in Nat /\ TX_ROOM \in Nat
      BY <2>6, UpSizes
    <3> QED BY <2>1, <2>7, <3>1
  <2>9. bytesSentSoFar' \in 0 .. DownBytes
    BY <2>1, <2>4
  <2> QED BY <2>1, <2>6, <2>7, <2>8, <2>9 DEF PutTypes
<1>5. CASE Tick
  <2>1. Shift /\ UNCHANGED <<writes, bytesSentSoFar>>
    BY <1>5 DEF Tick, TickOnly, TickBegins, TickGoesOn, pcSide
  <2>2. CASE tx = <<>>
    BY <2>1, <2>2 DEF Shift, PutTypes
  <2>3. CASE tx # <<>>
    <3>1. tx \in Seq(PutByte) /\ wire \in Seq(PutByte) /\ Len(tx) <= TX_ROOM
      BY DEF PutTypes
    <3>2. Head(tx) \in PutByte /\ Tail(tx) \in Seq(PutByte) /\ Len(Tail(tx)) = Len(tx) - 1
      BY <2>3, <3>1, HeadTailProperties
    <3>3. tx' = Tail(tx) /\ wire' = Append(wire, Head(tx))
      BY <2>1, <2>3 DEF Shift
    <3>4. wire' \in Seq(PutByte)
      BY <3>1, <3>2, <3>3, AppendProperties
    <3>5. Len(tx') <= TX_ROOM
      <4>1. Len(tx) \in Nat /\ TX_ROOM \in Nat
        BY <3>1, UpSizes
      <4> QED BY <3>1, <3>2, <3>3, <4>1
    <3> QED BY <2>1, <3>2, <3>3, <3>4, <3>5 DEF PutTypes
  <2> QED BY <2>2, <2>3
<1>6. CASE HostReadsIn \/ Callback \/ Restart \/ PutAll
  BY <1>6 DEF HostReadsIn, Callback, Restart, PutAll, PutTypes, pcSide, down, simSide
<1>7. CASE ReceiveLength \/ Receive \/ NothingToReceive \/ CheckTimeout
  BY <1>7 DEF ReceiveLength, Receive, NothingToReceive, CheckTimeout, PutTypes, pcSide, down, simSide
<1>8. CASE SendUp \/ NothingToSendUp \/ WriteStream \/ StreamTimeout
  BY <1>8 DEF SendUp, NothingToSendUp, WriteStream, StreamTimeout, PutTypes, pcSide, down, simSide
<1>9. CASE UNCHANGED vars
  BY <1>9 DEF vars, PutTypes, pcSide, down, simSide
<1> QED BY <1>2, <1>3, <1>4, <1>5, <1>6, <1>7, <1>8, <1>9 DEF Next, SendReceive_Task

(* TypeOK: the rings keep their room, no bank or buffer ever has more than *)
(* it holds, and no byte belongs to a packet that was not written or begun.*)
THEOREM ApiTyped == Spec => []TypeOK
<1>1. Init => UpTypes /\ DownInv /\ PutTypes
  <2> SUFFICES ASSUME Init PROVE PutTypes
    BY UpTypesInit, InitDown
  <2>1. <<>> \in Seq(PutByte) /\ Len(<<>>) = 0
    BY EmptySeq
  <2> QED BY <2>1, Sizes, UpSizes DEF Init, PutTypes
<1>2. (UpTypes /\ DownInv /\ PutTypes) /\ [Next]_vars => (UpTypes /\ DownInv /\ PutTypes)'
  BY UpTypesKept, DownStep, PutTypesKept
<1>3. UpTypes /\ DownInv /\ PutTypes => TypeOK
  <2> SUFFICES ASSUME UpTypes, DownInv, PutTypes PROVE TypeOK
    OBVIOUS
  <2>1. offered \in 0 .. MaxDown /\ writes \in 0 .. MaxDown
    BY Sizes DEF DownInv, Offered, PutTypes
  <2>2. lengths \in Seq(UpLengths) /\ Len(lengths) <= MaxUp /\ Len(lengths) \in Nat
    <3>1. lengths \in Seq(UpLengths) /\ Len(lengths) <= MaxUp
      BY DEF UpTypes
    <3> QED BY <3>1
  <2>3. sent \in 0 .. Longest
    <3>1. /\ sent \in Nat
          /\ lengths = <<>> => sent = 0
          /\ lengths # <<>> => sent <= lengths[Len(lengths)]
      BY DEF UpTypes
    <3>2. lengths # <<>> => lengths[Len(lengths)] \in Nat /\ lengths[Len(lengths)] <= Longest
      <4>1. lengths # <<>> => Len(lengths) \in 1 .. Len(lengths)
        BY <2>2
      <4> QED BY <2>2, <4>1, ElementOfSeq, UpSizes
    <3> QED BY <3>1, <3>2, UpSizes
  <2>4. abandoned \subseteq 1 .. MaxUp
    <3>1. abandoned \subseteq 1 .. Len(lengths)
      BY DEF UpTypes
    <3> QED BY <2>2, <3>1, UpSizes
  <2>5. bytesProcessed \in 0 .. Longest
    <3>1. /\ receiveBuffer \in Seq(UpBytes) /\ bytesWaiting \in 0 .. Longest - 2
          /\ Len(receiveBuffer) + bytesWaiting <= Longest /\ bytesProcessed \in 0 .. Len(receiveBuffer)
      BY DEF UpTypes
    <3>2. Len(receiveBuffer) \in Nat
      BY <3>1
    <3> QED BY <3>1, <3>2, UpSizes
  <2> QED BY <2>1, <2>2, <2>3, <2>4, <2>5 DEF UpTypes, PutTypes, PutByte, TypeOK
<1> QED BY <1>1, <1>2, <1>3, PTL DEF Spec
=============================================================================
