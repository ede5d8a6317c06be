-------------------------- MODULE SendReceiveProofs --------------------------
(***************************************************************************)
(* Proofs about SendReceive for every number and length of packets, every  *)
(* timeout, and a peer that may stall: the variables keep their types, and *)
(* a packet that is ready is the next one the peer sent.                   *)
(***************************************************************************)
EXTENDS SendReceive, TLAPS

(* The packets lie one after the other in the stream and fill it. *)
PacketsTile ==
  /\ sent = 0 => total = 0
  /\ \A k \in 1 .. sent :
       /\ length[k] >= 1 /\ start[k] + length[k] + 2 <= total
       /\ k = sent => start[k] + length[k] + 2 = total
       /\ k < sent => start[k + 1] = start[k] + length[k] + 2
       /\ \A j \in 1 .. sent : k < j => start[k] < start[j]
  /\ sent > 0 => start[1] = 0

(* The state a timeout leaves: nothing received, nothing handled since. *)
Stuck == receivedFirst /\ ~packetHandled /\ bytesSoFar = 0

(* The place of the first byte of packet handled + 1. *)
NextPlace == IF handled < sent THEN start[handled + 1] ELSE total

BetweenPackets ==
  bytesSoFar = 0 =>
    /\ bytesWaiting = 0
    /\ ~Stuck => handled <= sent /\ read = NextPlace

Receiving == receivedFirst /\ ~packetHandled

InsidePacket ==
  bytesSoFar > 0 =>
    /\ Receiving
    /\ handled < sent /\ bytesSoFar >= 2
    /\ bytesSoFar + bytesWaiting = length[handled + 1] + 2
    /\ read = start[handled + 1] + bytesSoFar
    /\ \A i \in 0 .. bytesSoFar - 1 : receiveBuffer[i] = start[handled + 1] + i

(* The two halves of TypeOK: no prover takes both in one step. *)
Numbers ==
  /\ sent \in 0 .. MaxPackets
  /\ start \in [1 .. MaxPackets -> Nat]
  /\ length \in [1 .. MaxPackets -> 0 .. MaxLength]
  /\ total \in Nat /\ arrived \in 0 .. total /\ read \in 0 .. arrived
  /\ receiveBuffer \in [Indices -> Nat]
  /\ bytesSoFar \in 0 .. MaxLength + 2 /\ bytesWaiting \in 0 .. MaxLength
  /\ receiveTimeout \in 0 .. TimeoutLimit + 1
  /\ handled \in Nat
Flags == packetHandled \in BOOLEAN /\ receivedFirst \in BOOLEAN

(* The inductive invariant. *)
Framing == Numbers /\ Flags /\ PacketsTile /\ BetweenPackets /\ InsidePacket

LEMMA Bounds ==
  MaxPackets \in Nat /\ MaxLength \in Nat /\ MaxLength >= 1 /\ TimeoutLimit \in Nat
BY SendReceiveAssumption

USE Bounds DEF Indices

-----------------------------------------------------------------------------
(* The stream begins empty and the receiver between packets. *)
LEMMA InitFraming == Init => Framing
<1> SUFFICES ASSUME Init PROVE Framing
  OBVIOUS
<1>1. /\ receiveBuffer \in [Indices -> Nat]
      /\ start \in [1 .. MaxPackets -> Nat]
      /\ length \in [1 .. MaxPackets -> 0 .. MaxLength]
  BY DEF Init
<1>2. /\ sent = 0 /\ total = 0 /\ arrived = 0 /\ read = 0 /\ handled = 0
      /\ bytesSoFar = 0 /\ bytesWaiting = 0 /\ receiveTimeout = 0
  BY DEF Init
<1>3. Flags /\ Stuck = FALSE
  BY DEF Init, Flags, Stuck
<1>4. Numbers
  BY <1>1, <1>2 DEF Numbers
<1>5. PacketsTile /\ BetweenPackets /\ InsidePacket
  BY <1>2, <1>3 DEF PacketsTile, BetweenPackets, InsidePacket, NextPlace
<1> QED BY <1>3, <1>4, <1>5 DEF Framing

(* A packet the peer adds continues the tiling; no place changes. *)
LEMMA PeerFraming == Framing /\ PeerSends => Framing'
<1> SUFFICES ASSUME Framing, sent < MaxPackets, sent' = sent + 1,
                    UNCHANGED <<arrived, receiver>>,
                    NEW n \in 1 .. MaxLength,
                    start' = [start EXCEPT ![sent + 1] = total],
                    length' = [length EXCEPT ![sent + 1] = n],
                    total' = total + n + 2
             PROVE  Framing'
  BY DEF PeerSends
<1>1. Flags' /\ Stuck' = Stuck /\ Receiving' = Receiving
  BY DEF Framing, Flags, Stuck, Receiving, receiver
<1>2. /\ Numbers /\ arrived' = arrived /\ read' = read /\ handled' = handled
      /\ receiveBuffer' = receiveBuffer /\ receiveTimeout' = receiveTimeout
      /\ bytesSoFar' = bytesSoFar /\ bytesWaiting' = bytesWaiting
  BY DEF Framing, receiver
<1>3. /\ sent + 1 \in 1 .. MaxPackets
      /\ start'[sent + 1] = total /\ length'[sent + 1] = n
      /\ \A k \in 1 .. sent : start'[k] = start[k] /\ length'[k] = length[k]
  BY <1>2 DEF Numbers
<1>4. Numbers'
  <2>1. start' \in [1 .. MaxPackets -> Nat]               BY <1>2 DEF Numbers
  <2>2. length' \in [1 .. MaxPackets -> 0 .. MaxLength]   BY <1>2 DEF Numbers
  <2>3. sent' \in 0 .. MaxPackets /\ total' \in Nat /\ arrived' \in 0 .. total'
    BY <1>2 DEF Numbers
  <2> QED BY <2>1, <2>2, <2>3, <1>2 DEF Numbers
<1>5. PacketsTile'
  <2>1. /\ PacketsTile /\ sent \in Nat /\ total \in Nat /\ n >= 1
        /\ \A k \in 1 .. sent : start[k] \in Nat /\ length[k] \in Nat
    BY <1>2 DEF Framing, Numbers
  <2>2. ASSUME NEW k \in 1 .. sent
        PROVE  /\ length'[k] >= 1 /\ start'[k] + length'[k] + 2 <= total'
               /\ start'[k + 1] = start'[k] + length'[k] + 2
               /\ \A j \in 1 .. sent' : k < j => start'[k] < start'[j]
    <3>1. start[k] < total /\ length[k] >= 1 /\ start[k] + length[k] + 2 <= total
      BY <2>1 DEF PacketsTile
    <3>2. ASSUME NEW j \in 1 .. sent', k < j PROVE start'[k] < start'[j]
      <4>1. CASE j \in 1 .. sent   BY <4>1, <3>2, <2>1, <1>3 DEF PacketsTile
      <4>2. CASE j = sent + 1      BY <4>2, <3>1, <2>1, <1>3
      <4> QED BY <4>1, <4>2, <2>1
    <3>3. start'[k + 1] = start'[k] + length'[k] + 2
      <4>1. CASE k = sent   BY <4>1, <2>1, <1>3 DEF PacketsTile
      <4>2. CASE k < sent   BY <4>2, <2>1, <1>3 DEF PacketsTile
      <4> QED BY <4>1, <4>2, <2>1
    <3> QED BY <3>1, <3>2, <3>3, <2>1, <1>3
  <2>3. sent' > 0 /\ start'[1] = 0
    <3>1. CASE sent = 0   BY <3>1, <2>1, <1>3 DEF PacketsTile
    <3>2. CASE sent > 0   BY <3>2, <2>1, <1>3 DEF PacketsTile
    <3> QED BY <3>1, <3>2, <2>1
  <2>4. /\ length'[sent'] >= 1 /\ start'[sent'] + length'[sent'] + 2 = total'
        /\ sent' = sent + 1
    BY <2>1, <1>3
  <2> QED BY <2>1, <2>2, <2>3, <2>4 DEF PacketsTile
<1>6. BetweenPackets'
  <2>1. BetweenPackets /\ handled \in Nat /\ sent \in Nat
    BY <1>2 DEF Framing, Numbers
  <2>2. handled <= sent => NextPlace' = NextPlace
    BY <2>1, <1>2, <1>3 DEF NextPlace
  <2> QED BY <2>1, <2>2, <1>1, <1>2 DEF BetweenPackets
<1>7. InsidePacket'
  <2>1. InsidePacket /\ handled \in Nat /\ sent \in Nat
    BY <1>2 DEF Framing, Numbers
  <2>2. handled < sent => /\ length'[handled + 1] = length[handled + 1]
                          /\ start'[handled + 1] = start[handled + 1]
    BY <2>1, <1>3
  <2> QED BY <2>1, <2>2, <1>1, <1>2 DEF InsidePacket
<1> QED BY <1>1, <1>4, <1>5, <1>6, <1>7 DEF Framing

(* A byte that arrives is not looked at yet. *)
LEMMA ArriveFraming == Framing /\ ByteArrives => Framing'
<1> SUFFICES ASSUME Framing, ByteArrives PROVE Framing'
  OBVIOUS
<1>1. Flags' /\ Stuck' = Stuck /\ Receiving' = Receiving
  BY DEF ByteArrives, Framing, Flags, Stuck, Receiving, receiver
<1>2. /\ sent' = sent /\ start' = start /\ length' = length /\ total' = total
      /\ arrived' = arrived + 1 /\ arrived < total
      /\ read' = read /\ handled' = handled
      /\ receiveBuffer' = receiveBuffer /\ receiveTimeout' = receiveTimeout
      /\ bytesSoFar' = bytesSoFar /\ bytesWaiting' = bytesWaiting
  BY DEF ByteArrives, peer, receiver
<1>3. Numbers'
  BY <1>2 DEF Framing, Numbers
<1>4. PacketsTile' /\ BetweenPackets' /\ InsidePacket'
  BY <1>1, <1>2 DEF Framing, PacketsTile, BetweenPackets, InsidePacket, NextPlace
<1> QED BY <1>1, <1>3, <1>4 DEF Framing

(* The first two bytes taken are a packet's length bytes: reading is at the*)
(* beginning of the next packet, and no other packet begins there.         *)
LEMMA StartFraming ==
  Framing /\ StartPacket /\ UNCHANGED <<peer, arrived, handled>> => Framing'
<1> SUFFICES ASSUME Framing, StartPacket, UNCHANGED <<peer, arrived, handled>>
             PROVE  Framing'
  OBVIOUS
<1>1. bytesSoFar = 0 /\ ~Stuck
  <2>1. SoFar = 0 /\ (~receivedFirst \/ packetHandled)
    BY DEF StartPacket, MayStart
  <2>2. bytesSoFar > 0 => FALSE
    BY <2>1 DEF Framing, InsidePacket, Receiving, SoFar
  <2>3. bytesSoFar = 0
    BY <2>2 DEF Framing, Numbers
  <2> QED BY <2>1, <2>3 DEF Stuck
<1>2. /\ sent' = sent /\ start' = start /\ length' = length /\ total' = total
      /\ arrived' = arrived /\ read' = read + 2 /\ handled' = handled
      /\ bytesSoFar' = 2 /\ receiveTimeout' = 0 /\ arrived - read >= 2
  BY DEF StartPacket, MayStart, uart_available, peer
<1>3. Flags' /\ Receiving'
  BY DEF StartPacket, Flags, Receiving
<1>4. Numbers /\ PacketsTile
  BY DEF Framing
<1>5. handled < sent /\ read = start[handled + 1]
  BY <1>1, <1>2 DEF Framing, Numbers, BetweenPackets, NextPlace
<1>6. ASSUME NEW j \in 1 .. sent, start[j] = read PROVE j = handled + 1
  <2>1. handled + 1 \in 1 .. sent /\ start[j] \in Nat
    BY <1>4, <1>5 DEF Numbers
  <2> QED BY <1>4, <1>5, <1>6, <2>1 DEF PacketsTile
<1>7. /\ bytesWaiting' = length[handled + 1]
      /\ length[handled + 1] \in 1 .. MaxLength /\ handled + 1 \in 1 .. sent
  <2>1. handled + 1 \in 1 .. sent  BY <1>4, <1>5 DEF Numbers
  <2>2. bytesWaiting' = length[handled + 1]
    <3>1. bytesWaiting' \in Spelled(read)  BY DEF StartPacket
    <3>2. Spelled(read) = {length[k] : k \in {j \in 1 .. sent : start[j] = read}}
      BY <2>1, <1>5 DEF Spelled
    <3> QED BY <3>1, <3>2, <1>6
  <2> QED BY <2>1, <2>2, <1>4 DEF Numbers, PacketsTile
<1>8. /\ receiveBuffer' \in [Indices -> Nat]
      /\ receiveBuffer'[0] = read /\ receiveBuffer'[1] = read + 1
  <2>1. receiveBuffer' = [receiveBuffer EXCEPT ![0] = read, ![1] = read + 1]
    BY DEF StartPacket
  <2>2. /\ receiveBuffer \in [Indices -> Nat] /\ read \in Nat
        /\ 0 \in Indices /\ 1 \in Indices
    BY <1>4 DEF Numbers
  <2> HIDE DEF Indices
  <2> QED BY <2>1, <2>2
<1>9. Numbers'
  <2>1. receiveBuffer' \in [Indices -> Nat] BY <1>8
  <2>2. read' \in 0 .. arrived' /\ bytesWaiting' \in 0 .. MaxLength
    BY <1>2, <1>4, <1>7 DEF Numbers
  <2>3. bytesSoFar' \in 0 .. MaxLength + 2 /\ receiveTimeout' \in 0 .. TimeoutLimit + 1
    BY <1>2
  <2>4. /\ sent' = sent /\ start' = start /\ length' = length /\ total' = total
        /\ arrived' = arrived /\ handled' = handled
    BY <1>2
  <2> QED BY <2>1, <2>2, <2>3, <2>4, <1>4 DEF Numbers
<1>10. PacketsTile' /\ BetweenPackets'
  BY <1>2, <1>4 DEF PacketsTile, BetweenPackets
<1>11. InsidePacket'
  <2>1. /\ handled' < sent' /\ bytesSoFar' = 2
        /\ bytesWaiting' = length'[handled' + 1]
        /\ read' = start'[handled' + 1] + 2
    BY <1>2, <1>5, <1>7
  <2>2. \A i \in 0 .. 1 : receiveBuffer'[i] = start'[handled' + 1] + i
    <3>1. /\ read \in Nat /\ start'[handled' + 1] = read
      BY <1>2, <1>4, <1>5 DEF Numbers
    <3> QED BY <3>1, <1>8
  <2>3. length'[handled' + 1] \in Nat
    BY <1>2, <1>7
  <2> QED BY <2>1, <2>2, <2>3, <1>3 DEF InsidePacket
<1> QED BY <1>3, <1>9, <1>10, <1>11 DEF Framing

(* Later bytes extend the packet being received, and no further; a timeout *)
(* leaves the receiver stuck.                                              *)
LEMMA ContinueFraming ==
  Framing /\ ContinuePacket /\ UNCHANGED <<peer, arrived, handled>> => Framing'
<1> SUFFICES ASSUME Framing, ContinuePacket, UNCHANGED <<peer, arrived, handled>>
             PROVE  Framing'
  OBVIOUS
<1>1. /\ Numbers /\ PacketsTile /\ BetweenPackets /\ InsidePacket
      /\ sent' = sent /\ start' = start /\ length' = length /\ total' = total
      /\ arrived' = arrived /\ handled' = handled
  BY DEF Framing, peer
<1>2. PacketsTile'
  BY <1>1 DEF PacketsTile
<1>3. Flags' /\ Receiving' = Receiving
      /\ receivedFirst' = receivedFirst /\ packetHandled' = packetHandled
  BY DEF ContinuePacket, Framing, Flags, Receiving
<1>4. /\ bytesSoFar' = SoFar + Taken /\ bytesWaiting' = Left - Taken
      /\ read' = read + Taken
  BY DEF ContinuePacket
<1>5. ASSUME NEW i \in Indices
      PROVE  receiveBuffer'[i] = IF i \in SoFar .. SoFar + Taken - 1
                                 THEN read + (i - SoFar) ELSE receiveBuffer[i]
  BY DEF ContinuePacket
<1>6. /\ SoFar \in 0 .. MaxLength + 2 /\ Left \in 0 .. MaxLength
      /\ Taken \in 0 .. Left /\ read + Taken <= arrived
  BY <1>1 DEF SoFar, Left, Taken, uart_available, Numbers
<1>7. receiveBuffer' \in [Indices -> Nat]
  <2>1. ASSUME NEW i \in Indices PROVE receiveBuffer'[i] \in Nat
    <3>1. receiveBuffer[i] \in Nat /\ read \in Nat  BY <1>1 DEF Numbers
    <3> QED BY <3>1, <1>5, <1>6
  <2>2. receiveBuffer' = [i \in Indices |-> receiveBuffer'[i]]
    BY DEF ContinuePacket
  <2> HIDE DEF Indices
  <2> QED BY <2>1, <2>2
<1>8. receiveTimeout' \in 0 .. TimeoutLimit + 1
  BY <1>1 DEF ContinuePacket, Expired, Numbers
<1>9. SoFar + Left <= MaxLength + 2
  <2>1. CASE bytesSoFar = 0
    BY <2>1, <1>1 DEF BetweenPackets, SoFar, Left
  <2>2. CASE bytesSoFar > 0
    <3>1. /\ bytesSoFar + bytesWaiting = length[handled + 1] + 2
          /\ handled < sent /\ handled \in Nat /\ sent \in 0 .. MaxPackets
      BY <2>2, <1>1 DEF InsidePacket, Numbers
    <3>2. length \in [1 .. MaxPackets -> 0 .. MaxLength]
      BY <1>1 DEF Numbers
    <3>3. length[handled + 1] \in 0 .. MaxLength
      BY <3>1, <3>2
    <3>4. bytesSoFar + bytesWaiting <= MaxLength + 2
      BY <3>1, <3>3
    <3>5. \/ SoFar = 0 /\ Left = 0
          \/ SoFar = bytesSoFar /\ Left = bytesWaiting
      BY DEF SoFar, Left
    <3> QED BY <3>4, <3>5
  <2> QED BY <2>1, <2>2, <1>1 DEF Numbers
<1>10. Numbers'
  <2>1. /\ bytesSoFar' \in 0 .. MaxLength + 2 /\ bytesWaiting' \in 0 .. MaxLength
        /\ read' \in 0 .. arrived'
    BY <1>1, <1>4, <1>6, <1>9 DEF Numbers
  <2> QED BY <2>1, <1>1, <1>7, <1>8 DEF Numbers
<1>11. CASE bytesSoFar = 0
  <2>1. bytesWaiting = 0 /\ SoFar = 0 /\ Left = 0 /\ Taken = 0
    BY <1>1, <1>6, <1>11 DEF BetweenPackets, SoFar, Left, Numbers
  <2>2. bytesSoFar' = 0 /\ bytesWaiting' = 0 /\ read' = read
    BY <2>1, <1>1, <1>4 DEF Numbers
  <2>3. Stuck' = Stuck
    BY <2>2, <1>3, <1>11 DEF Stuck
  <2>4. BetweenPackets' /\ InsidePacket'
    BY <2>2, <2>3, <1>1, <1>11 DEF BetweenPackets, InsidePacket, NextPlace
  <2> QED BY <2>4, <1>2, <1>3, <1>10 DEF Framing
<1>12. CASE bytesSoFar > 0 /\ Expired
  <2>1. SoFar = 0 /\ Left = 0 /\ Taken = 0
    BY <1>6, <1>12 DEF SoFar, Left
  <2>2. bytesSoFar' = 0 /\ bytesWaiting' = 0
    BY <2>1, <1>4
  <2>3. Stuck'
    BY <2>2, <1>1, <1>3, <1>12 DEF InsidePacket, Receiving, Stuck
  <2>4. BetweenPackets' /\ InsidePacket'
    BY <2>2, <2>3 DEF BetweenPackets, InsidePacket
  <2> QED BY <2>4, <1>2, <1>3, <1>10 DEF Framing
<1>13. CASE bytesSoFar > 0 /\ ~Expired
  <2>1. SoFar = bytesSoFar /\ Left = bytesWaiting
    BY <1>13 DEF SoFar, Left
  <2>2. /\ Receiving /\ handled < sent /\ bytesSoFar >= 2
        /\ bytesSoFar + bytesWaiting = length[handled + 1] + 2
        /\ read = start[handled + 1] + bytesSoFar
        /\ \A i \in 0 .. bytesSoFar - 1 : receiveBuffer[i] = start[handled + 1] + i
        /\ start[handled + 1] \in Nat /\ length[handled + 1] \in 0 .. MaxLength
        /\ bytesSoFar \in Nat /\ bytesWaiting \in Nat /\ handled \in Nat
    BY <1>1, <1>13 DEF InsidePacket, Numbers
  <2>3. /\ bytesSoFar' = bytesSoFar + Taken /\ bytesWaiting' = bytesWaiting - Taken
        /\ Taken \in Nat /\ Taken <= bytesWaiting
    BY <2>1, <2>2, <1>4, <1>6
  <2>4. ASSUME NEW i \in 0 .. bytesSoFar' - 1
        PROVE  receiveBuffer'[i] = start[handled + 1] + i
    <3>1. i \in Indices  BY <2>2, <2>3
    <3>2. CASE i < bytesSoFar
      BY <3>1, <3>2, <2>1, <2>2, <2>3, <1>5
    <3>3. CASE i >= bytesSoFar
      BY <3>1, <3>3, <2>1, <2>2, <2>3, <1>5
    <3> QED BY <3>2, <3>3, <2>2, <2>3
  <2>5. /\ bytesSoFar' > 0 /\ bytesSoFar' >= 2
        /\ bytesSoFar' + bytesWaiting' = length'[handled' + 1] + 2
        /\ read' = start'[handled' + 1] + bytesSoFar' /\ handled' < sent'
    BY <2>2, <2>3, <1>1, <1>4
  <2>6. BetweenPackets'
    BY <2>5 DEF BetweenPackets
  <2>7. InsidePacket'
    BY <2>2, <2>4, <2>5, <1>1, <1>3 DEF InsidePacket
  <2> QED BY <2>6, <2>7, <1>2, <1>3, <1>10 DEF Framing
<1>14. bytesSoFar = 0 \/ bytesSoFar > 0
  BY <1>1 DEF Numbers
<1> QED BY <1>11, <1>12, <1>13, <1>14

(* A packet taken by a handler is complete, so reading is at the beginning *)
(* of the next one.                                                        *)
LEMMA HandleFraming == Framing /\ SetHandled => Framing'
<1> SUFFICES ASSUME Framing, SetHandled PROVE Framing'
  OBVIOUS
<1>1. /\ sent' = sent /\ start' = start /\ length' = length /\ total' = total
      /\ arrived' = arrived /\ read' = read /\ handled' = handled + 1
      /\ receiveBuffer' = receiveBuffer /\ receiveTimeout' = receiveTimeout
      /\ bytesSoFar' = 0 /\ bytesWaiting' = bytesWaiting
      /\ bytesWaiting = 0 /\ bytesSoFar > 0
      /\ Numbers /\ PacketsTile /\ InsidePacket
  BY DEF SetHandled, IsPacketReady, Framing, peer
<1>2. Flags' /\ ~Stuck'
  BY DEF SetHandled, Framing, Flags, Stuck
<1>3. Numbers'
  <2>1. bytesSoFar' \in 0 .. MaxLength + 2 /\ handled' \in Nat
    BY <1>1 DEF Numbers
  <2> QED BY <2>1, <1>1 DEF Numbers
<1>4. /\ handled + 1 \in 1 .. sent
      /\ start[handled + 1] \in Nat /\ length[handled + 1] \in Nat
      /\ read = start[handled + 1] + length[handled + 1] + 2
  <2>1. /\ handled \in Nat /\ sent \in 0 .. MaxPackets /\ handled < sent
        /\ bytesSoFar + bytesWaiting = length[handled + 1] + 2
        /\ read = start[handled + 1] + bytesSoFar
        /\ bytesSoFar \in Nat /\ bytesWaiting = 0
    BY <1>1 DEF Numbers, InsidePacket
  <2>2. /\ start \in [1 .. MaxPackets -> Nat]
        /\ length \in [1 .. MaxPackets -> 0 .. MaxLength]
    BY <1>1 DEF Numbers
  <2>3. /\ handled + 1 \in 1 .. sent
        /\ start[handled + 1] \in Nat /\ length[handled + 1] \in Nat
    BY <2>1, <2>2
  <2> QED BY <2>1, <2>3
<1>5. read' = NextPlace'
  <2>1. CASE handled + 1 < sent
    BY <1>1, <1>4, <2>1 DEF PacketsTile, NextPlace, Numbers
  <2>2. CASE handled + 1 = sent
    BY <1>1, <1>4, <2>2 DEF PacketsTile, NextPlace
  <2> QED BY <1>1, <1>4, <2>1, <2>2 DEF Numbers
<1>6. PacketsTile' /\ InsidePacket'
  BY <1>1 DEF PacketsTile, InsidePacket
<1>7. BetweenPackets'
  BY <1>1, <1>2, <1>4, <1>5 DEF BetweenPackets
<1> QED BY <1>2, <1>3, <1>6, <1>7 DEF Framing

-----------------------------------------------------------------------------
LEMMA FramingStep == Framing /\ [Next]_vars => Framing'
<1> SUFFICES ASSUME Framing, [Next]_vars PROVE Framing'
  OBVIOUS
<1>1. CASE PeerSends    BY <1>1, PeerFraming
<1>2. CASE ByteArrives  BY <1>2, ArriveFraming
<1>3. CASE Task         BY <1>3, StartFraming, ContinueFraming DEF Task
<1>4. CASE SetHandled   BY <1>4, HandleFraming
<1>5. CASE UNCHANGED vars
  <2>1. /\ Flags' = Flags /\ Stuck' = Stuck /\ Receiving' = Receiving
    BY <1>5 DEF vars, receiver, Flags, Stuck, Receiving
  <2>2. /\ sent' = sent /\ start' = start /\ length' = length /\ total' = total
        /\ arrived' = arrived /\ read' = read /\ handled' = handled
        /\ receiveBuffer' = receiveBuffer /\ receiveTimeout' = receiveTimeout
        /\ bytesSoFar' = bytesSoFar /\ bytesWaiting' = bytesWaiting
    BY <1>5 DEF vars, peer, receiver
  <2> QED BY <2>1, <2>2
          DEF Framing, Numbers, PacketsTile, BetweenPackets, InsidePacket, NextPlace
<1> QED BY <1>1, <1>2, <1>3, <1>4, <1>5 DEF Next

(* Framing holds in every state, with or without timeouts. *)
THEOREM FramingInvariant == Spec => []Framing
<1>1. Init => Framing                     BY InitFraming
<1>2. Framing /\ [Next]_vars => Framing'  BY FramingStep
<1> QED BY <1>1, <1>2, PTL DEF Spec

(* The receiver's variables keep their types: the byte loop neither runs   *)
(* past receiveBuffer nor takes bytesWaiting below zero.                   *)
THEOREM TypeCorrect == Spec => []TypeOK
<1>1. Framing => TypeOK  BY DEF Framing, Numbers, Flags, TypeOK
<1> QED BY <1>1, FramingInvariant, PTL

(* A packet SendReceive_IsPacketReady reports is, byte for byte, the next  *)
(* packet the peer sent.                                                   *)
THEOREM PacketsIntact == Spec => []ReadyPacketIntact
<1>1. Framing => ReadyPacketIntact
  <2> SUFFICES ASSUME Framing, bytesSoFar > 0, bytesWaiting = 0
               PROVE  /\ handled < sent /\ bytesSoFar = length[handled + 1] + 2
                      /\ \A i \in 0 .. bytesSoFar - 1 :
                           receiveBuffer[i] = start[handled + 1] + i
    BY DEF ReadyPacketIntact, IsPacketReady
  <2> QED BY DEF Framing, Numbers, InsidePacket
<1> QED BY <1>1, FramingInvariant, PTL
=============================================================================
