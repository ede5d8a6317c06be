--------------------------- MODULE DevicesProofs ---------------------------
(***************************************************************************)
(* Proofs about the emulated devices of Devices, for every set of strings  *)
(* and number of calls, every size of sectors and number of commands,      *)
(* requests and resets: the keyboard's text, and what the disk holds.      *)
(***************************************************************************)
EXTENDS Devices, TLAPS, SequenceTheorems, FiniteSetTheorems

(* What may be in an endpoint, in the PC's queue and on its way to the PC. *)
(* In the queue, messages of more than one bank have the same number n.    *)
AtMostOne(P) == {<<>>} \cup {<<x>> : x \in P}
Messages(P, n) == {m \in Seq(P) : Len(m) <= 1 \/ Len(m) = n}
FromFirmware(Q) ==
  [cmd : {"U"}, kind : {"configure", "class"}] \cup [cmd : {"I"}, data : Q] \cup [cmd : {"A", "E"}]

(* The endpoints are empty while they are not configured.                  *)
PathTypes(P, Q, n) ==
  /\ queue \in Seq(Messages(P, n)) /\ toPC \in Seq(FromFirmware(Q))
  /\ replying \in BOOLEAN /\ waiting \in {"no", "configure", "class", "stuck"}
  /\ replied \in BOOLEAN /\ nested \in BOOLEAN
  /\ receiver \in {"ready", "begun", "deaf"} /\ (receiver # "ready" => queue # <<>>)
  /\ open \in BOOLEAN /\ lost \in SUBSET P
  /\ bank \in AtMostOne(P) /\ out \in AtMostOne(Q)
  /\ rest \in Seq(P) /\ Len(rest) < n
  /\ asks \in 0 .. MaxAsks /\ resets \in 0 .. MaxResets /\ resent \in 0 .. MaxResent
  /\ waiting = "configure" => ~open
  /\ ~open => bank = <<>> /\ out = <<>>

LEMMA PathBounds == MaxAsks \in Nat /\ MaxResets \in Nat /\ MaxResent \in Nat
BY PathAssumption

LEMMA EndpointsAreSeqs ==
  ASSUME NEW P, NEW m \in AtMostOne(P)
  PROVE  m \in Seq(P) /\ Len(m) <= 1
<1>1. CASE m = <<>>
  BY <1>1
<1>2. CASE m # <<>>
  <2>1. PICK x \in P : m = <<x>>
    BY <1>2 DEF AtMostOne
  <2> QED BY <2>1
<1> QED BY <1>1, <1>2

LEMMA PathTypesEnough ==
  ASSUME NEW P, NEW Q, NEW n, PathTypes(P, Q, n)
  PROVE  PathTypeOK(P, Q)
<1>1. \A k \in DOMAIN queue : queue[k] \in Messages(P, n)
  BY ElementOfSeq, LenProperties DEF PathTypes
<1>2. \A k \in DOMAIN toPC : toPC[k] \in FromFirmware(Q)
  BY ElementOfSeq, LenProperties DEF PathTypes
<1>3. \A k \in DOMAIN queue : queue[k] \in Seq(P)
  BY <1>1 DEF Messages
<1>4. \A k \in DOMAIN toPC : \/ toPC[k].cmd \in {"A", "E"}
                             \/ toPC[k].cmd = "U" /\ toPC[k].kind \in {"configure", "class"}
                             \/ toPC[k].cmd = "I" /\ toPC[k].data \in Q
  BY <1>2 DEF FromFirmware
<1>5. bank \in Seq(P) /\ Len(bank) <= 1 /\ out \in Seq(Q) /\ Len(out) <= 1
  BY EndpointsAreSeqs DEF PathTypes
<1> QED BY <1>3, <1>4, <1>5 DEF PathTypes, PathTypeOK

(* The elements of a message taken from the queue, and of the packets read.*)
LEMMA QueueHead ==
  ASSUME NEW P, NEW Q, NEW n \in Nat, PathTypes(P, Q, n), queue # <<>>
  PROVE  /\ Head(queue) \in Messages(P, n) /\ Tail(queue) \in Seq(Messages(P, n))
         /\ Head(queue) \in Seq(P) /\ Len(Head(queue)) \in Nat
         /\ Len(Head(queue)) <= 1 \/ Len(Head(queue)) = n
         /\ Head(queue) # <<>> => /\ Head(Head(queue)) \in P /\ Tail(Head(queue)) \in Seq(P)
                                  /\ Len(Tail(Head(queue))) = Len(Head(queue)) - 1
                                  /\ Len(Head(queue)) >= 1
<1>1. Head(queue) \in Messages(P, n) /\ Tail(queue) \in Seq(Messages(P, n))
  BY HeadTailProperties DEF PathTypes
<1>2. Head(queue) \in Seq(P) /\ (Len(Head(queue)) <= 1 \/ Len(Head(queue)) = n)
  BY <1>1 DEF Messages
<1> DEFINE m == Head(queue)
<1>3. Len(m) \in Nat
  BY <1>2, LenProperties
<1>4. m # <<>> => Head(m) \in P /\ Tail(m) \in Seq(P) /\ Len(Tail(m)) = Len(m) - 1
  BY <1>2, HeadTailProperties
<1>5. m # <<>> => Len(m) >= 1
  BY <1>2, <1>3, EmptySeq
<1> QED BY <1>1, <1>2, <1>3, <1>4, <1>5

LEMMA PacketHead ==
  ASSUME NEW P, NEW Q, NEW n, PathTypes(P, Q, n), toPC # <<>>
  PROVE  /\ Head(toPC) \in FromFirmware(Q) /\ Tail(toPC) \in Seq(FromFirmware(Q))
         /\ Head(toPC).cmd = "I" => Head(toPC).data \in Q
<1>1. Head(toPC) \in FromFirmware(Q) /\ Tail(toPC) \in Seq(FromFirmware(Q))
  BY HeadTailProperties DEF PathTypes
<1> QED BY <1>1 DEF FromFirmware

(* A reply put into the queue, or taken out of it.                         *)
LEMMA Inserted ==
  ASSUME NEW S, NEW s \in Seq(S), NEW e \in S, NEW k \in 1 .. Len(s) + 1
  PROVE  /\ InsertAt(s, k, e) \in Seq(S) /\ Len(InsertAt(s, k, e)) = Len(s) + 1 /\ Len(s) \in Nat
         /\ \A i \in 1 .. Len(s) + 1 :
              InsertAt(s, k, e)[i] = IF i < k THEN s[i] ELSE IF i = k THEN e ELSE s[i - 1]
<1> DEFINE a == SubSeq(s, 1, k - 1)
           c == SubSeq(s, k, Len(s))
           b == a \o <<e>>
<1>1. Len(s) \in Nat /\ k \in Nat /\ k >= 1 /\ k <= Len(s) + 1
  BY LenProperties
<1>2. a \in Seq(S) /\ Len(a) = k - 1 /\ \A i \in 1 .. k - 1 : a[i] = s[i]
  <2>1. \A i \in 1 .. k - 1 : i \in 1 .. Len(s)
    BY <1>1
  <2>2. \A i \in 1 .. k - 1 : s[i] \in S
    BY <2>1, ElementOfSeq
  <2> QED BY <1>1, <2>1, <2>2
<1>3. c \in Seq(S) /\ Len(c) = Len(s) + 1 - k /\ \A i \in 1 .. Len(s) + 1 - k : c[i] = s[k + i - 1]
  <2>1. \A i \in 1 .. Len(s) + 1 - k : k + i - 1 \in 1 .. Len(s)
    BY <1>1
  <2>2. \A i \in k .. Len(s) : s[i] \in S
    BY <1>1, ElementOfSeq
  <2> QED BY <1>1, <2>1, <2>2
<1>4. <<e>> \in Seq(S) /\ Len(<<e>>) = 1 /\ <<e>>[1] = e
  OBVIOUS
<1> HIDE DEF a, c
<1>5. b \in Seq(S) /\ Len(b) = k
      /\ \A i \in 1 .. k : b[i] = IF i <= k - 1 THEN a[i] ELSE <<e>>[i - (k - 1)]
  <2>1. b \in Seq(S) /\ Len(b) = Len(a) + Len(<<e>>)
        /\ \A i \in 1 .. Len(a) + Len(<<e>>) : b[i] = IF i <= Len(a) THEN a[i] ELSE <<e>>[i - Len(a)]
    BY <1>2, <1>4, ConcatProperties
  <2>2. Len(a) + Len(<<e>>) = k
    BY <1>1, <1>2, <1>4
  <2> QED BY <1>2, <2>1, <2>2
<1>6. \A i \in 1 .. k : b[i] = IF i < k THEN s[i] ELSE e
  <2> TAKE i \in 1 .. k
  <2>1. CASE i < k
    BY <1>1, <1>2, <1>5, <2>1
  <2>2. CASE i = k
    <3>1. i - (k - 1) = 1 /\ ~(i <= k - 1)
      BY <1>1, <2>2
    <3> QED BY <1>4, <1>5, <2>2, <3>1
  <2>3. i < k \/ (i = k /\ ~(i < k))
    BY <1>1
  <2> QED BY <2>1, <2>2, <2>3, Zenon
<1> HIDE DEF b
<1>7. b \o c \in Seq(S) /\ Len(b \o c) = Len(s) + 1
      /\ \A i \in 1 .. Len(s) + 1 : (b \o c)[i] = IF i <= k THEN b[i] ELSE c[i - k]
  <2>1. b \o c \in Seq(S) /\ Len(b \o c) = Len(b) + Len(c)
        /\ \A i \in 1 .. Len(b) + Len(c) : (b \o c)[i] = IF i <= Len(b) THEN b[i] ELSE c[i - Len(b)]
    BY <1>3, <1>5, ConcatProperties
  <2>2. Len(b) + Len(c) = Len(s) + 1
    BY <1>1, <1>3, <1>5
  <2> QED BY <1>5, <2>1, <2>2
<1>8. ASSUME NEW i \in 1 .. Len(s) + 1
      PROVE  (b \o c)[i] = IF i < k THEN s[i] ELSE IF i = k THEN e ELSE s[i - 1]
  <2>1. CASE i <= k
    BY <1>1, <1>6, <1>7, <2>1
  <2>2. CASE i > k
    <3>1. i - k \in 1 .. Len(s) + 1 - k /\ k + (i - k) - 1 = i - 1 /\ ~(i <= k)
      BY <1>1, <2>2
    <3>2. (b \o c)[i] = s[i - 1]
      BY <1>1, <1>3, <1>7, <3>1
    <3>3. ~(i < k) /\ i # k
      BY <1>1, <2>2
    <3> QED BY <3>2, <3>3, Zenon
  <2>3. i <= k \/ i > k
    BY <1>1
  <2> QED BY <2>1, <2>2, <2>3, Zenon
<1>9. InsertAt(s, k, e) = b \o c
  BY DEF InsertAt, a, b, c
<1> QED BY <1>1, <1>7, <1>8, <1>9

LEMMA Removed ==
  ASSUME NEW S, NEW s \in Seq(S), NEW k \in 1 .. Len(s)
  PROVE  /\ RemoveAt(s, k) \in Seq(S) /\ Len(RemoveAt(s, k)) = Len(s) - 1 /\ Len(s) \in Nat
         /\ \A i \in 1 .. Len(s) - 1 : RemoveAt(s, k)[i] = IF i < k THEN s[i] ELSE s[i + 1]
<1> DEFINE a == SubSeq(s, 1, k - 1)
           c == SubSeq(s, k + 1, Len(s))
<1>1. Len(s) \in Nat /\ k \in Nat /\ k >= 1 /\ k <= Len(s)
  BY LenProperties
<1>2. a \in Seq(S) /\ Len(a) = k - 1 /\ \A i \in 1 .. k - 1 : a[i] = s[i]
  <2>1. \A i \in 1 .. k - 1 : i \in 1 .. Len(s)
    BY <1>1
  <2>2. \A i \in 1 .. k - 1 : s[i] \in S
    BY <2>1, ElementOfSeq
  <2> QED BY <1>1, <2>1, <2>2
<1>3. c \in Seq(S) /\ Len(c) = Len(s) - k /\ \A i \in 1 .. Len(s) - k : c[i] = s[k + i]
  <2>1. \A i \in 1 .. Len(s) - k : k + i \in 1 .. Len(s)
    BY <1>1
  <2>2. \A i \in k + 1 .. Len(s) : s[i] \in S
    BY <1>1, ElementOfSeq
  <2> QED BY <1>1, <2>1, <2>2
<1> HIDE DEF a, c
<1>4. a \o c \in Seq(S) /\ Len(a \o c) = Len(s) - 1
      /\ \A i \in 1 .. Len(s) - 1 : (a \o c)[i] = IF i <= k - 1 THEN a[i] ELSE c[i - (k - 1)]
  <2>1. a \o c \in Seq(S) /\ Len(a \o c) = Len(a) + Len(c)
        /\ \A i \in 1 .. Len(a) + Len(c) : (a \o c)[i] = IF i <= Len(a) THEN a[i] ELSE c[i - Len(a)]
    BY <1>2, <1>3, ConcatProperties
  <2>2. Len(a) + Len(c) = Len(s) - 1
    BY <1>1, <1>2, <1>3
  <2> QED BY <1>2, <2>1, <2>2
<1>5. ASSUME NEW i \in 1 .. Len(s) - 1
      PROVE  (a \o c)[i] = IF i < k THEN s[i] ELSE s[i + 1]
  <2>1. CASE i < k
    BY <1>1, <1>2, <1>4, <2>1
  <2>2. CASE ~(i < k)
    <3>1. i - (k - 1) \in 1 .. Len(s) - k /\ k + (i - (k - 1)) = i + 1 /\ ~(i <= k - 1)
      BY <1>1, <2>2
    <3> QED BY <1>1, <1>3, <1>4, <2>2, <3>1
  <2> QED BY <2>1, <2>2
<1>6. RemoveAt(s, k) = a \o c
  BY DEF RemoveAt, a, c
<1> QED BY <1>1, <1>4, <1>5, <1>6

(* What the PC's answer to a refusal or an acknowledgement makes of the    *)
(* queue.                                                                  *)
QueueWith(k) == k \in 1 .. Len(queue) + 1 /\ ~Sent(k) /\ queue' = InsertAt(queue, k, <<>>)
QueueWithout(k) ==
  k \in 1 .. Len(queue) /\ queue[k] = <<>> /\ ~Sent(k) /\ queue' = RemoveAt(queue, k)

LEMMA ReaderSteps ==
  ASSUME NEW S, queue \in Seq(S), PcReader
  PROVE  /\ UNCHANGED <<firmware, asks, resets>>
         /\ \/ QueueReply
            \/ /\ toPC # <<>> /\ toPC' = Tail(toPC)
               /\ UNCHANGED replying
               /\ \/ UNCHANGED <<queue, resent>>
                  \/ \E k : QueueWith(k) /\ resent < MaxResent /\ resent' = resent + 1
                  \/ \E k : QueueWithout(k) /\ resent' = resent
<1>1. DOMAIN queue = 1 .. Len(queue)
  BY LenProperties
<1> QED BY <1>1 DEF PcReader, ReceiveNack, ReceiveAck, QueueReply, QueueWith, QueueWithout, Receives

LEMMA ReplyIsMessage == ASSUME NEW P, NEW n PROVE <<>> \in Messages(P, n)
BY DEF Messages

LEMMA ReaderTypes ==
  ASSUME NEW P, NEW Q, NEW n \in Nat, PathTypes(P, Q, n), PcReader
  PROVE  PathTypes(P, Q, n)'
<1> DEFINE M == Messages(P, n)
<1>1. queue \in Seq(M) /\ <<>> \in M /\ Len(queue) \in Nat /\ (receiver # "ready" => queue # <<>>)
  BY ReplyIsMessage, LenProperties DEF PathTypes
<1>2. CASE QueueReply
  <2>1. queue' = Append(queue, <<>>) /\ queue' \in Seq(M) /\ Len(queue') = Len(queue) + 1
    BY <1>1, <1>2, AppendProperties DEF QueueReply
  <2>2. queue' # <<>>
    BY <1>1, <2>1
  <2> QED BY <1>2, <2>1, <2>2 DEF QueueReply, firmware, PathTypes
<1>3. CASE toPC # <<>> /\ toPC' = Tail(toPC) /\ UNCHANGED <<replying, firmware, asks, resets>>
  <2>1. toPC' \in Seq(FromFirmware(Q))
    BY <1>3, PacketHead
  <2>2. ASSUME queue' \in Seq(M), receiver # "ready" => queue' # <<>>, resent' \in 0 .. MaxResent
        PROVE  PathTypes(P, Q, n)'
    BY <1>3, <2>1, <2>2 DEF PathTypes, firmware
  <2>3. CASE UNCHANGED <<queue, resent>>
    BY <1>1, <2>2, <2>3 DEF PathTypes
  <2>4. ASSUME NEW k, QueueWith(k), resent < MaxResent, resent' = resent + 1
        PROVE  PathTypes(P, Q, n)'
    <3>1. queue' \in Seq(M) /\ Len(queue') = Len(queue) + 1
      BY <1>1, <2>4, Inserted DEF QueueWith
    <3>2. queue' # <<>>
      BY <1>1, <3>1
    <3>3. resent' \in 0 .. MaxResent
      BY <2>4, PathBounds DEF PathTypes
    <3> QED BY <2>2, <3>1, <3>2, <3>3
  <2>5. ASSUME NEW k, QueueWithout(k), resent' = resent
        PROVE  PathTypes(P, Q, n)'
    <3>1. queue' \in Seq(M) /\ Len(queue') = Len(queue) - 1 /\ k \in 1 .. Len(queue)
      BY <1>1, <2>5, Removed DEF QueueWithout
    <3>2. receiver # "ready" => k # 1
      BY <2>5 DEF QueueWithout, Sent
    <3>3. receiver # "ready" => queue' # <<>>
      BY <1>1, <3>1, <3>2
    <3> QED BY <2>2, <2>5, <3>1, <3>3 DEF PathTypes
  <2>6. \/ UNCHANGED <<queue, resent>>
        \/ \E k : QueueWith(k) /\ resent < MaxResent /\ resent' = resent + 1
        \/ \E k : QueueWithout(k) /\ resent' = resent
        \/ QueueReply
    BY <1>1, ReaderSteps
  <2> QED BY <1>2, <2>3, <2>4, <2>5, <2>6
<1>4. QueueReply \/ (toPC # <<>> /\ toPC' = Tail(toPC) /\ UNCHANGED <<replying, firmware, asks, resets>>)
  BY <1>1, ReaderSteps
<1> QED BY <1>2, <1>3, <1>4

(* What has been overwritten is still a piece of as many banks. *)
LEMMA OverwrittenType ==
  ASSUME NEW P, NEW n \in Nat, NEW m \in Messages(P, n), rest \in Seq(P), Len(rest) < n
  PROVE  Overwritten(m) \in Seq(P) /\ Len(Overwritten(m)) = Len(rest)
<1>1. Len(rest) \in Nat /\ m \in Seq(P) /\ Len(m) \in Nat /\ (Len(m) <= 1 \/ Len(m) = n)
  BY LenProperties DEF Messages
<1>2. CASE Len(m) < 2
  BY <1>2 DEF Overwritten
<1>3. CASE ~(Len(m) < 2)
  <2> DEFINE f == Len(m) - Len(rest) + 1
             o == SubSeq(m, f, Len(m))
  <2>1. f \in 1 .. Len(m) + 1 /\ Len(m) - f + 1 = Len(rest)
    BY <1>1, <1>3
  <2>2. \A i \in f .. Len(m) : m[i] \in P
    BY <1>1, <2>1, ElementOfSeq
  <2> HIDE DEF f
  <2>3. o \in Seq(P) /\ Len(o) = Len(rest)
    BY <1>1, <2>1, <2>2
  <2> QED BY <1>3, <2>3 DEF Overwritten, f
<1> QED BY <1>2, <1>3

LEMMA FollowsType ==
  ASSUME NEW P, NEW Q, NEW n \in Nat, PathTypes(P, Q, n), Follows
  PROVE  rest' \in Seq(P) /\ Len(rest') = Len(rest) /\ queue # <<>>
<1>1. Head(queue) \in Messages(P, n) /\ queue # <<>> /\ rest \in Seq(P) /\ Len(rest) < n /\ Len(rest) \in Nat
  BY QueueHead, LenProperties DEF Follows, PathTypes
<1> DEFINE o == Overwritten(Head(queue))
<1>2. o \in Seq(P) /\ Len(o) = Len(rest)
  BY <1>1, OverwrittenType
<1>3. PICK k \in 0 .. Len(rest) : rest' = SubSeq(o, 1, k) \o SubSeq(rest, k + 1, Len(rest))
  BY DEF Follows
<1> HIDE DEF o
<1> DEFINE a == SubSeq(o, 1, k)
           c == SubSeq(rest, k + 1, Len(rest))
<1>4. a \in Seq(P) /\ Len(a) = k
  <2>1. \A i \in 1 .. k : o[i] \in P
    BY <1>1, <1>2, ElementOfSeq
  <2> QED BY <1>1, <1>2, <2>1
<1>5. c \in Seq(P) /\ Len(c) = Len(rest) - k
  <2>1. \A i \in k + 1 .. Len(rest) : rest[i] \in P
    BY <1>1, ElementOfSeq
  <2> QED BY <1>1, <2>1
<1> HIDE DEF a, c
<1>6. a \o c \in Seq(P) /\ Len(a \o c) = Len(a) + Len(c)
  BY <1>4, <1>5, ConcatProperties
<1>7. Len(a) + Len(c) = Len(rest)
  BY <1>1, <1>4, <1>5
<1>8. rest' = a \o c
  BY <1>3 DEF a, c
<1> QED BY <1>1, <1>6, <1>7, <1>8

-----------------------------------------------------------------------------
(* The steps of the path keep its types, and so do the two devices' calls. *)
LEMMA FirmwareTypes ==
  ASSUME NEW P, NEW Q, NEW n \in Nat, PathTypes(P, Q, n), PcReader \/ Firmware \/ HostConfigures \/ HostAsks
  PROVE  PathTypes(P, Q, n)'
<1>0. [cmd |-> "A"] \in FromFirmware(Q) /\ [cmd |-> "E"] \in FromFirmware(Q)
  BY DEF FromFirmware
<1>1. CASE PcReader
  BY <1>1, ReaderTypes
<1>2. CASE TakeReply
  <2>1. queue' \in Seq(Messages(P, n)) /\ toPC' \in Seq(FromFirmware(Q)) /\ receiver' = "ready" /\ replied' \in BOOLEAN
    BY <1>0, <1>2, QueueHead, AppendProperties DEF TakeReply, Takes, PathTypes
  <2> QED BY <1>2, <2>1 DEF TakeReply, PathTypes
<1>3. CASE RefuseData
  <2>1. /\ queue # <<>> /\ Head(queue) # <<>> /\ queue' = Tail(queue)
        /\ toPC' = Append(toPC, [cmd |-> "E"])
        /\ lost' = lost \cup {Head(Head(queue))}
        /\ rest' = Overwritten(Head(queue)) /\ receiver' = "ready"
    BY <1>3 DEF RefuseData, Takes
  <2>2. queue' \in Seq(Messages(P, n)) /\ Head(Head(queue)) \in P /\ Head(queue) \in Messages(P, n)
    BY <2>1, QueueHead
  <2>3. toPC' \in Seq(FromFirmware(Q)) /\ lost' \in SUBSET P
    BY <1>0, <2>1, <2>2, AppendProperties DEF PathTypes
  <2>4. rest' \in Seq(P) /\ Len(rest') < n
    BY <2>1, <2>2, OverwrittenType DEF PathTypes
  <2> QED BY <1>3, <2>1, <2>2, <2>3, <2>4 DEF RefuseData, PathTypes
<1>4. CASE TakeData
  <2>1. /\ queue # <<>> /\ Head(queue) # <<>> /\ queue' = Tail(queue) /\ rest = <<>>
        /\ \/ bank' = <<Head(Head(queue))>> /\ rest' = Tail(Head(queue)) /\ lost' = lost /\ open
           \/ lost' = lost \cup {Head(Head(queue))} /\ bank' = bank /\ rest' = rest
        /\ receiver' = "ready" /\ nested' \in BOOLEAN
    BY <1>4 DEF TakeData, Takes
  <2>2. /\ queue' \in Seq(Messages(P, n)) /\ Head(Head(queue)) \in P /\ Tail(Head(queue)) \in Seq(P)
        /\ Len(Tail(Head(queue))) = Len(Head(queue)) - 1 /\ Len(Head(queue)) \in Nat
        /\ Len(Head(queue)) >= 1 /\ (Len(Head(queue)) <= 1 \/ Len(Head(queue)) = n)
    BY <2>1, QueueHead
  <2>3. /\ bank' \in AtMostOne(P) /\ lost' \in SUBSET P /\ rest' \in Seq(P)
        /\ ~open => bank' = bank
    BY <2>1, <2>2 DEF PathTypes, AtMostOne
  <2>4. Len(rest') < n
    <3>1. Len(rest) < n /\ Len(rest) = 0
      BY <2>1 DEF PathTypes
    <3>2. CASE rest' = Tail(Head(queue))
      BY <2>2, <3>1, <3>2
    <3>3. CASE rest' = rest
      BY <3>1, <3>3
    <3> QED BY <2>1, <3>2, <3>3
  <2> QED BY <1>4, <2>1, <2>2, <2>3, <2>4 DEF TakeData, PathTypes
<1>5. CASE WriteBank
  <2>1. /\ rest # <<>> /\ rest \in Seq(P) /\ Len(rest) < n /\ Len(rest) \in Nat
        /\ Head(rest) \in P /\ Tail(rest) \in Seq(P) /\ Len(Tail(rest)) = Len(rest) - 1
    BY <1>5, HeadTailProperties, LenProperties DEF WriteBank, PathTypes
  <2>2. /\ rest' = Tail(rest) \/ rest' = <<>>
        /\ bank' = bank \/ (bank' = <<Head(rest)>> /\ open)
    BY <1>5 DEF WriteBank
  <2>3. rest' \in Seq(P) /\ Len(rest') < n
    <3>1. CASE rest' = Tail(rest)
      BY <2>1, <3>1
    <3>2. CASE rest' = <<>>
      <4>1. Len(rest') = 0 /\ rest' \in Seq(P)
        BY <3>2
      <4> QED BY <2>1, <4>1
    <3> QED BY <2>2, <3>1, <3>2
  <2>4. bank' \in AtMostOne(P) /\ (~open => bank' = bank)
    BY <2>1, <2>2 DEF PathTypes, AtMostOne
  <2>5. /\ queue' \in Seq(Messages(P, n)) /\ receiver' \in {"ready", "begun", "deaf"}
        /\ receiver' # "ready" => queue' # <<>>
    <3>1. UNCHANGED <<queue, receiver>> \/ (receiver = "begun" /\ receiver' = "deaf" /\ queue' = queue)
          \/ (receiver = "begun" /\ receiver' = "ready" /\ queue' = Tail(queue))
      BY <1>5 DEF WriteBank
    <3>2. receiver = "begun" => Tail(queue) \in Seq(Messages(P, n))
      BY QueueHead DEF PathTypes
    <3> QED BY <3>1, <3>2 DEF PathTypes
  <2>6. lost' \in SUBSET P
    <3>1. \/ lost' = lost \cup {} \/ lost' = lost \cup {Head(rest)}
          \/ \E S \in {{}, {Head(rest)}} : receiver = "begun" /\ lost' = lost \cup S \cup {Head(queue)[k] : k \in DOMAIN Head(queue) \cap {1}}
      BY <1>5 DEF WriteBank
    <3>2. receiver = "begun" => {Head(queue)[k] : k \in DOMAIN Head(queue) \cap {1}} \in SUBSET P
      <4> SUFFICES ASSUME receiver = "begun", NEW k \in DOMAIN Head(queue) PROVE Head(queue)[k] \in P
        OBVIOUS
      <4>1. Head(queue) \in Seq(P)
        BY QueueHead DEF PathTypes
      <4> QED BY <4>1, ElementOfSeq, LenProperties
    <3> QED BY <2>1, <3>1, <3>2 DEF PathTypes
  <2>7. nested' \in BOOLEAN /\ UNCHANGED <<toPC, replying, waiting, replied, open, out, asks, resets, resent>>
    BY <1>5 DEF WriteBank
  <2> QED BY <2>3, <2>4, <2>5, <2>6, <2>7 DEF PathTypes
<1>6. CASE DecideControl
  <2>1. /\ UNCHANGED <<receiver, rest>> \/ Follows
        /\ replied' = FALSE /\ UNCHANGED <<queue, toPC, replying, nested, lost, asks, resets, resent>>
        /\ \/ DecideAsTold
           \/ waiting' \in {"no", "stuck"} /\ UNCHANGED <<open, bank, out>>
    BY <1>6 DEF DecideControl
  <2>2. rest' \in Seq(P) /\ Len(rest') < n /\ receiver' \in {"ready", "begun", "deaf"}
        /\ (receiver' # "ready" => queue' # <<>>)
    <3>1. CASE UNCHANGED <<receiver, rest>>
      BY <2>1, <3>1 DEF PathTypes
    <3>2. CASE Follows
      <4>1. rest' \in Seq(P) /\ Len(rest') = Len(rest) /\ queue # <<>>
        BY <3>2, FollowsType
      <4>2. receiver' \in {"ready", "begun", "deaf"}
        BY <3>2 DEF Follows
      <4> QED BY <2>1, <4>1, <4>2 DEF PathTypes
    <3> QED BY <2>1, <3>1, <3>2
  <2>3. <<>> \in AtMostOne(P) /\ <<>> \in AtMostOne(Q)
    BY DEF AtMostOne
  <2>4. CASE DecideAsTold
    <3>1. /\ waiting' = "no"
          /\ \/ open' = TRUE /\ bank' = <<>> /\ out' = <<>>
             \/ UNCHANGED <<open, bank, out>>
      BY <2>4 DEF DecideAsTold
    <3>2. bank' \in AtMostOne(P) /\ out' \in AtMostOne(Q) /\ open' \in BOOLEAN
          /\ (~open' => bank' = <<>> /\ out' = <<>>)
      BY <2>3, <3>1 DEF PathTypes
    <3> QED BY <2>1, <2>2, <3>1, <3>2 DEF PathTypes
  <2>5. CASE waiting' \in {"no", "stuck"} /\ UNCHANGED <<open, bank, out>>
    BY <2>1, <2>2, <2>5 DEF PathTypes
  <2> QED BY <2>1, <2>4, <2>5
<1>7. CASE ForwardOut
  <2>1. out[1] \in Q /\ <<>> \in AtMostOne(Q)
    BY <1>7 DEF ForwardOut, PathTypes, AtMostOne
  <2>2. [cmd |-> "I", data |-> out[1]] \in FromFirmware(Q)
    BY <2>1 DEF FromFirmware
  <2>3. toPC' \in Seq(FromFirmware(Q))
    BY <1>7, <2>2, AppendProperties DEF ForwardOut, PathTypes
  <2> QED BY <1>7, <2>1, <2>3 DEF ForwardOut, PathTypes
<1>8. CASE HostConfigures \/ HostAsks
  <2>1. PICK kind \in {"configure", "class"} : Ask(kind) /\ (kind = "configure" => ~open)
    BY <1>8 DEF HostConfigures, HostAsks
  <2>2. [cmd |-> "U", kind |-> kind] \in FromFirmware(Q)
    BY <2>1 DEF FromFirmware
  <2>3. toPC' \in Seq(FromFirmware(Q))
    BY <2>1, <2>2, AppendProperties DEF Ask, PathTypes
  <2>4. asks' \in 0 .. MaxAsks
    BY <1>8, PathBounds DEF HostConfigures, HostAsks, PathTypes
  <2> QED BY <2>1, <2>3, <2>4 DEF Ask, PathTypes
<1> QED BY <1>1, <1>2, <1>3, <1>4, <1>5, <1>6, <1>7, <1>8 DEF Firmware

LEMMA HostTypes ==
  ASSUME NEW P, NEW Q, NEW n \in Nat, PathTypes(P, Q, n), HostReads \/ HostResets \/ \E p \in Q : HostSends(p)
  PROVE  PathTypes(P, Q, n)'
<1>1. <<>> \in AtMostOne(P) /\ <<>> \in AtMostOne(Q) /\ \A p \in Q : <<p>> \in AtMostOne(Q)
  BY DEF AtMostOne
<1>2. CASE HostReads
  BY <1>1, <1>2 DEF HostReads, PathTypes
<1>3. CASE HostResets
  <2>1. lost' \in SUBSET P
    BY <1>3 DEF HostResets, PathTypes, AtMostOne, ToSet
  <2>2. resets' \in 0 .. MaxResets
    BY <1>3, PathBounds DEF HostResets, PathTypes
  <2>3. waiting' \in {"no", "class", "stuck"}
    BY <1>3 DEF HostResets, PathTypes
  <2> QED BY <1>1, <1>3, <2>1, <2>2, <2>3 DEF HostResets, PathTypes
<1>4. CASE \E p \in Q : HostSends(p)
  BY <1>1, <1>4 DEF HostSends, PathTypes
<1> QED BY <1>2, <1>3, <1>4

LEMMA RequestedTypes ==
  ASSUME NEW P, NEW Q, NEW n \in Nat, PathTypes(P, Q, n), NEW kind, Requested(kind)
  PROVE  PathTypes(P, Q, n)'
<1>1. toPC' \in Seq(FromFirmware(Q))
  BY PacketHead DEF Requested, Receives
<1> QED BY <1>1 DEF Requested, firmware, PathTypes

(* Messages written come after all that is in the queue.                   *)
LEMMA MessagesWritten ==
  ASSUME NEW M, queue \in Seq(M), NEW messages \in Seq(M), WriteOutgoingData(messages)
  PROVE  /\ queue' \in Seq(M) /\ Len(queue) \in Nat /\ Len(messages) \in Nat
         /\ Len(queue') = Len(queue) + Len(messages)
         /\ \A i \in 1 .. Len(queue) : queue'[i] = queue[i]
         /\ \A i \in 1 .. Len(messages) : queue'[Len(queue) + i] = messages[i]
         /\ queue # <<>> => queue' # <<>>
<1>1. queue' = queue \o messages /\ Len(queue) \in Nat /\ Len(messages) \in Nat
  BY LenProperties DEF WriteOutgoingData
<1>2. /\ queue' \in Seq(M) /\ Len(queue') = Len(queue) + Len(messages)
      /\ \A i \in 1 .. Len(queue) + Len(messages) :
           queue'[i] = IF i <= Len(queue) THEN queue[i] ELSE messages[i - Len(queue)]
  BY <1>1, ConcatProperties
<1>3. \A i \in 1 .. Len(queue) : queue'[i] = queue[i]
  <2> TAKE i \in 1 .. Len(queue)
  <2>1. i \in 1 .. Len(queue) + Len(messages) /\ i <= Len(queue)
    BY <1>1
  <2> QED BY <1>2, <2>1
<1>4. \A i \in 1 .. Len(messages) : queue'[Len(queue) + i] = messages[i]
  <2> TAKE i \in 1 .. Len(messages)
  <2> DEFINE j == Len(queue) + i
  <2>1. j \in 1 .. Len(queue) + Len(messages) /\ ~(j <= Len(queue)) /\ j - Len(queue) = i
    BY <1>1
  <2> HIDE DEF j
  <2>2. queue'[j] = messages[i]
    BY <1>2, <2>1
  <2> QED BY <2>2 DEF j
<1>5. queue # <<>> => queue' # <<>>
  BY <1>1, <1>2, EmptySeq
<1> QED BY <1>1, <1>2, <1>3, <1>4, <1>5

LEMMA WrittenTypes ==
  ASSUME NEW P, NEW Q, NEW n \in Nat, PathTypes(P, Q, n), NEW messages \in Seq(Messages(P, n)),
         WriteOutgoingData(messages), toPC' \in Seq(FromFirmware(Q)), replying' = replying
  PROVE  PathTypes(P, Q, n)'
<1>1. queue' \in Seq(Messages(P, n)) /\ (queue # <<>> => queue' # <<>>)
  BY MessagesWritten DEF PathTypes
<1> QED BY <1>1 DEF WriteOutgoingData, firmware, PathTypes

-----------------------------------------------------------------------------
(* The keyboard's types.                                                   *)
KeyboardTypes ==
  /\ PathTypes(Reports, {}, 1)
  /\ keys \in Seq(Reports) /\ configured \in BOOLEAN
  /\ typed \in Seq(Reports) /\ text \in Seq(Reports)
  /\ calls \in 0 .. MaxCalls /\ held \in Reports

LEMMA StringBounds ==
  /\ MaxCalls \in Nat /\ Longest \in Nat
  /\ \A s \in Strings : s \in Seq(KeySet) /\ Len(s) \in Nat /\ Len(s) <= Longest
<1>1. PICK t \in Strings : \A s \in Strings : Len(s) <= Len(t)
  BY KeyboardAssumption
<1>2. \A s \in Strings : s \in Seq(KeySet) /\ Len(s) \in Nat
  BY KeyboardAssumption, LenProperties
<1>3. Longest \in {Len(s) : s \in Strings} /\ \A s \in Strings : Len(s) <= Longest
  BY <1>1, Zenon DEF Longest
<1> QED BY <1>2, <1>3, KeyboardAssumption

LEMMA ClearedType == Cleared \in Reports
BY StringBounds DEF Cleared, Report, Reports

(* What one call adds. *)
LEMMA Strokes ==
  ASSUME NEW s \in Strings, calls \in 0 .. MaxCalls, calls < MaxCalls
  PROVE  /\ Pressed(s) \in Seq(Reports) /\ Len(Pressed(s)) = Len(s) /\ Len(s) \in Nat
         /\ \A k \in 1 .. Len(s) : /\ Pressed(s)[k].key \in KeySet
                                   /\ Pressed(s)[k].call = calls + 1 /\ Pressed(s)[k].at = k
         /\ Clear(s) \in Reports
<1>1. s \in Seq(KeySet) /\ Len(s) \in Nat /\ Len(s) <= Longest /\ Longest \in Nat /\ MaxCalls \in Nat
  BY StringBounds
<1>2. DOMAIN s = 1 .. Len(s) /\ \A k \in 1 .. Len(s) : s[k] \in KeySet
  BY <1>1, LenProperties, ElementOfSeq
<1>3. \A k \in 1 .. Len(s) : Pressed(s)[k] = Report(s[k], calls + 1, k) /\ Pressed(s)[k] \in Reports
  BY <1>1, <1>2 DEF Pressed, Report, Reports
<1>4. Pressed(s) \in [1 .. Len(s) -> Reports]
  BY <1>2, <1>3 DEF Pressed
<1>5. Pressed(s) \in Seq(Reports) /\ Len(Pressed(s)) = Len(s)
  BY <1>1, <1>4
<1>6. Clear(s) \in Reports
  BY <1>1 DEF Clear, Report, Reports
<1>7. \A k \in 1 .. Len(s) : /\ Pressed(s)[k].key = s[k]
                             /\ Pressed(s)[k].call = calls + 1 /\ Pressed(s)[k].at = k
  <2> TAKE k \in 1 .. Len(s)
  <2>1. Pressed(s)[k] = [key |-> s[k], call |-> calls + 1, at |-> k]
    BY <1>3 DEF Report
  <2> QED BY <2>1
<1> QED BY <1>1, <1>2, <1>5, <1>6, <1>7

LEMMA PathInitTypes ==
  ASSUME NEW P, NEW Q, NEW n \in Nat, n >= 1, PathInit
  PROVE  PathTypes(P, Q, n)
<1>1. <<>> \in AtMostOne(P) /\ <<>> \in AtMostOne(Q)
  BY DEF AtMostOne
<1>2. <<>> \in Seq(Messages(P, n)) /\ <<>> \in Seq(FromFirmware(Q)) /\ <<>> \in Seq(P) /\ Len(<<>>) = 0
  BY EmptySeq
<1>3. /\ queue \in Seq(Messages(P, n)) /\ toPC \in Seq(FromFirmware(Q))
      /\ bank \in AtMostOne(P) /\ out \in AtMostOne(Q) /\ lost \in SUBSET P
      /\ bank = <<>> /\ out = <<>> /\ rest \in Seq(P) /\ Len(rest) < n
  BY <1>1, <1>2 DEF PathInit
<1>4. asks \in 0 .. MaxAsks /\ resets \in 0 .. MaxResets /\ resent \in 0 .. MaxResent
  BY PathBounds DEF PathInit
<1>5. /\ {replying, replied, nested, open} \subseteq BOOLEAN /\ waiting = "no" /\ receiver = "ready"
  BY DEF PathInit
<1> QED BY <1>3, <1>4, <1>5 DEF PathTypes

LEMMA KeyboardInitTypes == KeyboardInit => KeyboardTypes
<1>1. <<>> \in Seq(Reports)
  BY EmptySeq
<1> SUFFICES ASSUME KeyboardInit PROVE KeyboardTypes
  OBVIOUS
<1>2. PathTypes(Reports, {}, 1)
  BY PathInitTypes DEF KeyboardInit
<1>3. calls \in 0 .. MaxCalls /\ held \in Reports
  BY StringBounds, ClearedType DEF KeyboardInit
<1> QED BY <1>1, <1>2, <1>3 DEF KeyboardInit, KeyboardTypes

LEMMA KeyboardStepTypes == KeyboardTypes /\ KeyboardNext => KeyboardTypes'
<1> SUFFICES ASSUME KeyboardTypes, KeyboardNext PROVE KeyboardTypes'
  OBVIOUS
<1>1. CASE \E s \in Strings : SendString(s)
  <2>1. PICK s \in Strings : SendString(s)
    BY <1>1
  <2>2. /\ Pressed(s) \in Seq(Reports) /\ Clear(s) \in Reports
    BY <2>1, Strokes DEF SendString, KeyboardTypes
  <2>3. keys' \in Seq(Reports) /\ typed' \in Seq(Reports)
    BY <2>1, <2>2, AppendProperties, ConcatProperties DEF SendString, KeyboardTypes
  <2>4. calls' \in 0 .. MaxCalls
    BY <2>1, StringBounds DEF SendString, KeyboardTypes
  <2> QED BY <2>1, <2>3, <2>4 DEF SendString, KeyboardTypes, PathTypes, path, firmware
<1>2. CASE SendReport
  <2>1. Head(keys) \in Reports /\ keys' \in Seq(Reports)
    BY <1>2, HeadTailProperties DEF SendReport, KeyboardTypes
  <2>2. << <<Head(keys)>> >> \in Seq(Messages(Reports, 1))
    BY <2>1 DEF Messages
  <2>3. toPC' \in Seq(FromFirmware({})) /\ replying' = replying /\ WriteOutgoingData(<< <<Head(keys)>> >>)
    BY <1>2 DEF SendReport, KeyboardTypes, PathTypes
  <2>4. PathTypes(Reports, {}, 1)'
    BY <2>2, <2>3, WrittenTypes DEF KeyboardTypes
  <2> QED BY <1>2, <2>1, <2>4 DEF SendReport, KeyboardTypes
<1>3. CASE KeyboardRequested
  <2>1. PathTypes(Reports, {}, 1)'
    BY <1>3, RequestedTypes DEF KeyboardRequested, KeyboardTypes
  <2> QED BY <1>3, <2>1 DEF KeyboardRequested, KeyboardTypes
<1>4. CASE HostReadsReport
  <2>1. PathTypes(Reports, {}, 1)'
    BY <1>4, HostTypes DEF HostReadsReport, KeyboardTypes
  <2>2. bank[1] \in Reports
    BY <1>4 DEF HostReadsReport, HostReads, KeyboardTypes, PathTypes, AtMostOne
  <2>3. text' \in Seq(Reports)
    BY <1>4, <2>2, AppendProperties DEF HostReadsReport, KeyboardTypes
  <2> QED BY <1>4, <2>1, <2>2, <2>3 DEF HostReadsReport, KeyboardTypes
<1>5. CASE HostForgetsKeyboard
  <2>1. PathTypes(Reports, {}, 1)'
    BY <1>5, HostTypes DEF HostForgetsKeyboard, KeyboardTypes
  <2> QED BY <1>5, <2>1, ClearedType DEF HostForgetsKeyboard, KeyboardTypes
<1> QED BY <1>1, <1>2, <1>3, <1>4, <1>5 DEF KeyboardNext, KeyboardSteps

(* A report has one bank. *)
LEMMA OneBank ==
  ASSUME KeyboardTypes
  PROVE  /\ rest = <<>>
         /\ queue # <<>> /\ Head(queue) # <<>> =>
              Head(queue) = <<Head(Head(queue))>> /\ Head(Head(queue)) \in Reports
<1>1. PathTypes(Reports, {}, 1) /\ rest \in Seq(Reports) /\ Len(rest) < 1 /\ Len(rest) \in Nat
  BY LenProperties DEF KeyboardTypes, PathTypes
<1>2. rest = <<>>
  BY <1>1, EmptySeq
<1>3. ASSUME queue # <<>>, Head(queue) # <<>>
      PROVE  Head(queue) = <<Head(Head(queue))>> /\ Head(Head(queue)) \in Reports
  <2> DEFINE m == Head(queue)
  <2>0. Len(m) \in Nat /\ Len(m) >= 1 /\ (Len(m) <= 1 \/ Len(m) = 1) /\ m \in Seq(Reports) /\ Head(m) \in Reports
    BY <1>1, <1>3, QueueHead
  <2> HIDE DEF m
  <2>1. \A l \in Nat : l >= 1 /\ (l <= 1 \/ l = 1) => l = 1
    OBVIOUS
  <2>2. m \in Seq(Reports) /\ Len(m) = 1
    BY <2>0, <2>1, Zenon
  <2>3. m = <<m[1]>> /\ Head(m) = m[1]
    BY <2>2
  <2> QED BY <2>0, <2>3 DEF m
<1> QED BY <1>2, <1>3

-----------------------------------------------------------------------------
(* The order of the reports, by call and place in it.                      *)
Earlier(r, s) == r.call < s.call \/ (r.call = s.call /\ r.at < s.at)

(* The report that releases the keys of its call, and all reports so far.  *)
Releases(r) ==
  /\ r.key = None /\ r.call \in 1 .. calls
  /\ r.at = 1 \/ \E k \in DOMAIN typed : typed[k].call = r.call /\ typed[k].at = r.at - 1
  /\ r.at >= 1 /\ \A k \in DOMAIN typed : typed[k].call = r.call => typed[k].at < r.at
Made(r) == (\E k \in DOMAIN typed : typed[k] = r) \/ Releases(r)

TypedOK ==
  /\ \A k \in DOMAIN typed :
       typed[k].key # None /\ typed[k].call \in 1 .. calls /\ typed[k].at >= 1
  /\ \A j, k \in DOMAIN typed : j < k => Earlier(typed[j], typed[k])
  /\ \A k \in DOMAIN typed : typed[k].at > 1 =>
       \E j \in DOMAIN typed : /\ j = k - 1 /\ typed[j].call = typed[k].call
                               /\ typed[j].at = typed[k].at - 1
  /\ \A c \in 1 .. calls : \E r \in Reports : r.call = c /\ Releases(r)

(* The reports that are still to be read; they follow one another from the *)
(* endpoint over the queue to the keyboard's list.                         *)
InQueue(r) == \E i \in DOMAIN queue : queue[i] = <<r>>
InKeys(r)  == \E i \in DOMAIN keys : keys[i] = r
Coming(r)  == bank = <<r>> \/ InQueue(r) \/ InKeys(r)
ComingInOrder ==
  /\ \A i, j \in DOMAIN keys : i < j => Earlier(keys[i], keys[j])
  /\ \A i, j \in DOMAIN queue : \A r, s \in Reports :
       i < j /\ queue[i] = <<r>> /\ queue[j] = <<s>> => Earlier(r, s)
  /\ \A r, s \in Reports : InQueue(r) /\ InKeys(s) => Earlier(r, s)
  /\ \A r, s \in Reports : bank = <<r>> /\ (InQueue(s) \/ InKeys(s)) => Earlier(r, s)

(* Every report after one that is coming, or that the host has read, is    *)
(* coming too, or lost.                                                    *)
Complete(x) == \A r \in Reports : Made(r) /\ Earlier(x, r) => Coming(r) \/ r \in lost
NoneMissing ==
  /\ \A r \in Reports : Coming(r) => Made(r) /\ Complete(r) /\ Earlier(held, r)
  /\ held = Cleared \/ (Made(held) /\ Complete(held))
  /\ resets = 0 => Complete(held)

KeyboardInv == KeyboardTypes /\ TypedOK /\ ComingInOrder /\ NoneMissing

LEMMA Popped ==
  ASSUME NEW S, NEW s \in Seq(S), s # <<>>
  PROVE  /\ DOMAIN s = 1 .. Len(s) /\ Len(s) \in Nat /\ Len(s) >= 1 /\ Head(s) = s[1]
         /\ DOMAIN Tail(s) = 1 .. Len(s) - 1
         /\ \A i \in 1 .. Len(s) - 1 : Tail(s)[i] = s[i + 1]
<1>1. /\ Len(s) \in Nat /\ DOMAIN s = 1 .. Len(s) /\ Len(s) # 0 /\ Head(s) = s[1]
  BY LenProperties, EmptySeq
<1>2. /\ Tail(s) \in Seq(S) /\ Len(Tail(s)) = Len(s) - 1
      /\ \A i \in 1 .. Len(Tail(s)) : Tail(s)[i] = s[i + 1]
  BY HeadTailProperties
<1>3. DOMAIN Tail(s) = 1 .. Len(Tail(s))
  BY <1>2, LenProperties
<1> QED BY <1>1, <1>2, <1>3

LEMMA Pushed ==
  ASSUME NEW S, NEW s \in Seq(S), NEW e \in S
  PROVE  /\ DOMAIN s = 1 .. Len(s) /\ Len(s) \in Nat /\ DOMAIN Append(s, e) = 1 .. Len(s) + 1
         /\ Append(s, e)[Len(s) + 1] = e
         /\ \A i \in 1 .. Len(s) : Append(s, e)[i] = s[i]
BY AppendProperties, LenProperties

LEMMA ReportNumbers ==
  ASSUME NEW r \in Reports PROVE r.call \in Nat /\ r.at \in Nat
BY StringBounds DEF Reports

(* The order is one. *)
LEMMA EarlierOrder ==
  /\ \A r, s \in Reports : Earlier(r, s) => ~Earlier(s, r) /\ r # s
  /\ \A r, s, t \in Reports : Earlier(r, s) /\ Earlier(s, t) => Earlier(r, t)
BY ReportNumbers DEF Earlier

-----------------------------------------------------------------------------
(* Steps that make no report, read none and forget none.                   *)
LEMMA NoneMissingKept ==
  ASSUME NoneMissing, UNCHANGED <<typed, calls, held, resets>>, lost \subseteq lost',
         \A r \in Reports : /\ Coming(r)' => Coming(r)
                            /\ Coming(r) => Coming(r)' \/ r \in lost'
  PROVE  NoneMissing'
<1>1. \A r : Made(r)' <=> Made(r)
  BY DEF Made, Releases
<1>2. \A x : Complete(x) => Complete(x)'
  BY <1>1 DEF Complete
<1>3. ASSUME NEW r \in Reports, Coming(r)' PROVE Made(r)' /\ Complete(r)' /\ Earlier(held', r)
  BY <1>1, <1>2, <1>3 DEF NoneMissing
<1>4. held' = Cleared \/ (Made(held)' /\ Complete(held)')
  <2>1. Made(held) => Made(held)'
    BY DEF Made, Releases
  <2>2. \A x : x = held => (Complete(x) => Complete(x)')
    BY <1>2
  <2>3. Complete(held) => Complete(held)'
    BY <2>2 DEF Complete
  <2> QED BY <2>1, <2>3 DEF NoneMissing
<1>5. resets' = 0 => Complete(held)'
  <2>1. \A x : x = held => (Complete(x) => Complete(x)')
    BY <1>2
  <2>2. Complete(held) => Complete(held)'
    BY <2>1 DEF Complete
  <2> QED BY <2>2 DEF NoneMissing
<1> QED BY <1>3, <1>4, <1>5 DEF NoneMissing, Earlier

QueueOrdered ==
  \A i, j \in DOMAIN queue : \A r, s \in Reports :
    i < j /\ queue[i] = <<r>> /\ queue[j] = <<s>> => Earlier(r, s)

LEMMA QueuePopped ==
  ASSUME KeyboardTypes, QueueOrdered, queue # <<>>, queue' = Tail(queue)
  PROVE  /\ QueueOrdered'
         /\ \A r \in Reports : /\ InQueue(r)' => InQueue(r)
                               /\ InQueue(r) => InQueue(r)' \/ Head(queue) = <<r>>
                               /\ Head(queue) = <<r>> => InQueue(r)
         /\ \A r, s \in Reports : Head(queue) = <<r>> /\ InQueue(s)' => Earlier(r, s)
<1> DEFINE n == Len(queue)
<1>1. /\ DOMAIN queue = 1 .. n /\ n \in Nat /\ n >= 1 /\ Head(queue) = queue[1]
      /\ DOMAIN queue' = 1 .. n - 1 /\ \A i \in 1 .. n - 1 : queue'[i] = queue[i + 1]
  BY Popped DEF KeyboardTypes, PathTypes
<1> HIDE DEF n
<1>2. QueueOrdered'
  <2> SUFFICES ASSUME NEW i \in 1 .. n - 1, NEW j \in 1 .. n - 1, NEW r \in Reports, NEW s \in Reports,
                      i < j, queue'[i] = <<r>>, queue'[j] = <<s>>
               PROVE  Earlier(r, s)
    BY <1>1 DEF QueueOrdered, Earlier
  <2>1. i + 1 \in 1 .. n /\ j + 1 \in 1 .. n /\ i + 1 < j + 1
    BY <1>1
  <2> QED BY <1>1, <2>1 DEF QueueOrdered
<1>3. ASSUME NEW r \in Reports, InQueue(r)'
      PROVE  InQueue(r) /\ \A h \in Reports : Head(queue) = <<h>> => Earlier(h, r)
  <2>1. PICK i \in 1 .. n - 1 : queue'[i] = <<r>>
    BY <1>1, <1>3 DEF InQueue
  <2>2. i + 1 \in 1 .. n /\ 1 \in 1 .. n /\ 1 < i + 1 /\ queue[i + 1] = <<r>>
    BY <1>1, <2>1
  <2> QED BY <1>1, <2>2 DEF InQueue, QueueOrdered
<1>4. ASSUME NEW r \in Reports, InQueue(r) PROVE InQueue(r)' \/ Head(queue) = <<r>>
  <2>1. PICK i \in 1 .. n : queue[i] = <<r>>
    BY <1>1, <1>4 DEF InQueue
  <2>2. CASE i = 1
    BY <1>1, <2>1, <2>2
  <2>3. CASE i # 1
    <3>1. i - 1 \in 1 .. n - 1 /\ (i - 1) + 1 = i
      BY <1>1, <2>1, <2>3
    <3>2. queue'[i - 1] = <<r>>
      BY <1>1, <2>1, <3>1
    <3> QED BY <1>1, <3>1, <3>2 DEF InQueue
  <2> QED BY <2>2, <2>3
<1>5. \A r \in Reports : Head(queue) = <<r>> => InQueue(r)
  BY <1>1 DEF InQueue
<1> QED BY <1>2, <1>3, <1>4, <1>5

(* The PC's answers to a refusal or an acknowledgement move no report.     *)
LEMMA QueueExtended ==
  ASSUME KeyboardTypes, QueueOrdered, NEW k, QueueWith(k)
  PROVE  QueueOrdered' /\ \A r \in Reports : InQueue(r)' <=> InQueue(r)
<1> DEFINE n == Len(queue)
<1>1. queue \in Seq(Messages(Reports, 1)) /\ <<>> \in Messages(Reports, 1)
  BY ReplyIsMessage DEF KeyboardTypes, PathTypes
<1>2. /\ k \in 1 .. n + 1 /\ n \in Nat /\ DOMAIN queue = 1 .. n /\ DOMAIN queue' = 1 .. n + 1
      /\ \A i \in 1 .. n + 1 : queue'[i] = IF i < k THEN queue[i] ELSE IF i = k THEN <<>> ELSE queue[i - 1]
  BY <1>1, Inserted, LenProperties DEF QueueWith
<1> HIDE DEF n
<1> DEFINE At(i) == IF i < k THEN i ELSE i - 1
<1>3. \A r : <<r>> # <<>>
  OBVIOUS
<1>4. ASSUME NEW i \in 1 .. n + 1, NEW r, queue'[i] = <<r>>
      PROVE  i # k /\ At(i) \in 1 .. n /\ queue[At(i)] = <<r>>
  <2>1. i # k
    <3> SUFFICES ASSUME i = k PROVE FALSE
      OBVIOUS
    <3>1. ~(i < k) /\ queue'[i] = <<>>
      BY <1>2
    <3> QED BY <1>3, <1>4, <3>1
  <2>2. At(i) \in 1 .. n
    BY <1>2, <2>1
  <2>3. queue'[i] = queue[At(i)]
    BY <1>2, <2>1
  <2> QED BY <1>4, <2>1, <2>2, <2>3
<1>5. ASSUME NEW i \in 1 .. n, NEW r, queue[i] = <<r>> PROVE \E j \in 1 .. n + 1 : queue'[j] = <<r>>
  <2>1. CASE i < k
    <3>1. i \in 1 .. n + 1 /\ queue'[i] = queue[i]
      BY <1>2, <2>1
    <3> QED BY <1>5, <3>1
  <2>2. CASE ~(i < k)
    <3>1. i + 1 \in 1 .. n + 1 /\ ~(i + 1 < k) /\ i + 1 # k /\ (i + 1) - 1 = i
      BY <1>2, <2>2
    <3>2. queue'[i + 1] = queue[i]
      BY <1>2, <3>1
    <3> QED BY <1>5, <3>1, <3>2
  <2> QED BY <2>1, <2>2
<1>6. QueueOrdered'
  <2> SUFFICES ASSUME NEW i \in 1 .. n + 1, NEW j \in 1 .. n + 1, NEW r \in Reports, NEW s \in Reports,
                      i < j, queue'[i] = <<r>>, queue'[j] = <<s>>
               PROVE  Earlier(r, s)
    BY <1>2 DEF QueueOrdered, Earlier
  <2>1. /\ At(i) \in 1 .. n /\ queue[At(i)] = <<r>> /\ i # k
        /\ At(j) \in 1 .. n /\ queue[At(j)] = <<s>> /\ j # k
    BY <1>4
  <2>2. At(i) < At(j)
    BY <1>2, <2>1
  <2> HIDE DEF At
  <2> QED BY <1>2, <2>1, <2>2 DEF QueueOrdered
<1> HIDE DEF At
<1> QED BY <1>2, <1>4, <1>5, <1>6 DEF InQueue

LEMMA QueueReduced ==
  ASSUME KeyboardTypes, QueueOrdered, NEW k, QueueWithout(k)
  PROVE  QueueOrdered' /\ \A r \in Reports : InQueue(r)' <=> InQueue(r)
<1> DEFINE n == Len(queue)
<1>1. queue \in Seq(Messages(Reports, 1))
  BY DEF KeyboardTypes, PathTypes
<1>2. /\ k \in 1 .. n /\ n \in Nat /\ DOMAIN queue = 1 .. n /\ DOMAIN queue' = 1 .. n - 1 /\ queue[k] = <<>>
      /\ \A i \in 1 .. n - 1 : queue'[i] = IF i < k THEN queue[i] ELSE queue[i + 1]
  BY <1>1, Removed, LenProperties DEF QueueWithout
<1> HIDE DEF n
<1> DEFINE At(i) == IF i < k THEN i ELSE i + 1
<1>3. \A r : <<r>> # <<>>
  OBVIOUS
<1>4. ASSUME NEW i \in 1 .. n - 1, NEW r, queue'[i] = <<r>>
      PROVE  At(i) \in 1 .. n /\ queue[At(i)] = <<r>>
  <2>1. At(i) \in 1 .. n
    BY <1>2
  <2>2. queue'[i] = queue[At(i)]
    BY <1>2
  <2> QED BY <1>4, <2>1, <2>2
<1>5. ASSUME NEW i \in 1 .. n, NEW r, queue[i] = <<r>> PROVE \E j \in 1 .. n - 1 : queue'[j] = <<r>>
  <2>0. i # k
    BY <1>2, <1>3, <1>5
  <2>1. CASE i < k
    <3>1. i \in 1 .. n - 1 /\ queue'[i] = queue[i]
      BY <1>2, <2>1
    <3> QED BY <1>5, <3>1
  <2>2. CASE ~(i < k)
    <3>1. i - 1 \in 1 .. n - 1 /\ ~(i - 1 < k) /\ (i - 1) + 1 = i
      BY <1>2, <2>0, <2>2
    <3>2. queue'[i - 1] = queue[i]
      BY <1>2, <3>1
    <3> QED BY <1>5, <3>1, <3>2
  <2> QED BY <2>1, <2>2
<1>6. QueueOrdered'
  <2> SUFFICES ASSUME NEW i \in 1 .. n - 1, NEW j \in 1 .. n - 1, NEW r \in Reports, NEW s \in Reports,
                      i < j, queue'[i] = <<r>>, queue'[j] = <<s>>
               PROVE  Earlier(r, s)
    BY <1>2 DEF QueueOrdered, Earlier
  <2>1. /\ At(i) \in 1 .. n /\ queue[At(i)] = <<r>>
        /\ At(j) \in 1 .. n /\ queue[At(j)] = <<s>>
    BY <1>4
  <2>2. At(i) < At(j)
    BY <1>2
  <2> HIDE DEF At
  <2> QED BY <1>2, <2>1, <2>2 DEF QueueOrdered
<1> HIDE DEF At
<1> QED BY <1>2, <1>4, <1>5, <1>6 DEF InQueue

(* The steps in which no report moves.                                     *)
Quiet ==
  PcReader \/ TakeReply \/ DecideControl \/ ForwardOut \/ HostConfigures \/ HostAsks \/ KeyboardRequested

LEMMA QuietSteps ==
  ASSUME KeyboardInv, Quiet, UNCHANGED <<keys, typed, calls, held>>
  PROVE  ComingInOrder' /\ NoneMissing'
<1>1. KeyboardTypes /\ ComingInOrder /\ NoneMissing /\ QueueOrdered /\ queue \in Seq(Messages(Reports, 1))
  BY DEF KeyboardInv, ComingInOrder, QueueOrdered, KeyboardTypes, PathTypes
<1>2. UNCHANGED <<keys, typed, calls, held, lost, resets, bank>>
  <2>1. CASE PcReader
    BY <1>1, <2>1, ReaderSteps DEF firmware
  <2>2. CASE DecideControl
    <3>1. waiting = "configure" => bank = <<>>
      BY <1>1 DEF KeyboardTypes, PathTypes
    <3> QED BY <2>2, <3>1 DEF DecideControl, DecideAsTold
  <2>3. CASE TakeReply \/ ForwardOut \/ HostConfigures \/ HostAsks \/ KeyboardRequested
    BY <2>3 DEF TakeReply, ForwardOut, HostConfigures, HostAsks, KeyboardRequested, Requested, Ask, firmware
  <2> QED BY <2>1, <2>2, <2>3 DEF Quiet
<1>3. QueueOrdered' /\ \A r \in Reports : InQueue(r)' <=> InQueue(r)
  <2>1. CASE QueueReply
    <3> DEFINE n == Len(queue)
    <3>1. <<>> \in Messages(Reports, 1)
      BY ReplyIsMessage
    <3>2. /\ DOMAIN queue = 1 .. n /\ n \in Nat /\ DOMAIN queue' = 1 .. n + 1
          /\ queue'[n + 1] = <<>> /\ \A i \in 1 .. n : queue'[i] = queue[i]
      BY <1>1, <2>1, <3>1, Pushed DEF QueueReply
    <3> HIDE DEF n
    <3>3. \A r : <<r>> # <<>>
      OBVIOUS
    <3>4. ASSUME NEW i \in 1 .. n + 1, NEW r, queue'[i] = <<r>>
          PROVE  i \in 1 .. n /\ queue[i] = <<r>>
      <4>1. i # n + 1
        BY <3>2, <3>3, <3>4
      <4>2. i \in 1 .. n
        BY <3>2, <4>1
      <4> QED BY <3>2, <3>4, <4>2
    <3> QED BY <1>1, <3>2, <3>4 DEF InQueue, QueueOrdered, Earlier
  <2>2. CASE TakeReply
    <3>1. queue # <<>> /\ queue' = Tail(queue) /\ \A r : Head(queue) # <<r>>
      <4>1. \A r : <<r>> # <<>>
        OBVIOUS
      <4> QED BY <2>2, <4>1 DEF TakeReply, Takes
    <3> QED BY <1>1, <3>1, QueuePopped
  <2>3. CASE queue' = queue
    BY <1>1, <2>3 DEF QueueOrdered, InQueue, Earlier
  <2>4. DecideControl \/ ForwardOut \/ HostConfigures \/ HostAsks \/ KeyboardRequested => queue' = queue
    BY DEF DecideControl, ForwardOut, HostConfigures, HostAsks, KeyboardRequested, Requested, Ask
  <2>5. PcReader => QueueReply \/ queue' = queue \/ \E k : QueueWith(k) \/ QueueWithout(k)
    BY <1>1, ReaderSteps
  <2> QED BY <1>1, <2>1, <2>2, <2>3, <2>4, <2>5, QueueExtended, QueueReduced DEF Quiet
<1>4. ComingInOrder'
  BY <1>1, <1>2, <1>3 DEF ComingInOrder, QueueOrdered, InKeys, Earlier
<1>5. \A r \in Reports : Coming(r)' <=> Coming(r)
  BY <1>2, <1>3 DEF Coming, InKeys
<1>6. NoneMissing'
  BY <1>1, <1>2, <1>5, NoneMissingKept
<1> QED BY <1>4, <1>6

(* The next message is a report: it goes into the endpoint, or is lost.    *)
LEMMA TakeDataStep ==
  ASSUME KeyboardInv, TakeData \/ RefuseData, UNCHANGED <<keys, typed, calls, held>>
  PROVE  ComingInOrder' /\ NoneMissing'
<1>1. KeyboardTypes /\ ComingInOrder /\ NoneMissing /\ QueueOrdered
  BY DEF KeyboardInv, ComingInOrder, QueueOrdered
<1>2. PICK h \in Reports : Head(queue) = <<h>> /\ h = Head(Head(queue))
  BY <1>1, OneBank DEF TakeData, RefuseData, Takes
<1>3. /\ queue # <<>> /\ queue' = Tail(queue) /\ UNCHANGED <<keys, typed, calls, held, resets>>
      /\ \/ bank = <<>> /\ bank' = <<h>> /\ lost' = lost
         \/ bank' = bank /\ lost' = lost \cup {h}
  <2>1. queue # <<>> /\ queue' = Tail(queue) /\ resets' = resets
        /\ \/ bank = <<>> /\ bank' = <<Head(Head(queue))>> /\ lost' = lost
           \/ bank' = bank /\ lost' = lost \cup {Head(Head(queue))}
    BY DEF TakeData, RefuseData, Takes
  <2> QED BY <1>2, <2>1, Zenon
<1>4. /\ QueueOrdered' /\ InQueue(h)
      /\ \A r \in Reports : InQueue(r)' => InQueue(r) /\ Earlier(h, r)
      /\ \A r \in Reports : InQueue(r) => InQueue(r)' \/ r = h
  BY <1>1, <1>2, <1>3, QueuePopped
<1>5. \A r \in Reports : /\ Coming(r)' => Coming(r)
                         /\ Coming(r) => Coming(r)' \/ r \in lost'
  BY <1>3, <1>4 DEF Coming, InKeys
<1>6. NoneMissing'
  BY <1>1, <1>3, <1>5, NoneMissingKept
<1>7. \A r, s \in Reports : bank' = <<r>> /\ (InQueue(s)' \/ InKeys(s)') => Earlier(r, s)
  <2> SUFFICES ASSUME NEW r \in Reports, NEW s \in Reports, bank' = <<r>>, InQueue(s)' \/ InKeys(s)'
               PROVE  Earlier(r, s)
    OBVIOUS
  <2>1. InKeys(s)' => InKeys(s)
    BY <1>3 DEF InKeys
  <2>2. CASE bank' = bank
    BY <1>1, <1>4, <2>1, <2>2 DEF ComingInOrder
  <2>3. CASE bank' = <<h>>
    <3>1. r = h
      BY <2>3
    <3> QED BY <1>1, <1>4, <2>1, <3>1 DEF ComingInOrder
  <2> QED BY <1>3, <2>2, <2>3
<1>8. ComingInOrder'
  BY <1>1, <1>3, <1>4, <1>7 DEF ComingInOrder, QueueOrdered, InKeys, Earlier
<1> QED BY <1>6, <1>8

(* The keyboard's thread: the first report goes to the end of the queue.   *)
LEMMA SendReportStep ==
  ASSUME KeyboardInv, SendReport
  PROVE  ComingInOrder' /\ NoneMissing'
<1>1. KeyboardTypes /\ ComingInOrder /\ NoneMissing /\ QueueOrdered
  BY DEF KeyboardInv, ComingInOrder, QueueOrdered
<1>2. /\ keys # <<>> /\ keys' = Tail(keys) /\ WriteOutgoingData(<< <<Head(keys)>> >>)
      /\ UNCHANGED <<bank, typed, calls, held, lost, resets>>
  BY DEF SendReport, WriteOutgoingData, firmware
<1> DEFINE n == Len(queue)
           m == Len(keys)
<1>3. /\ DOMAIN keys = 1 .. m /\ m \in Nat /\ m >= 1 /\ Head(keys) = keys[1] /\ Head(keys) \in Reports
      /\ DOMAIN keys' = 1 .. m - 1 /\ \A i \in 1 .. m - 1 : keys'[i] = keys[i + 1]
  BY <1>1, <1>2, Popped, HeadTailProperties DEF KeyboardTypes
<1>4. PICK h \in Reports : h = Head(keys)
  BY <1>3
<1>5. << <<h>> >> \in Seq(Messages(Reports, 1)) /\ Len(<< <<h>> >>) = 1 /\ << <<h>> >>[1] = <<h>>
  BY <1>4 DEF Messages
<1>6. /\ DOMAIN queue = 1 .. n /\ n \in Nat /\ DOMAIN queue' = 1 .. n + 1
      /\ queue'[n + 1] = <<h>> /\ \A i \in 1 .. n : queue'[i] = queue[i]
  <2>1. WriteOutgoingData(<< <<h>> >>) /\ queue \in Seq(Messages(Reports, 1))
    BY <1>1, <1>2, <1>4 DEF KeyboardTypes, PathTypes
  <2>2. /\ queue' \in Seq(Messages(Reports, 1)) /\ n \in Nat /\ Len(queue') = n + 1
        /\ \A i \in 1 .. n : queue'[i] = queue[i]
        /\ \A i \in 1 .. 1 : queue'[n + i] = << <<h>> >>[i]
    BY <1>5, <2>1, MessagesWritten
  <2> QED BY <1>5, <2>1, <2>2, LenProperties
<1> HIDE DEF n, m
<1>7. \A r \in Reports : /\ InQueue(r)' <=> InQueue(r) \/ r = h
                         /\ InKeys(r)' => InKeys(r) /\ Earlier(h, r)
                         /\ InKeys(r) => InKeys(r)' \/ r = h
  <2> TAKE r \in Reports
  <2>1. InQueue(r)' => InQueue(r) \/ r = h
    <3>1. ASSUME NEW i \in 1 .. n + 1, queue'[i] = <<r>> PROVE InQueue(r) \/ r = h
      <4>1. CASE i = n + 1
        BY <1>6, <3>1, <4>1
      <4>2. CASE i # n + 1
        <5>1. i \in 1 .. n
          BY <1>6, <4>2
        <5> QED BY <1>6, <3>1, <5>1 DEF InQueue
      <4> QED BY <4>1, <4>2
    <3> QED BY <1>6, <3>1 DEF InQueue
  <2>2. InQueue(r) \/ r = h => InQueue(r)'
    <3>1. n + 1 \in 1 .. n + 1 /\ \A i \in 1 .. n : i \in 1 .. n + 1
      BY <1>6
    <3> QED BY <1>6, <3>1 DEF InQueue
  <2>3. InKeys(r)' => InKeys(r) /\ Earlier(h, r)
    <3>1. ASSUME NEW i \in 1 .. m - 1, keys'[i] = r PROVE InKeys(r) /\ Earlier(h, r)
      <4>1. i + 1 \in 1 .. m /\ 1 \in 1 .. m /\ 1 < i + 1 /\ keys[i + 1] = r /\ keys[1] = h
        BY <1>3, <1>4, <3>1
      <4> QED BY <1>1, <1>3, <4>1 DEF InKeys, ComingInOrder
    <3> QED BY <1>3, <3>1 DEF InKeys
  <2>4. InKeys(r) => InKeys(r)' \/ r = h
    <3>1. ASSUME NEW i \in 1 .. m, keys[i] = r, i # 1 PROVE InKeys(r)'
      <4>1. i - 1 \in 1 .. m - 1 /\ (i - 1) + 1 = i
        BY <1>3, <3>1
      <4>2. keys'[i - 1] = r
        BY <1>3, <3>1, <4>1
      <4> QED BY <1>3, <4>1, <4>2 DEF InKeys
    <3> QED BY <1>3, <1>4, <3>1 DEF InKeys
  <2> QED BY <2>1, <2>2, <2>3, <2>4
<1>8. InKeys(h)
  <2>1. 1 \in 1 .. m
    BY <1>3
  <2> QED BY <1>3, <1>4, <2>1 DEF InKeys
<1>9. ComingInOrder'
  <2>1. ASSUME NEW i \in 1 .. m - 1, NEW j \in 1 .. m - 1, i < j
        PROVE  Earlier(keys'[i], keys'[j])
    <3>1. i + 1 \in 1 .. m /\ j + 1 \in 1 .. m /\ i + 1 < j + 1
      BY <1>3, <2>1
    <3> QED BY <1>1, <1>3, <3>1 DEF ComingInOrder
  <2>2. ASSUME NEW i \in 1 .. n + 1, NEW j \in 1 .. n + 1, NEW r \in Reports, NEW s \in Reports,
               i < j, queue'[i] = <<r>>, queue'[j] = <<s>>
        PROVE  Earlier(r, s)
    <3>1. i \in 1 .. n /\ queue[i] = <<r>>
      BY <1>6, <2>2
    <3>2. CASE j = n + 1
      <4>1. s = h /\ InQueue(r)
        BY <1>6, <2>2, <3>1, <3>2 DEF InQueue
      <4> QED BY <1>1, <1>8, <4>1 DEF ComingInOrder
    <3>3. CASE j # n + 1
      <4>1. j \in 1 .. n /\ queue[j] = <<s>>
        BY <1>6, <2>2, <3>3
      <4> QED BY <1>1, <1>6, <2>2, <3>1, <4>1 DEF QueueOrdered
    <3> QED BY <3>2, <3>3
  <2>3. ASSUME NEW r \in Reports, NEW s \in Reports PROVE InQueue(r)' /\ InKeys(s)' => Earlier(r, s)
    BY <1>1, <1>7 DEF ComingInOrder
  <2>4. ASSUME NEW r \in Reports, NEW s \in Reports
        PROVE  bank' = <<r>> /\ (InQueue(s)' \/ InKeys(s)') => Earlier(r, s)
    BY <1>1, <1>2, <1>7, <1>8 DEF ComingInOrder
  <2> QED BY <1>3, <1>6, <2>1, <2>2, <2>3, <2>4 DEF ComingInOrder, Earlier
<1>10. \A r \in Reports : Coming(r)' <=> Coming(r)
  BY <1>2, <1>7, <1>8 DEF Coming
<1> QED BY <1>1, <1>2, <1>9, <1>10, NoneMissingKept

(* The host has read the report in the endpoint.                           *)
LEMMA ReadStep ==
  ASSUME KeyboardInv, HostReadsReport
  PROVE  ComingInOrder' /\ NoneMissing'
<1>1. KeyboardTypes /\ ComingInOrder /\ NoneMissing
  BY DEF KeyboardInv
<1>2. PICK h \in Reports : bank = <<h>>
  BY <1>1 DEF HostReadsReport, HostReads, KeyboardTypes, PathTypes, AtMostOne
<1>3. /\ held' = h /\ bank' = <<>> /\ UNCHANGED <<keys, queue, typed, calls, lost, resets>>
  BY <1>2 DEF HostReadsReport, HostReads
<1>4. \A r \in Reports : /\ InQueue(r)' <=> InQueue(r)
                         /\ InKeys(r)' <=> InKeys(r)
                         /\ Coming(r)' <=> InQueue(r) \/ InKeys(r)
                         /\ Made(r)' <=> Made(r)
  BY <1>3 DEF InQueue, InKeys, Coming, Made, Releases
<1>5. ComingInOrder'
  BY <1>1, <1>3, <1>4 DEF ComingInOrder, Earlier
<1>6. Made(h) /\ Complete(h) /\ Coming(h)
  BY <1>1, <1>2 DEF Coming, NoneMissing
<1>7. \A r \in Reports : Coming(r) /\ r # h => Coming(r)'
  <2>1. \A r : bank = <<r>> => r = h
    BY <1>2
  <2> QED BY <1>4, <2>1 DEF Coming
<1>8. ASSUME NEW x \in Reports, Complete(x), Earlier(h, x) \/ x = h PROVE Complete(x)'
  <2> SUFFICES ASSUME NEW r \in Reports, Made(r), Earlier(x, r) PROVE Coming(r)' \/ r \in lost
    BY <1>3, <1>4 DEF Complete, Earlier
  <2>1. Coming(r) \/ r \in lost
    BY <1>8 DEF Complete
  <2>2. r # h
    BY <1>8, EarlierOrder
  <2> QED BY <1>7, <2>1, <2>2
<1>9. ASSUME NEW r \in Reports, Coming(r)' PROVE Made(r)' /\ Complete(r)' /\ Earlier(held', r)
  <2>1. Coming(r) /\ Earlier(h, r)
    BY <1>1, <1>2, <1>4, <1>9 DEF Coming, ComingInOrder
  <2> QED BY <1>1, <1>3, <1>4, <1>8, <2>1 DEF NoneMissing
<1>10. Made(held)' /\ Complete(held)'
  <2>1. Made(h)' /\ Complete(h)'
    BY <1>4, <1>6, <1>8
  <2> QED BY <1>3, <2>1 DEF Made, Releases, Complete
<1> QED BY <1>5, <1>9, <1>10 DEF NoneMissing, Earlier

(* A reset: the report in the endpoint is lost, and the host forgets.      *)
LEMMA ForgetStep ==
  ASSUME KeyboardInv, HostForgetsKeyboard
  PROVE  ComingInOrder' /\ NoneMissing'
<1>1. KeyboardTypes /\ TypedOK /\ ComingInOrder /\ NoneMissing
  BY DEF KeyboardInv
<1>2. /\ held' = Cleared /\ bank' = <<>> /\ UNCHANGED <<keys, queue, typed, calls>>
      /\ lost' = lost \cup {bank[k] : k \in DOMAIN bank} /\ resets' # 0
  <2>1. resets \in Nat
    BY <1>1, PathBounds DEF KeyboardTypes, PathTypes
  <2> QED BY <2>1 DEF HostForgetsKeyboard, HostResets, ToSet
<1>3. \A r \in Reports : /\ InQueue(r)' <=> InQueue(r)
                         /\ InKeys(r)' <=> InKeys(r)
                         /\ Coming(r)' <=> InQueue(r) \/ InKeys(r)
                         /\ Made(r)' <=> Made(r)
                         /\ bank = <<r>> => r \in lost'
  BY <1>2 DEF InQueue, InKeys, Coming, Made, Releases
<1>4. ComingInOrder'
  BY <1>1, <1>2, <1>3 DEF ComingInOrder, Earlier
<1>5. \A r \in Reports : Coming(r) \/ r \in lost => Coming(r)' \/ r \in lost'
  BY <1>2, <1>3 DEF Coming
<1>6. ASSUME NEW x \in Reports, Complete(x) PROVE Complete(x)'
  BY <1>3, <1>5, <1>6 DEF Complete, Earlier
<1>7. ASSUME NEW r \in Reports, Coming(r)' PROVE Made(r)' /\ Complete(r)' /\ Earlier(held', r)
  <2>1. Coming(r) /\ Made(r) /\ Complete(r)
    BY <1>1, <1>3, <1>7 DEF Coming, NoneMissing
  <2>2. r.call \in 1 .. calls
    <3>1. calls \in Nat
      BY <1>1, StringBounds DEF KeyboardTypes
    <3> QED BY <1>1, <2>1, <3>1 DEF Made, Releases, TypedOK
  <2>3. calls \in Nat /\ Cleared.call = 0
    BY <1>1, StringBounds DEF KeyboardTypes, Cleared, Report
  <2>4. Earlier(Cleared, r)
    BY <2>2, <2>3 DEF Earlier
  <2> QED BY <1>2, <1>3, <1>6, <2>1, <2>4
<1> QED BY <1>2, <1>4, <1>7 DEF NoneMissing, Earlier, Cleared, Report

(* What a call adds, and that it comes after everything there was.         *)
New(s, r) == (\E k \in DOMAIN Pressed(s) : r = Pressed(s)[k]) \/ r = Clear(s)

LEMMA CallAdds ==
  ASSUME KeyboardTypes, NEW s \in Strings, SendString(s)
  PROVE  /\ Len(typed) \in Nat /\ Len(s) \in Nat /\ calls \in Nat /\ calls' = calls + 1
         /\ DOMAIN typed = 1 .. Len(typed) /\ DOMAIN typed' = 1 .. Len(typed) + Len(s)
         /\ \A i \in 1 .. Len(typed) : typed'[i] = typed[i]
         /\ \A i \in 1 .. Len(s) :
              /\ typed'[Len(typed) + i] = Pressed(s)[i]
              /\ Pressed(s)[i] \in Reports /\ Pressed(s)[i].key \in KeySet /\ Pressed(s)[i].key # None
              /\ Pressed(s)[i].call = calls + 1 /\ Pressed(s)[i].at = i
         /\ DOMAIN Pressed(s) = 1 .. Len(s)
         /\ Clear(s) \in Reports /\ Clear(s).key = None
         /\ Clear(s).call = calls + 1 /\ Clear(s).at = Len(s) + 1
         /\ DOMAIN keys = 1 .. Len(keys) /\ Len(keys) \in Nat
         /\ DOMAIN keys' = 1 .. Len(keys) + Len(s) + 1
         /\ \A i \in 1 .. Len(keys) : keys'[i] = keys[i]
         /\ \A i \in 1 .. Len(s) : keys'[Len(keys) + i] = Pressed(s)[i]
         /\ keys'[Len(keys) + Len(s) + 1] = Clear(s)
<1> DEFINE P == Pressed(s)
           C == Clear(s)
           n == Len(typed)
           m == Len(keys)
           l == Len(s)
<1>1. /\ P \in Seq(Reports) /\ Len(P) = l /\ l \in Nat /\ C \in Reports
      /\ \A k \in 1 .. l : P[k].key \in KeySet /\ P[k].call = calls + 1 /\ P[k].at = k
  BY Strokes DEF SendString, KeyboardTypes
<1>2. DOMAIN P = 1 .. l /\ \A k \in 1 .. l : P[k] \in Reports
  BY <1>1, LenProperties, ElementOfSeq
<1>3. C.key = None /\ C.call = calls + 1 /\ C.at = l + 1
  BY DEF Clear, Report
<1>4. None \notin KeySet
  BY KeyboardAssumption
<1>5. typed' = typed \o P /\ keys' = keys \o Append(P, C) /\ calls' = calls + 1
  BY DEF SendString
<1> HIDE DEF P, C
<1>6. /\ DOMAIN typed = 1 .. n /\ n \in Nat /\ DOMAIN keys = 1 .. m /\ m \in Nat /\ calls \in Nat
  BY LenProperties, StringBounds DEF KeyboardTypes
<1>7. /\ Append(P, C) \in Seq(Reports) /\ Len(Append(P, C)) = l + 1 /\ Append(P, C)[l + 1] = C
      /\ \A i \in 1 .. l : Append(P, C)[i] = P[i]
  BY <1>1, AppendProperties
<1>8. DOMAIN typed' = 1 .. n + l /\ \A i \in 1 .. n + l : typed'[i] = IF i <= n THEN typed[i] ELSE P[i - n]
  <2>1. typed \in Seq(Reports)
    BY DEF KeyboardTypes
  <2>2. /\ typed \o P \in Seq(Reports) /\ Len(typed \o P) = n + l
        /\ \A i \in 1 .. n + l : (typed \o P)[i] = IF i <= n THEN typed[i] ELSE P[i - n]
    <3>0. P \in Seq(Reports) /\ Len(P) = l
      BY <1>1
    <3>1. /\ typed \o P \in Seq(Reports) /\ Len(typed \o P) = Len(typed) + Len(P)
          /\ \A i \in 1 .. Len(typed) + Len(P) :
               (typed \o P)[i] = IF i <= Len(typed) THEN typed[i] ELSE P[i - Len(typed)]
      BY <2>1, <3>0, ConcatProperties, Zenon
    <3>2. Len(typed) + Len(P) = n + l
      BY <1>1
    <3> QED BY <3>1, <3>2, Zenon
  <2> QED BY <1>5, <2>2, LenProperties
<1>9. DOMAIN keys' = 1 .. m + (l + 1)
      /\ \A i \in 1 .. m + (l + 1) : keys'[i] = IF i <= m THEN keys[i] ELSE Append(P, C)[i - m]
  <2> DEFINE Q == Append(P, C)
  <2>1. keys \in Seq(Reports)
    BY DEF KeyboardTypes
  <2>2. /\ keys \o Q \in Seq(Reports) /\ Len(keys \o Q) = m + (l + 1)
        /\ \A i \in 1 .. m + (l + 1) : (keys \o Q)[i] = IF i <= m THEN keys[i] ELSE Q[i - m]
    <3>0. Q \in Seq(Reports) /\ Len(Q) = l + 1
      BY <1>7
    <3> HIDE DEF Q
    <3>1. /\ keys \o Q \in Seq(Reports) /\ Len(keys \o Q) = Len(keys) + Len(Q)
          /\ \A i \in 1 .. Len(keys) + Len(Q) :
               (keys \o Q)[i] = IF i <= Len(keys) THEN keys[i] ELSE Q[i - Len(keys)]
      BY <2>1, <3>0, ConcatProperties, Zenon
    <3>2. Len(keys) + Len(Q) = m + (l + 1)
      BY <3>0
    <3> QED BY <3>1, <3>2, Zenon
  <2> QED BY <1>5, <2>2, LenProperties
<1> HIDE DEF n, m, l
<1>10. /\ \A i \in 1 .. n : typed'[i] = typed[i]
       /\ \A i \in 1 .. m : keys'[i] = keys[i]
  <2>1. ASSUME NEW i \in 1 .. n PROVE i \in 1 .. n + l /\ i <= n
    BY <1>1, <1>6
  <2>2. ASSUME NEW i \in 1 .. m PROVE i \in 1 .. m + (l + 1) /\ i <= m
    BY <1>1, <1>6
  <2> QED BY <1>8, <1>9, <2>1, <2>2
<1>11. ASSUME NEW i \in 1 .. l PROVE typed'[n + i] = P[i] /\ keys'[m + i] = P[i]
  <2>1. n + i \in 1 .. n + l /\ ~(n + i <= n) /\ (n + i) - n = i
        /\ m + i \in 1 .. m + (l + 1) /\ ~(m + i <= m) /\ (m + i) - m = i
    BY <1>1, <1>6
  <2>2. typed'[n + i] = P[(n + i) - n] /\ keys'[m + i] = Append(P, C)[(m + i) - m]
    BY <1>8, <1>9, <2>1
  <2> QED BY <1>7, <2>1, <2>2
<1>12. keys'[m + l + 1] = C
  <2>1. m + l + 1 \in 1 .. m + (l + 1) /\ ~(m + l + 1 <= m) /\ (m + l + 1) - m = l + 1
    BY <1>1, <1>6
  <2>2. keys'[m + l + 1] = Append(P, C)[(m + l + 1) - m]
    BY <1>9, <2>1
  <2> QED BY <1>7, <2>1, <2>2
<1>13. m + (l + 1) = m + l + 1
  BY <1>1, <1>6
<1> QED BY <1>1, <1>2, <1>3, <1>4, <1>5, <1>6, <1>8, <1>9, <1>10, <1>11, <1>12, <1>13 DEF P, C, n, m, l

LEMMA CallMakes ==
  ASSUME KeyboardTypes, TypedOK, NEW s \in Strings, SendString(s), NEW r \in Reports
  PROVE  /\ InKeys(r)' <=> InKeys(r) \/ New(s, r)
         /\ Made(r)' <=> Made(r) \/ New(s, r)
         /\ Made(r) => r.call <= calls
         /\ New(s, r) => r.call = calls + 1 /\ ~Made(r)
<1> DEFINE n == Len(typed)
           m == Len(keys)
           l == Len(s)
<1>1. /\ n \in Nat /\ l \in Nat /\ calls \in Nat /\ calls' = calls + 1
      /\ DOMAIN typed = 1 .. n /\ DOMAIN typed' = 1 .. n + l
      /\ \A i \in 1 .. n : typed'[i] = typed[i]
      /\ \A i \in 1 .. l :
           /\ typed'[n + i] = Pressed(s)[i] /\ Pressed(s)[i].key # None
           /\ Pressed(s)[i].call = calls + 1 /\ Pressed(s)[i].at = i
      /\ DOMAIN Pressed(s) = 1 .. l
  BY CallAdds
<1>2. /\ Clear(s) \in Reports /\ Clear(s).key = None /\ Clear(s).call = calls + 1 /\ Clear(s).at = l + 1
  BY CallAdds
<1>3. /\ DOMAIN keys = 1 .. m /\ m \in Nat /\ DOMAIN keys' = 1 .. m + l + 1
      /\ \A i \in 1 .. m : keys'[i] = keys[i]
      /\ \A i \in 1 .. l : keys'[m + i] = Pressed(s)[i]
      /\ keys'[m + l + 1] = Clear(s)
  BY CallAdds
<1> HIDE DEF n, m, l
<1>4. \A k \in 1 .. n : typed[k].call <= calls /\ typed[k].call \in Nat
  BY <1>1 DEF TypedOK
<1>5. Made(r) => r.call <= calls
  BY <1>1, <1>4 DEF Made, Releases
<1>6. New(s, r) => r.call = calls + 1 /\ ~Made(r)
  BY <1>1, <1>2, <1>5 DEF New
<1>7. \A i \in 1 .. m + l + 1 : i \in 1 .. m \/ i = m + l + 1 \/ \E k \in 1 .. l : i = m + k
  <2> SUFFICES ASSUME NEW i \in 1 .. m + l + 1, ~(i <= m), i # m + l + 1 PROVE \E k \in 1 .. l : i = m + k
    BY <1>1, <1>3
  <2>1. i - m \in 1 .. l /\ i = m + (i - m)
    BY <1>1, <1>3
  <2> QED BY <2>1
<1>8. \A i \in 1 .. n + l : i \in 1 .. n \/ \E k \in 1 .. l : i = n + k
  <2> SUFFICES ASSUME NEW i \in 1 .. n + l, ~(i <= n) PROVE \E k \in 1 .. l : i = n + k
    BY <1>1
  <2>1. i - n \in 1 .. l /\ i = n + (i - n)
    BY <1>1
  <2> QED BY <2>1
<1>9. /\ \A i \in 1 .. m : i \in 1 .. m + l + 1
      /\ \A k \in 1 .. l : m + k \in 1 .. m + l + 1 /\ n + k \in 1 .. n + l
      /\ m + l + 1 \in 1 .. m + l + 1 /\ \A i \in 1 .. n : i \in 1 .. n + l
  BY <1>1, <1>3
<1>10. InKeys(r)' <=> InKeys(r) \/ New(s, r)
  <2>1. InKeys(r)' => InKeys(r) \/ New(s, r)
    <3> SUFFICES ASSUME NEW i \in 1 .. m + l + 1, keys'[i] = r PROVE InKeys(r) \/ New(s, r)
      BY <1>3 DEF InKeys
    <3>1. CASE i \in 1 .. m
      BY <1>3, <3>1 DEF InKeys
    <3>2. CASE i = m + l + 1
      BY <1>3, <3>2 DEF New
    <3>3. CASE \E k \in 1 .. l : i = m + k
      <4>1. PICK k \in 1 .. l : i = m + k
        BY <3>3
      <4>2. r = Pressed(s)[k] /\ k \in DOMAIN Pressed(s)
        BY <1>1, <1>3, <4>1
      <4> QED BY <4>2 DEF New
    <3> QED BY <1>7, <3>1, <3>2, <3>3
  <2>2. InKeys(r) => InKeys(r)'
    <3> SUFFICES ASSUME NEW i \in 1 .. m, keys[i] = r PROVE InKeys(r)'
      BY <1>3 DEF InKeys
    <3>1. i \in 1 .. m + l + 1 /\ keys'[i] = r
      BY <1>3, <1>9
    <3> QED BY <1>3, <3>1 DEF InKeys
  <2>3. New(s, r) => InKeys(r)'
    <3>1. CASE r = Clear(s)
      BY <1>3, <1>9, <3>1 DEF InKeys
    <3>2. ASSUME NEW k \in 1 .. l, r = Pressed(s)[k] PROVE InKeys(r)'
      <4>1. m + k \in 1 .. m + l + 1 /\ keys'[m + k] = r
        BY <1>3, <1>9, <3>2
      <4> QED BY <1>3, <4>1 DEF InKeys
    <3> QED BY <1>1, <3>1, <3>2 DEF New
  <2> QED BY <2>1, <2>2, <2>3
<1>11. (\E k \in DOMAIN typed' : typed'[k] = r) <=>
         (\E k \in DOMAIN typed : typed[k] = r) \/ \E k \in DOMAIN Pressed(s) : r = Pressed(s)[k]
  <2>1. ASSUME NEW k \in 1 .. n + l, typed'[k] = r
        PROVE  (\E j \in 1 .. n : typed[j] = r) \/ \E j \in 1 .. l : r = Pressed(s)[j]
    <3>1. CASE k \in 1 .. n
      BY <1>1, <2>1, <3>1
    <3>2. CASE \E i \in 1 .. l : k = n + i
      <4>1. PICK i \in 1 .. l : k = n + i
        BY <3>2
      <4>2. r = Pressed(s)[i]
        BY <1>1, <2>1, <4>1
      <4> QED BY <4>2
    <3> QED BY <1>8, <3>1, <3>2
  <2>2. ASSUME NEW k \in 1 .. n, typed[k] = r PROVE \E j \in 1 .. n + l : typed'[j] = r
    BY <1>1, <1>9, <2>2
  <2>3. ASSUME NEW k \in 1 .. l, r = Pressed(s)[k] PROVE \E j \in 1 .. n + l : typed'[j] = r
    BY <1>1, <1>9, <2>3
  <2> QED BY <1>1, <2>1, <2>2, <2>3
<1>12. ASSUME NEW k \in 1 .. n + l
       PROVE  /\ typed'[k].call <= calls => k \in 1 .. n /\ typed'[k] = typed[k]
              /\ typed'[k].call = calls + 1 => \E i \in 1 .. l : k = n + i
  BY <1>1, <1>4, <1>8
<1>13. r.call <= calls => (Releases(r)' <=> Releases(r))
  <2> SUFFICES ASSUME r.call <= calls PROVE Releases(r)' <=> Releases(r)
    OBVIOUS
  <2>1. r.call \in Nat
    BY ReportNumbers
  <2>2. r.call \in 1 .. calls' <=> r.call \in 1 .. calls
    BY <1>1, <2>1
  <2>3. ASSUME NEW k \in 1 .. n + l, typed'[k].call = r.call PROVE k \in 1 .. n /\ typed'[k] = typed[k]
    BY <1>12, <2>3
  <2>4. \A k \in 1 .. n : k \in 1 .. n + l /\ typed'[k] = typed[k]
    BY <1>1, <1>9
  <2>5. (\E k \in 1 .. n + l : typed'[k].call = r.call /\ typed'[k].at = r.at - 1) <=>
          (\E k \in 1 .. n : typed[k].call = r.call /\ typed[k].at = r.at - 1)
    BY <2>3, <2>4
  <2>6. (\A k \in 1 .. n + l : typed'[k].call = r.call => typed'[k].at < r.at) <=>
          (\A k \in 1 .. n : typed[k].call = r.call => typed[k].at < r.at)
    BY <2>3, <2>4
  <2> QED BY <1>1, <2>2, <2>5, <2>6 DEF Releases
<1>14. r.call > calls => (Releases(r)' <=> r = Clear(s))
  <2>0. r.call \in Nat /\ r.at \in Nat
    BY ReportNumbers
  <2>1. ASSUME r.call > calls, Releases(r)' PROVE r = Clear(s)
    <3>1. r.key = None /\ r.call = calls + 1
      BY <1>1, <2>0, <2>1 DEF Releases
    <3>2. ASSUME NEW i \in 1 .. l PROVE i < r.at
      <4>1. n + i \in DOMAIN typed' /\ typed'[n + i].call = r.call /\ typed'[n + i].at = i
        BY <1>1, <1>9, <3>1
      <4> QED BY <2>1, <4>1 DEF Releases
    <3>3. r.at > l
      <4>1. CASE l = 0
        BY <2>0, <2>1, <4>1 DEF Releases
      <4>2. CASE l # 0
        <5>1. l \in 1 .. l
          BY <1>1, <4>2
        <5> QED BY <3>2, <5>1
      <4> QED BY <4>1, <4>2
    <3>4. r.at = 1 \/ r.at <= l + 1
      <4> SUFFICES ASSUME NEW k \in 1 .. n + l, typed'[k].call = r.call, typed'[k].at = r.at - 1
                   PROVE  r.at <= l + 1
        BY <1>1, <2>1 DEF Releases
      <4>1. PICK i \in 1 .. l : k = n + i
        BY <1>12, <3>1
      <4>2. typed'[k].at = i
        BY <1>1, <4>1
      <4> QED BY <1>1, <2>0, <4>2
    <3>5. r.at = l + 1
      BY <1>1, <2>0, <3>3, <3>4
    <3> QED BY <1>2, <3>1, <3>5 DEF Reports
  <2>2. ASSUME r = Clear(s) PROVE Releases(r)'
    <3>1. r.key = None /\ r.call = calls + 1 /\ r.at = l + 1
      BY <1>2, <2>2
    <3>2. l = 0 \/ \E k \in 1 .. n + l : typed'[k].call = r.call /\ typed'[k].at = r.at - 1
      <4> SUFFICES ASSUME l # 0 PROVE \E k \in 1 .. n + l : typed'[k].call = r.call /\ typed'[k].at = r.at - 1
        OBVIOUS
      <4>1. l \in 1 .. l /\ r.at - 1 = l
        BY <1>1, <3>1
      <4>2. n + l \in 1 .. n + l /\ typed'[n + l].call = r.call /\ typed'[n + l].at = l
        BY <1>1, <1>9, <3>1, <4>1
      <4> QED BY <4>1, <4>2
    <3>3. \A k \in 1 .. n + l : typed'[k].call = r.call => typed'[k].at < r.at
      <4> SUFFICES ASSUME NEW k \in 1 .. n + l, typed'[k].call = r.call PROVE typed'[k].at < r.at
        OBVIOUS
      <4>1. PICK i \in 1 .. l : k = n + i
        BY <1>12, <3>1
      <4>2. typed'[k].at = i
        BY <1>1, <4>1
      <4> QED BY <1>1, <3>1, <4>2
    <3>4. r.at = 1 \/ \E k \in DOMAIN typed' : typed'[k].call = r.call /\ typed'[k].at = r.at - 1
      BY <1>1, <3>1, <3>2
    <3>5. r.call \in 1 .. calls' /\ r.at >= 1
      BY <1>1, <3>1
    <3> QED BY <1>1, <3>1, <3>3, <3>4, <3>5 DEF Releases
  <2> QED BY <2>1, <2>2
<1>15. Releases(r)' <=> Releases(r) \/ r = Clear(s)
  <2>0. r.call \in Nat
    BY ReportNumbers
  <2>1. CASE r.call <= calls
    BY <1>1, <1>2, <1>13, <2>1
  <2>2. CASE r.call > calls
    BY <1>1, <1>14, <2>2 DEF Releases
  <2> QED BY <1>1, <2>0, <2>1, <2>2
<1>16. Made(r)' <=> Made(r) \/ New(s, r)
  BY <1>11, <1>15 DEF Made, New
<1> QED BY <1>5, <1>6, <1>10, <1>16

LEMMA CallKeepsOrder ==
  ASSUME KeyboardTypes, TypedOK, NEW s \in Strings, SendString(s)
  PROVE  TypedOK'
<1> DEFINE n == Len(typed)
           l == Len(s)
<1>1. /\ n \in Nat /\ l \in Nat /\ calls \in Nat /\ calls' = calls + 1
      /\ DOMAIN typed = 1 .. n /\ DOMAIN typed' = 1 .. n + l
      /\ \A i \in 1 .. n : typed'[i] = typed[i]
      /\ \A i \in 1 .. l :
           /\ typed'[n + i] = Pressed(s)[i] /\ Pressed(s)[i].key # None
           /\ Pressed(s)[i].call = calls + 1 /\ Pressed(s)[i].at = i
      /\ Clear(s) \in Reports /\ Clear(s).call = calls + 1 /\ Clear(s).key = None
  BY CallAdds
<1> HIDE DEF n, l
<1>2. \A k \in 1 .. n + l : k \in 1 .. n \/ (k - n \in 1 .. l /\ k = n + (k - n))
  BY <1>1
<1>3. ASSUME NEW k \in 1 .. n + l
      PROVE  \/ /\ k \in 1 .. n /\ typed'[k] = typed[k] /\ typed[k].key # None
                /\ typed[k].call \in 1 .. calls /\ typed[k].at >= 1
             \/ /\ k > n /\ k - n \in 1 .. l /\ typed'[k].key # None
                /\ typed'[k].call = calls + 1 /\ typed'[k].at = k - n
  <2>1. CASE k \in 1 .. n
    BY <1>1, <2>1 DEF TypedOK
  <2>2. CASE k \notin 1 .. n
    <3>1. k - n \in 1 .. l /\ k = n + (k - n) /\ k > n
      BY <1>1, <1>2, <2>2
    <3> DEFINE i == k - n
    <3>2. i \in 1 .. l /\ k = n + i
      BY <3>1
    <3> HIDE DEF i
    <3>3. typed'[k].key # None /\ typed'[k].call = calls + 1 /\ typed'[k].at = i
      BY <1>1, <3>2
    <3> QED BY <3>1, <3>3 DEF i
  <2> QED BY <2>1, <2>2
<1>4. \A k \in DOMAIN typed' : typed'[k].key # None /\ typed'[k].call \in 1 .. calls' /\ typed'[k].at >= 1
  BY <1>1, <1>3
<1>5. ASSUME NEW j \in 1 .. n + l, NEW k \in 1 .. n + l, j < k PROVE Earlier(typed'[j], typed'[k])
  <2>1. CASE k \in 1 .. n
    <3>1. j \in 1 .. n
      BY <1>1, <1>5, <2>1
    <3> QED BY <1>1, <1>5, <2>1, <3>1 DEF TypedOK
  <2>2. CASE k \notin 1 .. n /\ j \in 1 .. n
    BY <1>1, <1>3, <2>2 DEF Earlier
  <2>3. CASE k \notin 1 .. n /\ j \notin 1 .. n
    <3>1. typed'[j].call = calls + 1 /\ typed'[j].at = j - n
      BY <1>3, <2>3
    <3>2. typed'[k].call = calls + 1 /\ typed'[k].at = k - n
      BY <1>3, <2>3
    <3> QED BY <1>1, <1>5, <3>1, <3>2 DEF Earlier
  <2> QED BY <2>1, <2>2, <2>3
<1>6. ASSUME NEW k \in 1 .. n + l, typed'[k].at > 1
      PROVE  \E j \in 1 .. n + l : /\ j = k - 1 /\ typed'[j].call = typed'[k].call
                                   /\ typed'[j].at = typed'[k].at - 1
  <2>1. CASE k \in 1 .. n
    <3>1. \E j \in 1 .. n : /\ j = k - 1 /\ typed[j].call = typed[k].call
                            /\ typed[j].at = typed[k].at - 1
      BY <1>1, <1>6, <2>1 DEF TypedOK
    <3>2. PICK j \in 1 .. n : /\ j = k - 1 /\ typed[j].call = typed[k].call
                              /\ typed[j].at = typed[k].at - 1
      BY <3>1
    <3>3. j \in 1 .. n + l /\ typed'[j] = typed[j] /\ typed'[k] = typed[k]
      BY <1>1, <2>1
    <3> QED BY <3>2, <3>3
  <2>2. CASE k \notin 1 .. n
    <3>1. k > n /\ k - n \in 1 .. l /\ typed'[k].call = calls + 1 /\ typed'[k].at = k - n
      BY <1>3, <2>2
    <3>2. k - 1 \in 1 .. n + l /\ k - 1 \notin 1 .. n /\ (k - 1) - n = (k - n) - 1
      BY <1>1, <1>6, <3>1
    <3>3. typed'[k - 1].call = calls + 1 /\ typed'[k - 1].at = (k - 1) - n
      BY <1>3, <3>2
    <3> QED BY <3>1, <3>2, <3>3
  <2> QED BY <2>1, <2>2
<1>7. ASSUME NEW c \in 1 .. calls + 1 PROVE \E r \in Reports : r.call = c /\ Releases(r)'
  <2>1. CASE c = calls + 1
    <3>1. PICK r \in Reports : r = Clear(s)
      BY <1>1
    <3>2. Made(r)'
      BY <3>1, CallMakes DEF New
    <3>3. r.key = None /\ r.call = c
      BY <1>1, <2>1, <3>1
    <3> QED BY <1>4, <3>2, <3>3 DEF Made
  <2>2. CASE c # calls + 1
    <3>1. c \in 1 .. calls
      BY <1>1, <2>2
    <3>2. PICK r \in Reports : r.call = c /\ Releases(r)
      BY <3>1 DEF TypedOK
    <3>3. Made(r)' /\ r.key = None
      BY <3>2, CallMakes DEF Made, Releases
    <3> QED BY <1>4, <3>2, <3>3 DEF Made
  <2> QED BY <2>1, <2>2
<1> QED BY <1>1, <1>4, <1>5, <1>6, <1>7 DEF TypedOK, Earlier

LEMMA SendStringStep ==
  ASSUME KeyboardInv, NEW s \in Strings, SendString(s)
  PROVE  ComingInOrder' /\ NoneMissing'
<1>1. KeyboardTypes /\ TypedOK /\ ComingInOrder /\ NoneMissing
  BY DEF KeyboardInv
<1>2. UNCHANGED <<bank, queue, held, lost, resets>> /\ calls \in Nat /\ calls' = calls + 1
  BY <1>1, CallAdds DEF SendString, path, firmware
<1>3. \A r \in Reports :
        /\ InKeys(r)' <=> InKeys(r) \/ New(s, r)
        /\ Made(r)' <=> Made(r) \/ New(s, r)
        /\ Made(r) => r.call <= calls
        /\ New(s, r) => r.call = calls + 1
        /\ InQueue(r)' <=> InQueue(r)
        /\ Coming(r)' <=> Coming(r) \/ New(s, r)
        /\ Coming(r) => Made(r)
  BY <1>1, <1>2, CallMakes DEF InQueue, Coming, NoneMissing
<1>4. ASSUME NEW q \in Reports, NEW r \in Reports, q.call <= calls, New(s, r) PROVE Earlier(q, r)
  BY <1>2, <1>3, <1>4, ReportNumbers DEF Earlier
<1>5. ComingInOrder'
  <2> DEFINE m == Len(keys)
             l == Len(s)
  <2>1. /\ DOMAIN keys = 1 .. m /\ m \in Nat /\ l \in Nat /\ DOMAIN keys' = 1 .. m + l + 1
        /\ \A i \in 1 .. m : keys'[i] = keys[i]
        /\ \A i \in 1 .. l : keys'[m + i] = Pressed(s)[i]
        /\ keys'[m + l + 1] = Clear(s)
        /\ \A i \in 1 .. l : /\ Pressed(s)[i] \in Reports /\ Pressed(s)[i].call = calls + 1
                             /\ Pressed(s)[i].at = i
        /\ Clear(s) \in Reports /\ Clear(s).call = calls + 1 /\ Clear(s).at = l + 1
        /\ DOMAIN Pressed(s) = 1 .. l
    BY <1>1, CallAdds
  <2>2. \A i \in 1 .. m : keys[i] \in Reports
    BY <1>1, ElementOfSeq DEF KeyboardTypes
  <2> HIDE DEF m, l
  <2>3. ASSUME NEW i \in 1 .. m + l + 1, i \notin 1 .. m
        PROVE  keys'[i] \in Reports /\ New(s, keys'[i]) /\ keys'[i].call = calls + 1 /\ keys'[i].at = i - m
    <3>1. CASE i = m + l + 1
      BY <2>1, <3>1 DEF New
    <3>2. CASE i # m + l + 1
      <4> DEFINE k == i - m
      <4>1. k \in 1 .. l /\ i = m + k
        BY <2>1, <2>3, <3>2
      <4> HIDE DEF k
      <4>2. keys'[i] = Pressed(s)[k]
        BY <2>1, <4>1
      <4>3. keys'[i].at = i - m
        BY <2>1, <4>1, <4>2 DEF k
      <4> QED BY <2>1, <4>1, <4>2, <4>3 DEF New
    <3> QED BY <3>1, <3>2
  <2>4. ASSUME NEW i \in 1 .. m + l + 1, NEW j \in 1 .. m + l + 1, i < j PROVE Earlier(keys'[i], keys'[j])
    <3>1. CASE j \in 1 .. m
      <4>1. i \in 1 .. m
        BY <2>1, <2>4, <3>1
      <4> QED BY <1>1, <2>1, <2>4, <3>1, <4>1 DEF ComingInOrder
    <3>2. CASE j \notin 1 .. m /\ i \in 1 .. m
      <4>1. keys'[i] = keys[i] /\ keys[i] \in Reports /\ InKeys(keys[i])
        BY <2>1, <2>2, <3>2 DEF InKeys
      <4>2. keys[i].call <= calls
        BY <1>3, <4>1 DEF Coming
      <4> QED BY <1>4, <2>3, <3>2, <4>1, <4>2
    <3>3. CASE j \notin 1 .. m /\ i \notin 1 .. m
      <4>1. keys'[i].call = calls + 1 /\ keys'[i].at = i - m
        BY <2>3, <3>3
      <4>2. keys'[j].call = calls + 1 /\ keys'[j].at = j - m
        BY <2>3, <3>3
      <4> QED BY <2>1, <2>4, <4>1, <4>2 DEF Earlier
    <3> QED BY <3>1, <3>2, <3>3
  <2>5. ASSUME NEW r \in Reports, NEW q \in Reports, InQueue(r) \/ bank = <<r>>, InQueue(q)' \/ InKeys(q)'
        PROVE  InQueue(q) \/ InKeys(q) \/ Earlier(r, q)
    <3>1. r.call <= calls
      BY <1>3, <2>5 DEF Coming
    <3> QED BY <1>3, <1>4, <2>5, <3>1
  <2>6. \A r, q \in Reports : InQueue(r) /\ InKeys(q)' => Earlier(r, q)
    <3> SUFFICES ASSUME NEW r \in Reports, NEW q \in Reports, InQueue(r), InKeys(q)' PROVE Earlier(r, q)
      OBVIOUS
    <3>1. r.call <= calls
      BY <1>3 DEF Coming
    <3> QED BY <1>1, <1>3, <1>4, <3>1 DEF ComingInOrder
  <2>7. \A r, q \in Reports : bank = <<r>> /\ (InQueue(q)' \/ InKeys(q)') => Earlier(r, q)
    BY <1>1, <2>5 DEF ComingInOrder
  <2> QED BY <1>1, <1>2, <1>3, <2>1, <2>4, <2>6, <2>7 DEF ComingInOrder, Earlier
<1>6. ASSUME NEW x \in Reports, Complete(x) PROVE Complete(x)'
  BY <1>2, <1>3, <1>6 DEF Complete, Earlier
<1>7. ASSUME NEW x \in Reports, New(s, x) PROVE Complete(x)'
  <2> SUFFICES ASSUME NEW r \in Reports, Made(r)', Earlier(x, r) PROVE Coming(r)'
    BY DEF Complete, Earlier
  <2>1. ~Made(r)
    <3> SUFFICES ASSUME r.call <= calls PROVE FALSE
      BY <1>3
    <3>1. Earlier(r, x)
      BY <1>4, <1>7
    <3> QED BY <3>1, EarlierOrder
  <2> QED BY <1>3, <2>1
<1>8. held \in Reports /\ held.call <= calls
  <2>1. Cleared.call = 0
    BY DEF Cleared, Report
  <2> QED BY <1>1, <1>2, <1>3, <2>1 DEF NoneMissing, KeyboardTypes
<1>9. ASSUME NEW r \in Reports, Coming(r)' PROVE Made(r)' /\ Complete(r)' /\ Earlier(held, r)
  <2>1. CASE Coming(r)
    BY <1>1, <1>3, <1>6, <2>1 DEF NoneMissing
  <2>2. CASE New(s, r)
    BY <1>3, <1>4, <1>7, <1>8, <2>2
  <2> QED BY <1>3, <1>9, <2>1, <2>2
<1>10. (Made(held) => Made(held)') /\ (Complete(held) => Complete(held)')
  <2>1. PICK h \in Reports : h = held
    BY <1>8
  <2>2. held' = h
    BY <1>2, <2>1
  <2>3. (Made(h) => Made(h)') /\ (Complete(h) => Complete(h)')
    BY <1>3, <1>6
  <2> QED BY <2>1, <2>2, <2>3 DEF Made, Releases, Complete
<1> QED BY <1>1, <1>2, <1>5, <1>9, <1>10 DEF NoneMissing, Earlier

(* The steps of the keyboard's program that leave its lists alone.         *)
LEMMA KeyboardInvInit == KeyboardInit => KeyboardInv
<1> SUFFICES ASSUME KeyboardInit PROVE KeyboardInv
  OBVIOUS
<1>1. KeyboardTypes
  BY KeyboardInitTypes
<1>2. /\ keys = <<>> /\ queue = <<>> /\ bank = <<>> /\ typed = <<>> /\ calls = 0 /\ held = Cleared
  BY DEF KeyboardInit, PathInit
<1>3. TypedOK
  BY <1>2 DEF TypedOK
<1>4. \A r \in Reports : ~Coming(r) /\ ~Made(r) /\ ~InQueue(r) /\ ~InKeys(r)
  BY <1>2 DEF Coming, InQueue, InKeys, Made, Releases
<1>5. ComingInOrder
  BY <1>2, <1>4 DEF ComingInOrder
<1>6. NoneMissing
  BY <1>2, <1>4 DEF NoneMissing, Complete
<1> QED BY <1>1, <1>3, <1>5, <1>6 DEF KeyboardInv

LEMMA KeyboardInvKept ==
  ASSUME KeyboardInv,
         KeyboardNext \/ ((PcReader \/ Firmware \/ HostConfigures \/ HostAsks) /\ UNCHANGED keyboard)
  PROVE  KeyboardInv'
<1>1. KeyboardTypes /\ TypedOK
  BY DEF KeyboardInv
<1>2. KeyboardTypes'
  <2>1. CASE KeyboardNext
    BY <1>1, <2>1, KeyboardStepTypes
  <2>2. CASE (PcReader \/ Firmware \/ HostConfigures \/ HostAsks) /\ UNCHANGED keyboard
    <3>1. PathTypes(Reports, {}, 1)'
      BY <1>1, <2>2, FirmwareTypes DEF KeyboardTypes
    <3> QED BY <1>1, <2>2, <3>1 DEF KeyboardTypes, keyboard
  <2> QED BY <2>1, <2>2
<1>3. UNCHANGED <<typed, calls>> => TypedOK'
  BY <1>1 DEF TypedOK, Earlier, Releases
<1>4. CASE \E s \in Strings : SendString(s)
  BY <1>1, <1>2, <1>4, CallKeepsOrder, SendStringStep DEF KeyboardInv
<1>5. CASE SendReport
  BY <1>2, <1>3, <1>5, SendReportStep DEF KeyboardInv, SendReport
<1>6. CASE KeyboardRequested
  BY <1>2, <1>3, <1>6, QuietSteps DEF KeyboardInv, KeyboardRequested, Requested, Quiet
<1>7. CASE HostReadsReport
  BY <1>2, <1>3, <1>7, ReadStep DEF KeyboardInv, HostReadsReport
<1>8. CASE HostForgetsKeyboard
  BY <1>2, <1>3, <1>8, ForgetStep DEF KeyboardInv, HostForgetsKeyboard
<1>9. CASE (PcReader \/ Firmware \/ HostConfigures \/ HostAsks) /\ UNCHANGED keyboard
  <2>1. ~WriteBank
    BY <1>1, OneBank DEF WriteBank
  <2>2. (TakeData \/ RefuseData) \/ Quiet
    BY <1>9, <2>1 DEF Firmware, Quiet
  <2>3. ComingInOrder' /\ NoneMissing'
    BY <1>9, <2>2, QuietSteps, TakeDataStep DEF keyboard
  <2> QED BY <1>2, <1>3, <1>9, <2>3 DEF KeyboardInv, keyboard
<1> QED BY <1>4, <1>5, <1>6, <1>7, <1>8, <1>9 DEF KeyboardNext, KeyboardSteps

(* While the disk is the device, the keyboard has not begun.               *)
Unused == keys = <<>> /\ typed = <<>> /\ text = <<>> /\ held = Cleared
KeyboardSafe ==
  /\ device \in {"keyboard", "storage"}
  /\ IF device = "keyboard" THEN KeyboardInv ELSE Unused

LEMMA KeyboardSafeKept == KeyboardSafe /\ [Next]_vars => KeyboardSafe'
<1> SUFFICES ASSUME KeyboardSafe, [Next]_vars PROVE KeyboardSafe'
  OBVIOUS
<1>1. device' = device
  BY DEF Next, Keyboard, Storage, Either, vars
<1>2. CASE device = "keyboard"
  <2>1. CASE Next
    <3>1. KeyboardNext \/ ((PcReader \/ Firmware \/ HostConfigures \/ HostAsks) /\ UNCHANGED keyboard)
      BY <1>2, <2>1 DEF Next, Keyboard, Storage, Either
    <3> QED BY <1>1, <1>2, <3>1, KeyboardInvKept DEF KeyboardSafe
  <2>2. CASE UNCHANGED vars
    BY <1>1, <1>2, <2>2
    DEF KeyboardSafe, KeyboardInv, vars, path, firmware, keyboard, KeyboardTypes, PathTypes, TypedOK, Earlier, Releases,
        ComingInOrder, NoneMissing, Made, Coming, Complete, InQueue, InKeys
  <2> QED BY <2>1, <2>2
<1>3. CASE device = "storage"
  <2>1. UNCHANGED <<keys, typed, text, held>>
    BY <1>3 DEF Next, Keyboard, Storage, Either, vars, keyboard
  <2> QED BY <1>1, <1>3, <2>1 DEF KeyboardSafe, Unused
<1> QED BY <1>2, <1>3 DEF KeyboardSafe

(* A key stays pressed only if the report that releases it was lost.       *)
THEOREM KeysComeUp == Spec => []StuckKey
<1>1. Init => KeyboardSafe
  BY KeyboardInvInit DEF Init, KeyboardSafe, Unused, KeyboardInit
<1>2. KeyboardSafe => StuckKey
  <2> SUFFICES ASSUME KeyboardSafe, KeysDrained, held.key # None, NEW r \in Reports,
                      r.call > held.call \/ (r.call = held.call /\ r.at > held.at),
                      r.key = None, r.call <= calls,
                      \E k \in DOMAIN typed : typed[k].call = r.call /\ typed[k].at = r.at - 1,
                      \A k \in DOMAIN typed : typed[k].call = r.call => typed[k].at < r.at
               PROVE  r \in lost
    BY DEF StuckKey
  <2>1. held # Cleared
    BY DEF Cleared, Report
  <2>2. KeyboardInv
    BY <2>1 DEF KeyboardSafe, Unused
  <2>3. held \in Reports /\ r.call \in Nat /\ r.at \in Nat /\ held.call \in Nat /\ held.at \in Nat
    BY <2>2, ReportNumbers DEF KeyboardInv, KeyboardTypes
  <2>4. r.call \in 1 .. calls /\ r.at >= 1
    BY <2>2, <2>3 DEF KeyboardInv, TypedOK
  <2>5. Made(r) /\ Earlier(held, r)
    BY <2>3, <2>4 DEF Made, Releases, Earlier
  <2>6. ~Coming(r)
    BY DEF KeysDrained, Coming, InQueue, InKeys
  <2> QED BY <2>1, <2>2, <2>5, <2>6 DEF KeyboardInv, NoneMissing, Complete
<1> QED BY <1>1, <1>2, KeyboardSafeKept, PTL DEF Spec

-----------------------------------------------------------------------------
(* The visible characters the host has read, or is already past.           *)
ReadSet == {v \in Visible : ~Earlier(held, typed[v])}
Rank(k) == Cardinality({v \in Visible : v <= k})
TextInv ==
  lost = {} /\ resets = 0 =>
    /\ Len(text) = Cardinality(ReadSet)
    /\ \A n \in DOMAIN text : \E k \in ReadSet : text[n] = typed[k] /\ Rank(k) = n

LEMMA TypedNumbers ==
  ASSUME KeyboardInv
  PROVE  /\ Len(typed) \in Nat /\ DOMAIN typed = 1 .. Len(typed) /\ Visible \subseteq 1 .. Len(typed)
         /\ IsFiniteSet(Visible) /\ held \in Reports
         /\ \A k \in 1 .. Len(typed) : /\ typed[k] \in Reports /\ typed[k].call \in Nat /\ typed[k].at \in Nat
                                       /\ typed[k].at >= 1 /\ typed[k].key # None /\ Made(typed[k])
         /\ \A j, k \in 1 .. Len(typed) : j < k => Earlier(typed[j], typed[k])
<1> DEFINE n == Len(typed)
<1>1. KeyboardTypes /\ TypedOK
  BY DEF KeyboardInv
<1>2. n \in Nat /\ DOMAIN typed = 1 .. n /\ \A k \in 1 .. n : typed[k] \in Reports
  BY <1>1, LenProperties, ElementOfSeq DEF KeyboardTypes
<1> HIDE DEF n
<1>3. Visible \subseteq 1 .. n
  BY <1>2 DEF Visible
<1>4. IsFiniteSet(Visible)
  <2>1. IsFiniteSet(1 .. n)
    BY <1>2, FS_Interval
  <2> QED BY <1>3, <2>1, FS_Subset
<1>5. held \in Reports
  BY <1>1 DEF KeyboardTypes
<1>6. \A k \in 1 .. n : typed[k].call \in Nat /\ typed[k].at \in Nat
  BY <1>2, ReportNumbers
<1>7. \A k \in 1 .. n : typed[k].key # None /\ typed[k].at >= 1 /\ Made(typed[k])
  BY <1>1, <1>2 DEF TypedOK, Made
<1>8. \A j, k \in 1 .. n : j < k => Earlier(typed[j], typed[k])
  BY <1>1, <1>2 DEF TypedOK
<1> QED BY <1>2, <1>3, <1>4, <1>5, <1>6, <1>7, <1>8 DEF n

(* More is typed: nothing the host has read.                               *)
LEMMA TextOnCall ==
  ASSUME KeyboardInv, TextInv, NEW s \in Strings, SendString(s)
  PROVE  TextInv'
<1> SUFFICES ASSUME lost = {}, resets = 0
             PROVE  /\ Len(text) = Cardinality(ReadSet')
                    /\ \A n \in DOMAIN text : \E k \in ReadSet' : text[n] = typed'[k] /\ Rank(k)' = n
  BY DEF TextInv, SendString, path, firmware
<1> DEFINE n == Len(typed)
           l == Len(s)
<1>1. /\ n \in Nat /\ l \in Nat /\ DOMAIN typed = 1 .. n /\ DOMAIN typed' = 1 .. n + l
      /\ \A i \in 1 .. n : typed'[i] = typed[i]
      /\ \A i \in 1 .. l : typed'[n + i] = Pressed(s)[i] /\ Pressed(s)[i].call = calls + 1
      /\ calls \in Nat
  BY CallAdds DEF KeyboardInv
<1>2. held' = held /\ held \in Reports /\ held.call \in Nat /\ held.call <= calls
  <2>1. held = Cleared \/ Made(held)
    BY DEF KeyboardInv, NoneMissing
  <2>2. held \in Reports /\ held.call \in Nat
    BY ReportNumbers DEF KeyboardInv, KeyboardTypes
  <2>3. Made(held) => held.call <= calls
    BY <2>2, CallMakes DEF KeyboardInv
  <2> QED BY <1>1, <2>1, <2>2, <2>3 DEF SendString, Cleared, Report
<1> HIDE DEF n, l
<1>3. \A i \in 1 .. n : i \in 1 .. n + l /\ (i > 1 => i - 1 \in 1 .. n)
  BY <1>1
<1>4. \A i \in 1 .. n : Repeats(i)' <=> Repeats(i)
  BY <1>1, <1>3 DEF Repeats
<1>5. \A i \in 1 .. n : i \in Visible' <=> i \in Visible
  BY <1>1, <1>3, <1>4 DEF Visible
<1>6. Visible \subseteq 1 .. n /\ Visible' \subseteq 1 .. n + l
  BY <1>1 DEF Visible
<1>7. ASSUME NEW v \in 1 .. n + l, v \notin 1 .. n PROVE Earlier(held, typed'[v])
  <2> DEFINE i == v - n
  <2>1. i \in 1 .. l /\ v = n + i
    BY <1>1, <1>7
  <2> HIDE DEF i
  <2>2. typed'[v].call = calls + 1
    BY <1>1, <2>1
  <2> QED BY <1>1, <1>2, <2>2 DEF Earlier
<1>8. ReadSet' = ReadSet
  BY <1>1, <1>2, <1>5, <1>6, <1>7 DEF ReadSet, Earlier
<1>9. \A k \in 1 .. n : Rank(k)' = Rank(k)
  <2> TAKE k \in 1 .. n
  <2>1. {v \in Visible' : v <= k} = {v \in Visible : v <= k}
    <3>1. \A v \in 1 .. n + l : v <= k => v \in 1 .. n
      BY <1>1
    <3>2. \A v : v \in Visible' /\ v <= k <=> v \in Visible /\ v <= k
      BY <1>3, <1>5, <1>6, <3>1
    <3> QED BY <3>2
  <2> QED BY <2>1 DEF Rank
<1>10. ReadSet \subseteq 1 .. n
  BY <1>6 DEF ReadSet
<1> QED BY <1>1, <1>8, <1>9, <1>10 DEF TextInv

(* Which report precedes the one that is read.                             *)
LEMMA ReadBefore ==
  ASSUME KeyboardInv, lost = {}, resets = 0, NEW h \in Reports, bank = <<h>>
  PROVE  /\ Earlier(held, h)
         /\ \A q \in Reports : Made(q) /\ Earlier(held, q) => q = h \/ Earlier(h, q)
<1>1. Coming(h) /\ Complete(held)
  BY DEF Coming, KeyboardInv, NoneMissing
<1>2. Earlier(held, h)
  BY <1>1 DEF KeyboardInv, NoneMissing
<1>3. ASSUME NEW q \in Reports, Made(q), Earlier(held, q) PROVE q = h \/ Earlier(h, q)
  <2>1. Coming(q)
    BY <1>1, <1>3 DEF Complete
  <2>2. \A r : bank = <<r>> => r = h
    OBVIOUS
  <2> QED BY <2>1, <2>2 DEF Coming, KeyboardInv, ComingInOrder
<1> QED BY <1>2, <1>3

(* A character read is a repetition just if the key was already down.      *)
LEMMA RepeatsShown ==
  ASSUME KeyboardInv, lost = {}, resets = 0, NEW h \in Reports, bank = <<h>>,
         NEW k \in 1 .. Len(typed), h = typed[k]
  PROVE  Repeats(k) <=> held.key = h.key
<1> DEFINE n == Len(typed)
<1>1. /\ n \in Nat /\ DOMAIN typed = 1 .. n /\ held \in Reports
      /\ \A i \in 1 .. n : /\ typed[i] \in Reports /\ typed[i].call \in Nat /\ typed[i].at \in Nat
                           /\ typed[i].at >= 1 /\ typed[i].key # None /\ Made(typed[i])
      /\ \A i, j \in 1 .. n : i < j => Earlier(typed[i], typed[j])
  BY TypedNumbers
<1>2. /\ held.call \in Nat /\ held.at \in Nat /\ Earlier(held, h)
      /\ \A q \in Reports : Made(q) /\ Earlier(held, q) => q = h \/ Earlier(h, q)
      /\ h.call \in Nat /\ h.at \in Nat /\ h.at >= 1 /\ h.key # None
  BY <1>1, ReadBefore, ReportNumbers
<1> HIDE DEF n
<1>3. CASE h.at > 1
  <2>1. PICK j \in DOMAIN typed : j = k - 1 /\ typed[j].call = typed[k].call /\ typed[j].at = typed[k].at - 1
    BY <1>1, <1>3 DEF KeyboardInv, TypedOK, n
  <2>2. j \in 1 .. n /\ k > 1 /\ k - 1 = j
    BY <1>1, <2>1 DEF n
  <2> DEFINE q == typed[j]
  <2>3. q \in Reports /\ Made(q) /\ q.call = h.call /\ q.at = h.at - 1
    BY <1>1, <2>1, <2>2
  <2> HIDE DEF q
  <2>4. ~Earlier(held, q)
    <3>1. Earlier(q, h)
      BY <1>2, <2>3 DEF Earlier
    <3> QED BY <1>2, <2>3, <3>1, EarlierOrder
  <2>5. held.call = q.call /\ held.at = q.at
    BY <1>2, <2>3, <2>4 DEF Earlier
  <2>6. held = q
    <3>1. CASE held = Cleared
      <4>1. held.call = 0
        BY <3>1 DEF Cleared, Report
      <4>2. h.call \in 1 .. calls
        BY <1>1, <3>1 DEF KeyboardInv, TypedOK, n
      <4> QED BY <2>3, <2>5, <4>1, <4>2
    <3>2. CASE \E i \in DOMAIN typed : typed[i] = held
      <4>1. PICK i \in 1 .. n : typed[i] = held
        BY <1>1, <3>2
      <4>2. i < j \/ j < i \/ i = j
        BY <1>1, <2>2
      <4>3. Earlier(typed[i], typed[j]) \/ Earlier(typed[j], typed[i]) \/ i = j
        BY <1>1, <2>2, <4>2
      <4> QED BY <1>2, <2>3, <2>5, <4>1, <4>3 DEF Earlier, q
    <3>3. CASE Releases(held)
      <4>1. \A i \in DOMAIN typed : typed[i].call = held.call => typed[i].at < held.at
        BY <3>3 DEF Releases
      <4>2. q.at < held.at
        BY <1>1, <2>2, <2>5, <4>1 DEF q
      <4> QED BY <1>2, <2>3, <2>5, <4>2
    <3> QED BY <3>1, <3>2, <3>3 DEF KeyboardInv, NoneMissing, Made
  <2> QED BY <2>1, <2>2, <2>6 DEF Repeats, q
<1>4. CASE h.at = 1
  <2>1. ~Repeats(k)
    <3> SUFFICES ASSUME k > 1, typed[k - 1].call = typed[k].call PROVE FALSE
      BY DEF Repeats
    <3>1. k - 1 \in 1 .. n /\ k - 1 < k /\ k \in 1 .. n
      BY <1>1 DEF n
    <3>2. Earlier(typed[k - 1], typed[k]) /\ typed[k - 1].at >= 1 /\ typed[k - 1].at \in Nat
      BY <1>1, <3>1
    <3> QED BY <1>1, <1>2, <1>4, <3>1, <3>2 DEF Earlier
  <2>2. held.key = None
    <3>1. CASE held = Cleared
      BY <3>1 DEF Cleared, Report
    <3>2. CASE Releases(held)
      BY <3>2 DEF Releases
    <3>3. CASE \E i \in DOMAIN typed : typed[i] = held
      <4>1. PICK i \in 1 .. n : typed[i] = held
        BY <1>1, <3>3
      <4>2. held.at >= 1 /\ held.call \in 1 .. calls /\ held.call < h.call
        <5>1. held.at >= 1 /\ held.call \in 1 .. calls
          BY <1>1, <4>1 DEF KeyboardInv, TypedOK
        <5> QED BY <1>2, <1>4, <5>1 DEF Earlier
      <4>3. PICK r \in Reports : r.call = held.call /\ Releases(r)
        BY <4>2 DEF KeyboardInv, TypedOK
      <4>4. Earlier(held, r)
        BY <1>1, <4>1, <4>3 DEF Releases, Earlier
      <4>5. Earlier(r, h)
        BY <4>2, <4>3 DEF Earlier
      <4>6. Made(r)
        BY <4>3 DEF Made
      <4> QED BY <1>2, <4>4, <4>5, <4>6, EarlierOrder
    <3> QED BY <3>1, <3>2, <3>3 DEF KeyboardInv, NoneMissing, Made
  <2> QED BY <1>2, <2>1, <2>2
<1> QED BY <1>2, <1>3, <1>4

(* The host reads one report more.                                         *)
LEMMA TextOnRead ==
  ASSUME KeyboardInv, TextInv, HostReadsReport
  PROVE  TextInv'
<1> SUFFICES ASSUME lost = {}, resets = 0
             PROVE  /\ Len(text') = Cardinality(ReadSet')
                    /\ \A i \in DOMAIN text' : \E k \in ReadSet' : text'[i] = typed[k] /\ Rank(k) = i
  <2>1. UNCHANGED <<lost, resets, typed>>
    BY DEF HostReadsReport, HostReads
  <2>2. \A k : Rank(k)' = Rank(k)
    BY <2>1 DEF Rank, Visible, Repeats
  <2> QED BY <2>1, <2>2 DEF TextInv
<1> DEFINE n == Len(typed)
<1>1. /\ n \in Nat /\ DOMAIN typed = 1 .. n /\ held \in Reports
      /\ Visible \subseteq 1 .. n /\ IsFiniteSet(Visible)
      /\ \A i \in 1 .. n : /\ typed[i] \in Reports /\ typed[i].call \in Nat /\ typed[i].at \in Nat
                           /\ typed[i].at >= 1 /\ typed[i].key # None /\ Made(typed[i])
      /\ \A i, j \in 1 .. n : i < j => Earlier(typed[i], typed[j])
  BY TypedNumbers
<1>2. PICK h \in Reports : bank = <<h>>
  BY DEF HostReadsReport, HostReads, KeyboardInv, KeyboardTypes, PathTypes, AtMostOne
<1>3. /\ held' = h /\ typed' = typed
      /\ text' = IF h.key \notin {None, held.key} THEN Append(text, h) ELSE text
  BY <1>2 DEF HostReadsReport, HostReads
<1>4. /\ Earlier(held, h) /\ Made(h)
      /\ \A q \in Reports : Made(q) /\ Earlier(held, q) => q = h \/ Earlier(h, q)
  BY <1>2, ReadBefore DEF KeyboardInv, NoneMissing, Coming
<1>5. text \in Seq(Reports)
  BY DEF KeyboardInv, KeyboardTypes
<1>6. /\ Len(text) = Cardinality(ReadSet)
      /\ \A i \in DOMAIN text : \E k \in ReadSet : text[i] = typed[k] /\ Rank(k) = i
  BY DEF TextInv
<1> HIDE DEF n
<1>7. Visible' = Visible
  BY <1>3 DEF Visible, Repeats
<1>8. ReadSet' = {v \in Visible : v \in ReadSet \/ typed[v] = h}
  <2>1. ReadSet' = {v \in Visible : ~Earlier(h, typed[v])}
    BY <1>3, <1>7 DEF ReadSet, Earlier
  <2>2. ASSUME NEW v \in Visible PROVE ~Earlier(h, typed[v]) <=> ~Earlier(held, typed[v]) \/ typed[v] = h
    <3>1. typed[v] \in Reports /\ Made(typed[v])
      BY <1>1
    <3>2. PICK q \in Reports : q = typed[v] /\ Made(q)
      BY <3>1
    <3>3. ~Earlier(h, q) <=> ~Earlier(held, q) \/ q = h
      <4>1. Earlier(h, q) => Earlier(held, q) /\ q # h
        BY <1>1, <1>4, EarlierOrder
      <4> QED BY <1>4, <3>2, <4>1
    <3> QED BY <3>2, <3>3
  <2> QED BY <2>1, <2>2 DEF ReadSet
<1>9. CASE text' = text /\ ReadSet' = ReadSet
  BY <1>6, <1>9
<1>10. CASE Releases(h)
  <2>1. h.key = None
    BY <1>10 DEF Releases
  <2>2. ReadSet' = ReadSet
    BY <1>1, <1>8, <2>1 DEF ReadSet
  <2> QED BY <1>3, <1>9, <2>1, <2>2
<1>11. ASSUME NEW k \in 1 .. n, typed[k] = h
       PROVE  /\ Len(text') = Cardinality(ReadSet')
              /\ \A i \in DOMAIN text' : \E j \in ReadSet' : text'[i] = typed[j] /\ Rank(j) = i
  <2>1. Repeats(k) <=> held.key = h.key
    BY <1>2, <1>11, RepeatsShown DEF n
  <2>2. \A v \in 1 .. n : (v < k => Earlier(typed[v], h)) /\ (k < v => Earlier(h, typed[v]))
    BY <1>1, <1>11
  <2>3. \A v \in 1 .. n : typed[v] = h => v = k
    BY <1>1, <2>2, EarlierOrder
  <2>4. CASE Repeats(k)
    <3>1. k \notin Visible /\ text' = text
      BY <1>3, <2>1, <2>4 DEF Visible
    <3>2. ReadSet' = ReadSet
      BY <1>1, <1>8, <2>3, <3>1 DEF ReadSet
    <3> QED BY <1>9, <3>1, <3>2
  <2>5. CASE ~Repeats(k)
    <3>1. k \in Visible /\ text' = Append(text, h)
      BY <1>1, <1>3, <1>11, <2>1, <2>5 DEF Visible
    <3>2. ReadSet' = ReadSet \cup {k} /\ k \notin ReadSet
      BY <1>1, <1>4, <1>8, <1>11, <2>3, <3>1 DEF ReadSet
    <3>3. IsFiniteSet(ReadSet)
      BY <1>1, FS_Subset DEF ReadSet
    <3>4. Cardinality(ReadSet') = Len(text) + 1
      BY <1>6, <3>2, <3>3, FS_AddElement
    <3>5. {v \in Visible : v <= k} = ReadSet'
      <4>1. \A v \in Visible : v <= k <=> ~Earlier(h, typed[v])
        <5> TAKE v \in Visible
        <5>1. v \in 1 .. n /\ k \in 1 .. n /\ typed[v] \in Reports
          BY <1>1
        <5>2. CASE v < k
          <6>1. Earlier(typed[v], h)
            BY <2>2, <5>1, <5>2
          <6> QED BY <5>1, <5>2, <6>1, EarlierOrder
        <5>3. CASE v = k
          <6>1. typed[v] = h
            BY <1>11, <5>3
          <6> QED BY <1>1, <5>1, <5>3, <6>1, EarlierOrder
        <5>4. CASE k < v
          BY <1>1, <2>2, <5>1, <5>4
        <5> QED BY <1>1, <5>1, <5>2, <5>3, <5>4
      <4>2. ReadSet' = {v \in Visible : ~Earlier(h, typed[v])}
        BY <1>3, <1>7 DEF ReadSet, Earlier
      <4> QED BY <4>1, <4>2
    <3>6. Rank(k) = Len(text) + 1
      BY <3>4, <3>5 DEF Rank
    <3>7. /\ Len(text') = Len(text) + 1 /\ DOMAIN text' = 1 .. Len(text) + 1 /\ Len(text) \in Nat
          /\ DOMAIN text = 1 .. Len(text)
          /\ text'[Len(text) + 1] = h /\ \A i \in 1 .. Len(text) : text'[i] = text[i]
      BY <1>5, <3>1, Pushed, AppendProperties
    <3>8. ASSUME NEW i \in 1 .. Len(text) + 1
          PROVE  \E j \in ReadSet' : text'[i] = typed[j] /\ Rank(j) = i
      <4>1. CASE i = Len(text) + 1
        BY <1>11, <3>2, <3>6, <3>7, <4>1
      <4>2. CASE i # Len(text) + 1
        <5>1. i \in 1 .. Len(text)
          BY <3>7, <4>2
        <5> QED BY <1>6, <3>2, <3>7, <5>1
      <4> QED BY <4>1, <4>2
    <3> QED BY <3>4, <3>7, <3>8
  <2> QED BY <2>4, <2>5
<1> QED BY <1>1, <1>4, <1>10, <1>11 DEF Made

LEMMA TextUnchanged ==
  ASSUME TextInv, UNCHANGED <<typed, held, text, resets>>, lost \subseteq lost'
  PROVE  TextInv'
<1>1. Visible' = Visible
  BY DEF Visible, Repeats
<1>2. ReadSet' = ReadSet /\ \A k : Rank(k)' = Rank(k)
  BY <1>1 DEF ReadSet, Rank, Earlier
<1>3. lost' = {} => lost = {}
  OBVIOUS
<1> QED BY <1>2, <1>3 DEF TextInv

LEMMA TextKept ==
  ASSUME KeyboardInv, TextInv,
         KeyboardNext \/ ((PcReader \/ Firmware \/ HostConfigures \/ HostAsks) /\ UNCHANGED keyboard)
  PROVE  TextInv'
<1>1. CASE \E s \in Strings : SendString(s)
  BY <1>1, TextOnCall
<1>2. CASE HostReadsReport
  BY <1>2, TextOnRead
<1>3. CASE HostForgetsKeyboard
  <2>1. resets' # 0
    BY <1>3, PathBounds DEF HostForgetsKeyboard, HostResets, KeyboardInv, KeyboardTypes, PathTypes
  <2> QED BY <2>1 DEF TextInv
<1>4. CASE \/ SendReport \/ KeyboardRequested
           \/ (PcReader \/ Firmware \/ HostConfigures \/ HostAsks) /\ UNCHANGED keyboard
  <2>1. UNCHANGED <<typed, held, text, resets>> /\ lost \subseteq lost'
    <3>1. CASE SendReport \/ KeyboardRequested
      BY <3>1 DEF SendReport, KeyboardRequested, Requested, WriteOutgoingData, firmware
    <3>2. CASE PcReader /\ UNCHANGED keyboard
      <4>1. UNCHANGED <<firmware, resets>>
        <5>1. queue \in Seq(Messages(Reports, 1))
          BY DEF KeyboardInv, KeyboardTypes, PathTypes
        <5> QED BY <3>2, <5>1, ReaderSteps
      <4> QED BY <3>2, <4>1 DEF firmware, keyboard
    <3>3. CASE Firmware /\ UNCHANGED keyboard
      <4>1. resets' = resets /\ lost \subseteq lost'
        <5>1. CASE TakeReply \/ RefuseData \/ TakeData \/ DecideControl \/ ForwardOut
          BY <5>1 DEF TakeReply, RefuseData, TakeData, DecideControl, ForwardOut
        <5>2. CASE WriteBank
          BY <5>2 DEF WriteBank
        <5> QED BY <3>3, <5>1, <5>2 DEF Firmware
      <4> QED BY <3>3, <4>1 DEF keyboard
    <3>4. CASE (HostConfigures \/ HostAsks) /\ UNCHANGED keyboard
      BY <3>4 DEF HostConfigures, HostAsks, Ask, keyboard
    <3> QED BY <1>4, <3>1, <3>2, <3>3, <3>4
  <2> QED BY <2>1, TextUnchanged
<1> QED BY <1>1, <1>2, <1>3, <1>4 DEF KeyboardNext, KeyboardSteps

TextSafe == KeyboardSafe /\ (device = "keyboard" => TextInv)

(* If no report was lost and no reset came between, what the host has seen *)
(* is the beginning of what the application typed, without the repetitions *)
(* and, once nothing is under way, all of it.                              *)
THEOREM TextArrives == Spec => []TextAsTyped
<1>1. Init => TextSafe
  <2> SUFFICES ASSUME Init PROVE TextSafe
    OBVIOUS
  <2>1. KeyboardSafe
    BY KeyboardInvInit DEF Init, KeyboardSafe, Unused, KeyboardInit
  <2>2. typed = <<>> /\ text = <<>>
    BY DEF Init, KeyboardInit
  <2>3. ReadSet = {} /\ Len(text) = 0 /\ DOMAIN text = {}
    BY <2>2 DEF ReadSet, Visible
  <2>4. Cardinality(ReadSet) = 0
    BY <2>3, FS_EmptySet
  <2> QED BY <2>1, <2>3, <2>4 DEF TextSafe, TextInv
<1>2. TextSafe /\ [Next]_vars => TextSafe'
  <2> SUFFICES ASSUME TextSafe, [Next]_vars PROVE TextSafe'
    OBVIOUS
  <2>1. KeyboardSafe' /\ device' = device
    BY KeyboardSafeKept DEF TextSafe, Next, Keyboard, Storage, Either, vars
  <2>2. ASSUME device = "keyboard" PROVE TextInv'
    <3>1. KeyboardInv /\ TextInv
      BY <2>2 DEF TextSafe, KeyboardSafe
    <3>2. CASE UNCHANGED vars
      BY <3>1, <3>2, TextUnchanged DEF vars, path, firmware, keyboard
    <3>3. CASE Next
      <4>1. KeyboardNext \/ ((PcReader \/ Firmware \/ HostConfigures \/ HostAsks) /\ UNCHANGED keyboard)
        BY <2>2, <3>3 DEF Next, Keyboard, Storage, Either
      <4> QED BY <3>1, <4>1, TextKept
    <3> QED BY <3>2, <3>3
  <2> QED BY <2>1, <2>2 DEF TextSafe
<1>3. TextSafe => TextAsTyped
  <2> SUFFICES ASSUME TextSafe, lost = {}, resets = 0
               PROVE  /\ \A n \in DOMAIN text :
                           \E k \in Visible : text[n] = typed[k] /\ Cardinality({v \in Visible : v <= k}) = n
                      /\ KeysDrained => Len(text) = Cardinality(Visible)
    BY DEF TextAsTyped
  <2>1. CASE device = "keyboard"
    <3>1. KeyboardInv /\ TextInv
      BY <2>1 DEF TextSafe, KeyboardSafe
    <3>2. ASSUME KeysDrained PROVE ReadSet = Visible
      <4>1. \A r \in Reports : ~Coming(r)
        BY <3>2 DEF KeysDrained, Coming, InQueue, InKeys
      <4>2. Complete(held)
        BY <3>1 DEF KeyboardInv, NoneMissing
      <4>3. \A v \in Visible : typed[v] \in Reports /\ Made(typed[v])
        BY <3>1, TypedNumbers
      <4> QED BY <4>1, <4>2, <4>3 DEF ReadSet, Complete
    <3> QED BY <3>1, <3>2 DEF TextInv, ReadSet, Rank
  <2>2. CASE device # "keyboard"
    <3>1. typed = <<>> /\ text = <<>>
      BY <2>2 DEF TextSafe, KeyboardSafe, Unused
    <3>2. Visible = {} /\ Len(text) = 0 /\ DOMAIN text = {}
      BY <3>1 DEF Visible
    <3> QED BY <3>2, FS_EmptySet
  <2> QED BY <2>1, <2>2
<1> QED BY <1>1, <1>2, <1>3, PTL DEF Spec

-----------------------------------------------------------------------------
(* The disk's types.  What the host sends is a command or a packet of data *)
(* that is part of what it writes.                                         *)
LegalPackets == {p \in HostPackets : p.is = "data" => p.at < Packets}
Key(p) == IF p.is = "command" THEN 0 ELSE p.at + 1
SectorHalves == 2 * SectorPackets

StorageTypes ==
  /\ PathTypes(Pieces, LegalPackets, SectorPackets)
  /\ dataRemaining \in -1 .. Halves /\ position \in 0 .. Halves + 1
  /\ dataRemaining > 0 => position + dataRemaining = Halves
  /\ image \in [0 .. Halves -> Half]
  /\ command \in Commands /\ stage \in {"idle", "out", "in", "status", "error"}
  /\ tag \in 0 .. MaxCommands /\ sent \in 0 .. Packets /\ kept \in 0 .. MaxCommands
  /\ stage = "out" => sent < Packets /\ tag >= 1
  /\ got \in Seq(Half) /\ {wrong, taken, cut} \subseteq BOOLEAN
  /\ stage # "idle" => open

LEMMA Sizes ==
  /\ SectorPackets \in Nat /\ SectorPackets >= 1 /\ Sectors \in Nat /\ Sectors >= 1 /\ MaxCommands \in Nat
  /\ Packets \in Nat /\ Packets >= 1 /\ Halves \in Nat /\ Halves = 2 * Packets
  /\ SectorHalves \in Nat /\ SectorHalves >= 2 /\ Sectors * SectorHalves = Halves
<1>1. /\ SectorPackets \in Nat /\ SectorPackets >= 1 /\ Sectors \in Nat /\ Sectors >= 1 /\ MaxCommands \in Nat
  BY StorageAssumption
<1>2. \A a, b \in Nat : a >= 1 /\ b >= 1 => a * b \in Nat /\ a * b >= 1 /\ a * (2 * b) = 2 * (a * b)
  OBVIOUS
<1>3. Packets \in Nat /\ Packets >= 1 /\ Sectors * SectorHalves = 2 * Packets
  BY <1>1, <1>2 DEF Packets, SectorHalves
<1> QED BY <1>1, <1>3 DEF Halves, SectorHalves

(* Where a sector's data lies. *)
LEMMA SectorPlace ==
  ASSUME NEW s \in 1 .. Sectors
  PROVE  /\ SectorHalves * (s - 1) \in Nat /\ SectorHalves * (s - 1) + SectorHalves <= Halves
         /\ \A t \in 1 .. Sectors : s < t =>
              SectorHalves * (s - 1) + SectorHalves <= SectorHalves * (t - 1)
<1>1. \A c, a, b \in Nat : a <= b => c * a \in Nat /\ c * b \in Nat /\ c * a <= c * b
  <2> SUFFICES ASSUME NEW c \in Nat, NEW a \in Nat, NEW b \in Nat, a <= b
               PROVE  c * a \in Nat /\ c * b \in Nat /\ c * a <= c * b
    OBVIOUS
  <2>1. b - a \in Nat /\ c * b = c * a + c * (b - a)
    OBVIOUS
  <2>2. c * (b - a) \in Nat /\ c * a \in Nat
    BY <2>1
  <2> QED BY <2>1, <2>2
<1>2. \A c, a \in Nat : a >= 1 => c * (a - 1) + c = c * a
  OBVIOUS
<1>3. \A c, a \in Nat : c * a = a * c
  OBVIOUS
<1>4. s \in Nat /\ s >= 1 /\ s - 1 \in Nat /\ s <= Sectors /\ Sectors \in Nat /\ SectorHalves \in Nat
  BY Sizes
<1>5. SectorHalves * (s - 1) + SectorHalves = SectorHalves * s /\ SectorHalves * (s - 1) \in Nat
  BY <1>1, <1>2, <1>4
<1>6. SectorHalves * s <= SectorHalves * Sectors /\ SectorHalves * Sectors = Halves
  BY <1>1, <1>3, <1>4, Sizes
<1>7. ASSUME NEW t \in 1 .. Sectors, s < t PROVE SectorHalves * s <= SectorHalves * (t - 1)
  <2>1. t - 1 \in Nat /\ s <= t - 1
    BY <1>4, <1>7
  <2> QED BY <1>1, <1>4, <2>1
<1> QED BY <1>5, <1>6, <1>7

LEMMA HalfOf ==
  ASSUME NEW n \in 0 .. MaxCommands, NEW a \in 0 .. Halves
  PROVE  [of |-> n, at |-> a] \in Half
BY DEF Half

LEMMA PacketFields ==
  ASSUME NEW p \in LegalPackets
  PROVE  /\ p.is \in {"command", "data"} /\ p.op \in Commands
         /\ p.of \in 0 .. MaxCommands /\ p.of \in Nat /\ p.at \in Nat /\ Key(p) \in Nat
         /\ p.is = "data" => p.at < Packets /\ Key(p) = p.at + 1
         /\ p.is = "command" => Key(p) = 0
         /\ p \in HostPackets
BY Sizes DEF LegalPackets, HostPackets, Key

(* What the disk stores, and what it answers. *)
LEMMA StoredTypes ==
  ASSUME StorageTypes, NEW p \in LegalPackets, dataRemaining > 0
  PROVE  Stored(p) \in [0 .. Halves -> Half] /\ Length(p) \in {1, 2}
<1>1. position \in Nat /\ Halves \in Nat /\ Halves = 2 * Packets /\ image \in [0 .. Halves -> Half]
  BY Sizes DEF StorageTypes
<1>2. Length(p) \in {1, 2} /\ (p.is = "data" <=> Length(p) = 2)
  BY PacketFields DEF Length
<1>3. ASSUME NEW k \in 0 .. Halves, k \in position .. position + Length(p) - 1
      PROVE  (IF p.is = "data" THEN 2 * p.at + k - position ELSE Halves) \in 0 .. Halves
  BY <1>1, <1>2, <1>3, PacketFields, Sizes
<1>4. \A k \in 0 .. Halves : Stored(p)[k] \in Half
  BY <1>1, <1>3, HalfOf, PacketFields DEF Stored
<1> QED BY <1>2, <1>4 DEF Stored

Bank(s, k) == SectorHalves * (s - 1) + 2 * (k - 1)

LEMMA SectorTypes ==
  ASSUME StorageTypes, NEW s \in 1 .. Sectors
  PROVE  /\ Sector(s) \in Messages(Pieces, SectorPackets) /\ Len(Sector(s)) = SectorPackets
         /\ \A k \in 1 .. SectorPackets :
              /\ Bank(s, k) \in Nat /\ Bank(s, k) + 1 \in 0 .. Halves - 1
              /\ Bank(s, k) \in 0 .. Halves - 1
              /\ Sector(s)[k] = Piece("data", 0, <<image[Bank(s, k)], image[Bank(s, k) + 1]>>)
<1>1. /\ SectorHalves * (s - 1) \in Nat /\ SectorHalves * (s - 1) + SectorHalves <= Halves
      /\ Halves \in Nat /\ SectorPackets \in Nat /\ SectorHalves = 2 * SectorPackets
  BY SectorPlace, Sizes DEF SectorHalves
<1>2. ASSUME NEW k \in 1 .. SectorPackets
      PROVE  /\ Bank(s, k) \in Nat /\ Bank(s, k) + 1 \in 0 .. Halves - 1
             /\ Bank(s, k) \in 0 .. Halves - 1
             /\ 2 * (SectorPackets * (s - 1) + k - 1) = Bank(s, k)
  <2> DEFINE b == SectorHalves * (s - 1)
             a == SectorPackets * (s - 1)
  <2>1. s - 1 \in Nat /\ \A c, d \in Nat : c * d \in Nat /\ (2 * c) * d = 2 * (c * d)
    OBVIOUS
  <2>2. a \in Nat /\ b = 2 * a
    BY <1>1, <2>1
  <2>3. b \in Nat /\ b + SectorHalves <= Halves /\ Bank(s, k) = b + 2 * (k - 1)
    BY <1>1 DEF Bank
  <2> HIDE DEF a, b
  <2>4. Bank(s, k) \in Nat /\ Bank(s, k) + 1 <= Halves - 1
    BY <1>1, <2>3
  <2>5. 2 * (a + k - 1) = Bank(s, k)
    BY <1>1, <2>2, <2>3
  <2> QED BY <1>1, <2>4, <2>5 DEF a
<1> DEFINE P(k) == Piece("data", 0, <<image[Bank(s, k)], image[Bank(s, k) + 1]>>)
<1>3. Sector(s) = [k \in 1 .. SectorPackets |-> P(k)]
  BY <1>2, Zenon DEF Sector
<1>4. \A k \in 1 .. SectorPackets : P(k) \in Pieces
  <2> TAKE k \in 1 .. SectorPackets
  <2>1. image[Bank(s, k)] \in Half /\ image[Bank(s, k) + 1] \in Half
    <3>1. Bank(s, k) \in 0 .. Halves /\ Bank(s, k) + 1 \in 0 .. Halves
      BY <1>1, <1>2
    <3> QED BY <3>1 DEF StorageTypes
  <2>2. <<image[Bank(s, k)], image[Bank(s, k) + 1]>> \in Seq(Half) /\ 0 \in 0 .. MaxCommands
    BY <2>1, Sizes
  <2> QED BY <2>2 DEF Piece, Pieces
<1> HIDE DEF P
<1>5. Sector(s) \in Seq(Pieces) /\ Len(Sector(s)) = SectorPackets
  BY <1>1, <1>3, <1>4
<1>6. \A k \in 1 .. SectorPackets : Sector(s)[k] = P(k)
  BY <1>3
<1> QED BY <1>2, <1>5, <1>6 DEF Messages, P

LEMMA ResponseTypes ==
  ASSUME StorageTypes, NEW p \in LegalPackets, NEW c \in Commands
  PROVE  /\ Response(p, c) \in Seq(Messages(Pieces, SectorPackets))
         /\ DOMAIN Response(p, c) = 1 .. Len(Response(p, c))
         /\ c = "read" => /\ Len(Response(p, c)) = Sectors + 1
                          /\ Response(p, c)[Sectors + 1] = Csw(p)
                          /\ \A s \in 1 .. Sectors : Response(p, c)[s] = Sector(s)
         /\ c # "read" => \A i \in DOMAIN Response(p, c) : Response(p, c)[i] \in {Answer, Csw(p)}
         /\ c # "read" => \A i, j \in DOMAIN Response(p, c) : i < j => Response(p, c)[i] = Answer
         /\ Csw(p) = <<Csw(p)[1]>> /\ Csw(p)[1].is = "csw" /\ Csw(p)[1].halves = <<>>
         /\ p.is = "command" => Csw(p)[1].of = p.of
         /\ Answer = <<Answer[1]>> /\ Answer[1].is = "data"
<1> DEFINE M == Messages(Pieces, SectorPackets)
<1>1. <<>> \in Seq(Half) /\ 0 \in 0 .. MaxCommands /\ \A x \in Pieces : <<x>> \in M
  <2>1. \A x \in Pieces : <<x>> \in Seq(Pieces) /\ Len(<<x>>) = 1
    OBVIOUS
  <2> QED BY <2>1, EmptySeq, Sizes DEF Messages
<1>2. /\ Csw(p) \in M /\ Csw(p) = <<Csw(p)[1]>> /\ Csw(p)[1].is = "csw" /\ Csw(p)[1].halves = <<>>
      /\ p.is = "command" => Csw(p)[1].of = p.of
  <2> DEFINE t == IF p.is = "command" THEN p.of ELSE 0
             x == [is |-> "csw", of |-> t, halves |-> <<>>]
  <2>1. Csw(p) = <<x>>
    BY DEF Csw, Piece
  <2>2. t \in 0 .. MaxCommands
    BY <1>1, PacketFields
  <2> HIDE DEF t
  <2>3. x \in Pieces
    BY <1>1, <2>2 DEF Pieces
  <2> QED BY <1>1, <2>1, <2>3 DEF t
<1>3. Answer \in M /\ Answer = <<Answer[1]>> /\ Answer[1].is = "data"
  <2>1. Answer = <<Piece("data", 0, <<>>)>>
    BY DEF Answer
  <2>2. Piece("data", 0, <<>>) \in Pieces /\ Piece("data", 0, <<>>).is = "data"
    BY <1>1 DEF Pieces, Piece
  <2> QED BY <1>1, <2>1, <2>2
<1> HIDE DEF M
<1>4. CASE c = "read"
  <2> DEFINE d == [s \in 1 .. Sectors |-> Sector(s)]
  <2>1. d \in [1 .. Sectors -> M] /\ Sectors \in Nat
    BY SectorTypes, Sizes DEF M
  <2>2. d \in Seq(M) /\ Len(d) = Sectors
    BY <2>1
  <2>3. \A s \in 1 .. Sectors : d[s] = Sector(s)
    OBVIOUS
  <2>4. Response(p, c) = Append(d, Csw(p))
    BY <1>4 DEF Response
  <2> HIDE DEF d
  <2>5. /\ Response(p, c) \in Seq(M) /\ Len(Response(p, c)) = Sectors + 1
        /\ Response(p, c)[Sectors + 1] = Csw(p)
        /\ \A s \in 1 .. Sectors : Response(p, c)[s] = Sector(s)
    BY <1>2, <2>2, <2>3, <2>4, AppendProperties
  <2>6. DOMAIN Response(p, c) = 1 .. Len(Response(p, c))
    BY <2>5, LenProperties
  <2> QED BY <1>2, <1>3, <1>4, <2>5, <2>6 DEF M
<1>5. CASE c = "inquiry"
  <2>1. Response(p, c) = <<Answer, Csw(p)>>
    BY <1>5 DEF Response
  <2>2. <<Answer, Csw(p)>> \in Seq(M) /\ Len(<<Answer, Csw(p)>>) = 2
    BY <1>2, <1>3
  <2>3. /\ DOMAIN Response(p, c) = 1 .. 2
        /\ Response(p, c)[1] = Answer /\ Response(p, c)[2] = Csw(p)
    BY <2>1
  <2>4. \A i \in 1 .. 2 : i = 1 \/ i = 2
    OBVIOUS
  <2>5. \A i, j \in 1 .. 2 : i < j => i = 1
    OBVIOUS
  <2>6. /\ \A i \in DOMAIN Response(p, c) : Response(p, c)[i] \in {Answer, Csw(p)}
        /\ \A i, j \in DOMAIN Response(p, c) : i < j => Response(p, c)[i] = Answer
    BY <2>3, <2>4, <2>5
  <2> QED BY <1>2, <1>3, <1>5, <2>1, <2>2, <2>3, <2>6 DEF M
<1>6. CASE c = "unknown"
  <2>1. Response(p, c) = <<>> /\ <<>> \in Seq(M) /\ Len(<<>>) = 0
    BY <1>6, EmptySeq DEF Response
  <2>2. DOMAIN Response(p, c) = {} /\ 1 .. 0 = {}
    BY <2>1
  <2> QED BY <1>2, <1>3, <1>6, <2>1, <2>2 DEF M
<1>7. CASE c \notin {"read", "inquiry", "unknown"}
  <2>1. Response(p, c) = <<Csw(p)>> /\ <<Csw(p)>> \in Seq(M) /\ Len(<<Csw(p)>>) = 1
    BY <1>2, <1>7 DEF Response
  <2>2. DOMAIN Response(p, c) = 1 .. 1 /\ Response(p, c)[1] = Csw(p)
    BY <2>1
  <2>3. \A i \in 1 .. 1 : i = 1
    OBVIOUS
  <2>4. /\ \A i \in DOMAIN Response(p, c) : Response(p, c)[i] \in {Answer, Csw(p)}
        /\ \A i, j \in DOMAIN Response(p, c) : i < j => Response(p, c)[i] = Answer
    BY <2>2, <2>3
  <2> QED BY <1>2, <1>3, <1>7, <2>1, <2>2, <2>4 DEF M
<1> QED BY <1>4, <1>5, <1>6, <1>7

LEMMA StorageInitTypes == StorageInit => StorageTypes
<1> SUFFICES ASSUME StorageInit PROVE StorageTypes
  OBVIOUS
<1>1. PathTypes(Pieces, LegalPackets, SectorPackets)
  BY PathInitTypes, Sizes DEF StorageInit
<1>2. image \in [0 .. Halves -> Half]
  <2>1. 0 \in 0 .. MaxCommands
    BY Sizes
  <2> QED BY <2>1, HalfOf DEF StorageInit
<1>3. got \in Seq(Half)
  BY EmptySeq DEF StorageInit
<1>4. /\ dataRemaining \in -1 .. Halves /\ position \in 0 .. Halves + 1 /\ ~(dataRemaining > 0)
      /\ tag \in 0 .. MaxCommands /\ sent \in 0 .. Packets /\ kept \in 0 .. MaxCommands
  BY Sizes DEF StorageInit
<1>5. /\ command \in Commands /\ stage = "idle" /\ {wrong, taken, cut} \subseteq BOOLEAN
  BY DEF StorageInit, Commands
<1> QED BY <1>1, <1>2, <1>3, <1>4, <1>5 DEF StorageTypes

LEMMA StorageStepTypes == StorageTypes /\ StorageNext => StorageTypes'
<1> SUFFICES ASSUME StorageTypes, StorageNext PROVE StorageTypes'
  OBVIOUS
<1>0. PathTypes(Pieces, LegalPackets, SectorPackets) /\ Halves \in Nat /\ Halves = 2 * Packets /\ Packets \in Nat /\ Packets >= 1
      /\ SectorPackets \in Nat /\ dataRemaining \in Int /\ position \in Nat /\ sent \in Nat /\ tag \in Nat /\ MaxCommands \in Nat
  BY Sizes DEF StorageTypes
<1>1. CASE StoreData
  <2>1. Receives("I") /\ toPC # <<>> /\ dataRemaining > 0
    BY <1>1 DEF StoreData, Receives
  <2>2. PICK p \in LegalPackets : p = Head(toPC).data
    BY <1>0, <2>1, PacketHead DEF Receives
  <2>3. toPC' \in Seq(FromFirmware(LegalPackets))
    BY <1>0, <2>1, PacketHead DEF Receives
  <2>4. PathTypes(Pieces, LegalPackets, SectorPackets)'
    BY <1>0, <1>1, <2>3 DEF StoreData, PathTypes, firmware
  <2>5. /\ image' = Stored(p) /\ position' = position + Length(p)
        /\ dataRemaining' = dataRemaining - Length(p) /\ UNCHANGED <<transport, open>>
        /\ taken' \in BOOLEAN
    BY <1>1, <2>2 DEF StoreData, firmware
  <2>6. Stored(p) \in [0 .. Halves -> Half] /\ Length(p) \in {1, 2}
    BY <2>1, StoredTypes
  <2>7. /\ dataRemaining' \in -1 .. Halves /\ position' \in 0 .. Halves + 1
        /\ dataRemaining' > 0 => position' + dataRemaining' = Halves
    <3>1. /\ dataRemaining <= Halves /\ position <= Halves + 1 /\ position + dataRemaining = Halves
      BY <2>1 DEF StorageTypes
    <3>2. CASE Length(p) = 1
      <4>1. position' = position + 1 /\ dataRemaining' = dataRemaining - 1
        BY <2>5, <3>2
      <4> QED BY <1>0, <2>1, <3>1, <4>1
    <3>3. CASE Length(p) = 2
      <4>1. position' = position + 2 /\ dataRemaining' = dataRemaining - 2
        BY <2>5, <3>3
      <4> QED BY <1>0, <2>1, <3>1, <4>1
    <3> QED BY <2>6, <3>2, <3>3
  <2> QED BY <2>4, <2>5, <2>6, <2>7 DEF StorageTypes, transport
<1>2. CASE RunCommand
  <2>1. Receives("I") /\ toPC # <<>> /\ dataRemaining <= 0
    BY <1>2 DEF RunCommand, Receives
  <2>2. PICK p \in LegalPackets : p = Head(toPC).data
    BY <1>0, <2>1, PacketHead DEF Receives
  <2>3. toPC' \in Seq(FromFirmware(LegalPackets))
    BY <1>0, <2>1, PacketHead DEF Receives
  <2>4. PICK c \in Commands :
          /\ WriteOutgoingData(Response(p, c))
          /\ dataRemaining' = IF c = "write" THEN Due ELSE dataRemaining
          /\ position' = CASE c = "write" -> 0 [] c = "read" -> Halves [] OTHER -> position
    <3>1. p.op \in Commands
      BY PacketFields
    <3> QED BY <1>2, <2>2, <3>1 DEF RunCommand
  <2>5. Response(p, c) \in Seq(Messages(Pieces, SectorPackets)) /\ replying' = replying
    BY <1>2, ResponseTypes DEF RunCommand
  <2>6. PathTypes(Pieces, LegalPackets, SectorPackets)'
    BY <1>0, <2>3, <2>4, <2>5, WrittenTypes
  <2>7. /\ dataRemaining' \in -1 .. Halves /\ position' \in 0 .. Halves + 1
        /\ dataRemaining' > 0 => position' + dataRemaining' = Halves
    <3>1. CASE c = "write"
      BY <1>0, <2>4, <3>1 DEF Due
    <3>2. CASE c = "read"
      BY <1>0, <2>1, <2>4, <3>2 DEF StorageTypes
    <3>3. CASE c \notin {"read", "write"}
      BY <1>0, <2>1, <2>4, <3>3 DEF StorageTypes
    <3> QED BY <3>1, <3>2, <3>3
  <2>8. UNCHANGED <<image, transport, open>> /\ taken' \in BOOLEAN
    BY <1>2, <2>4 DEF RunCommand, WriteOutgoingData, firmware
  <2> QED BY <2>6, <2>7, <2>8 DEF StorageTypes, transport
<1>3. CASE StorageRequested
  <2>1. PathTypes(Pieces, LegalPackets, SectorPackets)' /\ open' = open
    BY <1>0, <1>3, RequestedTypes DEF StorageRequested, Requested, firmware
  <2> QED BY <1>3, <2>1 DEF StorageRequested, StorageTypes, storage, disk, transport
<1>4. CASE HostCommands
  <2>1. PICK c \in Commands :
          /\ HostSends([is |-> "command", op |-> c, of |-> tag + 1, at |-> 0])
          /\ command' = c
          /\ stage' = CASE c = "write" -> "out" [] c \in {"read", "inquiry"} -> "in" [] OTHER -> "status"
    BY <1>4 DEF HostCommands
  <2>2. [is |-> "command", op |-> c, of |-> tag + 1, at |-> 0] \in LegalPackets
    BY <1>0, <1>4 DEF HostCommands, LegalPackets, HostPackets, StorageTypes
  <2>3. PathTypes(Pieces, LegalPackets, SectorPackets)'
    BY <1>0, <2>1, <2>2, HostTypes
  <2>4. stage' \in {"idle", "out", "in", "status", "error"}
    BY <2>1
  <2>5. tag' \in 0 .. MaxCommands /\ sent' \in 0 .. Packets /\ sent' < Packets /\ got' \in Seq(Half) /\ tag' >= 1
    BY <1>0, <1>4, EmptySeq DEF HostCommands
  <2>6. open' /\ UNCHANGED <<disk, kept, wrong, taken, cut>> /\ command' \in Commands
    BY <1>4, <2>1 DEF HostCommands, HostSends
  <2> QED BY <2>3, <2>4, <2>5, <2>6 DEF StorageTypes, disk
<1>5. CASE HostSendsData
  <2>1. HostSends([is |-> "data", op |-> "write", of |-> tag, at |-> sent]) /\ stage = "out" /\ sent < Packets
    BY <1>5 DEF HostSendsData, StorageTypes
  <2>2. [is |-> "data", op |-> "write", of |-> tag, at |-> sent] \in LegalPackets
    BY <1>0, <2>1 DEF LegalPackets, HostPackets, StorageTypes, Commands
  <2>3. PathTypes(Pieces, LegalPackets, SectorPackets)'
    BY <1>0, <2>1, <2>2, HostTypes
  <2>4. /\ sent' \in 0 .. Packets /\ stage' \in {"out", "status"} /\ (stage' = "out" => sent' < Packets)
    BY <1>0, <1>5, <2>1 DEF HostSendsData
  <2> QED BY <1>5, <2>1, <2>3, <2>4 DEF HostSendsData, HostSends, StorageTypes, disk
<1>6. CASE HostReadsData
  <2>1. PathTypes(Pieces, LegalPackets, SectorPackets)'
    BY <1>0, <1>6, HostTypes DEF HostReadsData
  <2>2. bank[1] \in Pieces
    BY <1>6 DEF HostReadsData, HostReads, StorageTypes, PathTypes, AtMostOne
  <2>3. bank[1].halves \in Seq(Half)
    BY <2>2 DEF Pieces
  <2>4. got' \in Seq(Half)
    BY <1>6, <2>3, ConcatProperties DEF HostReadsData, StorageTypes
  <2> QED BY <1>6, <2>1, <2>4 DEF HostReadsData, HostReads, StorageTypes, disk
<1>7. CASE HostReadsStatus
  <2>1. PathTypes(Pieces, LegalPackets, SectorPackets)'
    BY <1>0, <1>7, HostTypes DEF HostReadsStatus
  <2>2. /\ stage' \in {"idle", "error"} /\ kept' \in 0 .. MaxCommands /\ wrong' \in BOOLEAN /\ open' = open
    BY <1>7 DEF HostReadsStatus, HostReads, StorageTypes
  <2>3. open
    BY <1>7 DEF HostReadsStatus, StorageTypes
  <2> QED BY <1>7, <2>1, <2>2, <2>3 DEF HostReadsStatus, StorageTypes, disk
<1>8. CASE HostRecovers
  <2>1. PathTypes(Pieces, LegalPackets, SectorPackets)'
    BY <1>0, <1>8, HostTypes DEF HostRecovers
  <2>2. cut' \in BOOLEAN
    BY <1>8 DEF HostRecovers, StorageTypes
  <2> QED BY <1>8, <2>1, <2>2 DEF HostRecovers, StorageTypes, disk
<1> QED BY <1>1, <1>2, <1>3, <1>4, <1>5, <1>6, <1>7, <1>8 DEF StorageNext, StorageSteps

LEMMA StorageOtherTypes ==
  ASSUME StorageTypes, PcReader \/ Firmware \/ HostConfigures \/ HostAsks, UNCHANGED storage
  PROVE  StorageTypes'
<1>1. PathTypes(Pieces, LegalPackets, SectorPackets)'
  BY FirmwareTypes, Sizes DEF StorageTypes
<1>2. open => open'
  <2>1. CASE PcReader
    BY <2>1 DEF PcReader, QueueReply, ReceiveNack, ReceiveAck, firmware
  <2>2. CASE DecideControl
    BY <2>2 DEF DecideControl, DecideAsTold
  <2>3. CASE TakeReply \/ RefuseData \/ TakeData \/ WriteBank \/ ForwardOut \/ HostConfigures \/ HostAsks
    BY <2>3 DEF TakeReply, RefuseData, TakeData, WriteBank, ForwardOut, HostConfigures, HostAsks, Ask
  <2> QED BY <2>1, <2>2, <2>3 DEF Firmware
<1> QED BY <1>1, <1>2 DEF StorageTypes, storage, disk, transport

(* Every variable of the running device has the values its comment names.  *)
Types ==
  /\ device \in {"keyboard", "storage"}
  /\ IF device = "keyboard" THEN KeyboardTypes ELSE StorageTypes

LEMMA TypesKept == Types /\ [Next]_vars => Types'
<1> SUFFICES ASSUME Types, [Next]_vars PROVE Types'
  OBVIOUS
<1>1. device' = device
  BY DEF Next, Keyboard, Storage, Either, vars
<1>2. CASE UNCHANGED vars
  BY <1>2 DEF Types, KeyboardTypes, StorageTypes, PathTypes, vars, path, firmware, keyboard, storage, disk, transport
<1>3. CASE Next /\ device = "keyboard"
  <2>1. KeyboardNext \/ ((PcReader \/ Firmware \/ HostConfigures \/ HostAsks) /\ UNCHANGED keyboard)
    BY <1>3 DEF Next, Keyboard, Storage, Either
  <2>2. KeyboardTypes
    BY <1>3 DEF Types
  <2>3. CASE KeyboardNext
    BY <1>1, <1>3, <2>2, <2>3, KeyboardStepTypes DEF Types
  <2>4. CASE (PcReader \/ Firmware \/ HostConfigures \/ HostAsks) /\ UNCHANGED keyboard
    <3>1. PathTypes(Reports, {}, 1)'
      BY <2>2, <2>4, FirmwareTypes DEF KeyboardTypes
    <3> QED BY <1>1, <1>3, <2>2, <2>4, <3>1 DEF Types, KeyboardTypes, keyboard
  <2> QED BY <2>1, <2>3, <2>4
<1>4. CASE Next /\ device = "storage"
  <2>1. StorageNext \/ ((PcReader \/ Firmware \/ HostConfigures \/ HostAsks) /\ UNCHANGED storage)
    BY <1>4 DEF Next, Keyboard, Storage, Either
  <2> QED BY <1>1, <1>4, <2>1, StorageStepTypes, StorageOtherTypes DEF Types
<1> QED BY <1>2, <1>3, <1>4 DEF Types

(* The types of Devices. *)
THEOREM DevicesTyped == Spec => []TypeOK
<1>1. Init => Types
  BY KeyboardInitTypes, StorageInitTypes DEF Init, Types
<1>2. Types => TypeOK
  <2> SUFFICES ASSUME Types PROVE TypeOK
    OBVIOUS
  <2>1. CASE device = "keyboard"
    BY <2>1, PathTypesEnough DEF Types, TypeOK, KeyboardTypes, KeyboardTypeOK
  <2>2. CASE device = "storage"
    <3>1. StorageTypes
      BY <2>2 DEF Types
    <3>2. PathTypes(Pieces, HostPackets, SectorPackets)
      <4>1. LegalPackets \subseteq HostPackets
        BY DEF LegalPackets
      <4>2. AtMostOne(LegalPackets) \subseteq AtMostOne(HostPackets)
        BY <4>1 DEF AtMostOne
      <4>3. FromFirmware(LegalPackets) \subseteq FromFirmware(HostPackets)
        BY <4>1 DEF FromFirmware
      <4>4. \A S, T : S \subseteq T => Seq(S) \subseteq Seq(T)
        OBVIOUS
      <4>5. Seq(FromFirmware(LegalPackets)) \subseteq Seq(FromFirmware(HostPackets))
        BY <4>3, <4>4
      <4> QED BY <3>1, <4>2, <4>5 DEF StorageTypes, PathTypes
    <3>3. PathTypeOK(Pieces, HostPackets)
      BY <3>2, PathTypesEnough
    <3> QED BY <2>2, <3>1, <3>3 DEF TypeOK, StorageTypeOK, StorageTypes
  <2> QED BY <2>1, <2>2 DEF Types
<1> QED BY <1>1, <1>2, TypesKept, PTL DEF Spec

-----------------------------------------------------------------------------
(* The disk.  The packets that are on their way to it, in the order of the *)
(* commands, each command before its data.                                 *)
Stream == {toPC[i].data : i \in {j \in DOMAIN toPC : toPC[j].cmd = "I"}} \cup {out[k] : k \in DOMAIN out}

Before(p, q) == p.of < q.of \/ (p.of = q.of /\ Key(p) < Key(q))
First(p) == \A q \in Stream : q = p \/ Before(p, q)

StreamInOrder ==
  /\ \A i, j \in DOMAIN toPC :
       i < j /\ toPC[i].cmd = "I" /\ toPC[j].cmd = "I" => Before(toPC[i].data, toPC[j].data)
  /\ \A i \in DOMAIN toPC : toPC[i].cmd = "I" /\ out # <<>> => Before(toPC[i].data, out[1])

Succeeds(p, q) == q.of = p.of /\ Key(q) = Key(p) + 1
Begins(p) == p.is = "command" => p.op = "write"
MoreData(p) == IF p.is = "command" THEN p.op = "write" ELSE p.at + 1 < Packets

(* Every packet of data comes after the packet before it, or is the next   *)
(* that the disk awaits; and the one after it follows, or is still to be   *)
(* sent.                                                                   *)
StreamWhole ==
  /\ \A p \in Stream : /\ p.of \in 1 .. tag
                       /\ p.of = tag => IF p.is = "command" THEN p.op = command ELSE p.at < sent
  /\ \A q \in Stream : q.is = "data" =>
       \/ \E p \in Stream : Begins(p) /\ Succeeds(p, q)
       \/ dataRemaining > 0 /\ position = 2 * q.at /\ First(q)
  /\ \A p \in Stream : MoreData(p) =>
       \/ \E q \in Stream : Succeeds(p, q)
       \/ stage = "out" /\ p.of = tag /\ Key(p) = sent
  /\ dataRemaining > 0 =>
       \/ \E q \in Stream : q.is = "data" /\ position = 2 * q.at /\ First(q)
       \/ stage = "out" /\ position = 2 * sent /\ Stream = {}
  /\ stage = "out" =>
       /\ command = "write" /\ sent < Packets
       /\ \/ \E p \in Stream : Begins(p) /\ p.of = tag /\ Key(p) = sent
          \/ dataRemaining > 0 /\ position = 2 * sent /\ Stream = {}

(* What the disk holds, but for the data it still awaits, is of command n  *)
(* or a later one, and whatever is still to come is later than n.          *)
Awaited(k) == dataRemaining > 0 /\ k >= position
HeldSince(n) == \A k \in 0 .. Halves - 1 : image[k].of >= n \/ Awaited(k)
Passed(n) == \A p \in Stream : p.of > n \/ (p.of = n /\ p.is = "data")

InPlace == \A k \in 0 .. Halves - 1 : image[k].at = k
ImageAsWritten == kept <= tag /\ InPlace /\ HeldSince(kept) /\ Passed(kept)

(* A status that is on its way to the host says no more than that, and     *)
(* neither does one that is lost.                                          *)
Honest(x) ==
  x.is = "csw" =>
    x.of <= tag /\ Passed(x.of) /\ (x.of = tag /\ command = "write" => HeldSince(tag))
AllHonest == PathTypes({x \in Pieces : Honest(x)}, LegalPackets, SectorPackets)

DiskRight == ~cut => StreamInOrder /\ StreamWhole /\ ImageAsWritten /\ AllHonest /\ ~taken

-----------------------------------------------------------------------------
(* How the steps change what is on its way to the disk.                    *)
InStream(p) == (\E i \in DOMAIN toPC : toPC[i].cmd = "I" /\ toPC[i].data = p) \/ out = <<p>>
StreamFacts ==
  /\ \A p : p \in Stream <=> InStream(p)
  /\ Stream \subseteq LegalPackets
  /\ out # <<>> => out = <<out[1]>> /\ out[1] \in Stream
  /\ DOMAIN toPC = 1 .. Len(toPC) /\ Len(toPC) \in Nat
  /\ \A i \in 1 .. Len(toPC) : /\ toPC[i].cmd \in {"U", "I", "A", "E"}
                               /\ toPC[i].cmd = "I" => toPC[i].data \in LegalPackets

LEMMA StreamKnown == StorageTypes => StreamFacts
<1> SUFFICES ASSUME StorageTypes PROVE StreamFacts
  OBVIOUS
<1>1. /\ DOMAIN toPC = 1 .. Len(toPC) /\ Len(toPC) \in Nat
      /\ \A i \in 1 .. Len(toPC) : toPC[i] \in FromFirmware(LegalPackets)
  BY LenProperties, ElementOfSeq DEF StorageTypes, PathTypes
<1>2. \A i \in 1 .. Len(toPC) : /\ toPC[i].cmd \in {"U", "I", "A", "E"}
                                /\ toPC[i].cmd = "I" => toPC[i].data \in LegalPackets
  BY <1>1 DEF FromFirmware
<1>3. out = <<>> \/ (out = <<out[1]>> /\ out[1] \in LegalPackets)
  BY DEF StorageTypes, PathTypes, AtMostOne
<1>4. {out[k] : k \in DOMAIN out} = IF out = <<>> THEN {} ELSE {out[1]}
  <2>1. CASE out = <<>>
    BY <2>1
  <2>2. CASE out # <<>>
    <3>1. DOMAIN out = {1}
      BY <1>3, <2>2
    <3> QED BY <2>2, <3>1
  <2> QED BY <2>1, <2>2
<1>5. \A p : p \in Stream <=> \/ \E i \in DOMAIN toPC : toPC[i].cmd = "I" /\ toPC[i].data = p
                              \/ out # <<>> /\ p = out[1]
  BY <1>4 DEF Stream
<1>6. \A p : out = <<p>> <=> out # <<>> /\ p = out[1]
  BY <1>3
<1> QED BY <1>1, <1>2, <1>3, <1>5, <1>6 DEF StreamFacts, InStream

LEMMA StreamKnownNext == StorageTypes' => StreamFacts'
BY StreamKnown, PTL

LEMMA BeforeOrder ==
  /\ \A p, q \in LegalPackets : Before(p, q) => ~Before(q, p) /\ p # q
  /\ \A p, q, r \in LegalPackets : Before(p, q) /\ Before(q, r) => Before(p, r)
BY PacketFields DEF Before

(* The computer takes a packet: the first.                                 *)
LEMMA PacketTaken ==
  ASSUME StorageTypes, StorageTypes', StreamInOrder, Receives("I"), UNCHANGED out
  PROVE  \E p \in Stream :
           /\ p = Head(toPC).data /\ p \in LegalPackets /\ First(p)
           /\ Stream' = Stream \ {p} /\ \A q \in Stream' : Before(p, q)
           /\ StreamInOrder'
<1> DEFINE n == Len(toPC)
<1>1. /\ toPC # <<>> /\ toPC' = Tail(toPC) /\ Head(toPC).cmd = "I"
  BY DEF Receives
<1>2. /\ n \in Nat /\ n >= 1 /\ DOMAIN toPC = 1 .. n /\ Head(toPC) = toPC[1]
      /\ DOMAIN toPC' = 1 .. n - 1 /\ \A i \in 1 .. n - 1 : toPC'[i] = toPC[i + 1]
  BY <1>1, Popped DEF StorageTypes, PathTypes
<1> HIDE DEF n
<1>3. \A p : p \in Stream <=> (\E i \in 1 .. n : toPC[i].cmd = "I" /\ toPC[i].data = p) \/ out = <<p>>
  BY <1>2, StreamKnown DEF StreamFacts, InStream
<1>4. \A p : p \in Stream' <=> (\E i \in 1 .. n - 1 : toPC'[i].cmd = "I" /\ toPC'[i].data = p) \/ out = <<p>>
  <2>1. \A p : p \in Stream' <=> (\E i \in DOMAIN toPC' : toPC'[i].cmd = "I" /\ toPC'[i].data = p) \/ out' = <<p>>
    BY StreamKnownNext DEF StreamFacts, InStream
  <2> QED BY <1>2, <2>1
<1>5. 1 \in 1 .. n /\ \A i \in 1 .. n - 1 : i + 1 \in 1 .. n /\ 1 < i + 1
  BY <1>2
<1>6. \A i \in 1 .. n : i = 1 \/ (i - 1 \in 1 .. n - 1 /\ (i - 1) + 1 = i)
  BY <1>2
<1>7. PICK p \in Stream : p = toPC[1].data
  BY <1>1, <1>2, <1>3, <1>5
<1>8. p \in LegalPackets /\ Stream \subseteq LegalPackets
  BY StreamKnown DEF StreamFacts, InStream
<1>9. out # <<>> => Before(p, out[1])
  BY <1>1, <1>2, <1>5, <1>7 DEF StreamInOrder
<1>10. ASSUME NEW q \in Stream' PROVE q \in Stream /\ Before(p, q)
  <2>1. CASE out = <<q>>
    BY <1>3, <1>9, <2>1
  <2>2. ASSUME NEW i \in 1 .. n - 1, toPC'[i].cmd = "I", toPC'[i].data = q PROVE q \in Stream /\ Before(p, q)
    <3>1. i + 1 \in 1 .. n /\ 1 < i + 1 /\ toPC[i + 1].cmd = "I" /\ toPC[i + 1].data = q
      BY <1>2, <1>5, <2>2
    <3> QED BY <1>1, <1>2, <1>3, <1>5, <1>7, <3>1 DEF StreamInOrder
  <2> QED BY <1>4, <1>10, <2>1, <2>2
<1>11. ASSUME NEW q \in Stream, q # p PROVE q \in Stream'
  <2>1. CASE out = <<q>>
    BY <1>4, <2>1
  <2>2. ASSUME NEW i \in 1 .. n, toPC[i].cmd = "I", toPC[i].data = q PROVE q \in Stream'
    <3>1. i # 1
      BY <1>7, <1>11, <2>2
    <3>2. i - 1 \in 1 .. n - 1 /\ toPC'[i - 1] = toPC[i]
      BY <1>2, <1>6, <3>1
    <3> QED BY <1>4, <2>2, <3>2
  <2> QED BY <1>3, <1>11, <2>1, <2>2
<1>12. Stream' = Stream \ {p}
  <2>1. p \notin Stream'
    BY <1>8, <1>10, BeforeOrder
  <2> QED BY <1>10, <1>11, <2>1
<1>13. First(p)
  BY <1>10, <1>11 DEF First
<1>14. StreamInOrder'
  <2>1. ASSUME NEW i \in 1 .. n - 1, NEW j \in 1 .. n - 1, i < j, toPC'[i].cmd = "I", toPC'[j].cmd = "I"
        PROVE  Before(toPC'[i].data, toPC'[j].data)
    <3>1. i + 1 \in 1 .. n /\ j + 1 \in 1 .. n /\ i + 1 < j + 1
      BY <1>2, <1>5, <2>1
    <3> QED BY <1>2, <2>1, <3>1 DEF StreamInOrder
  <2>2. ASSUME NEW i \in 1 .. n - 1, toPC'[i].cmd = "I", out # <<>> PROVE Before(toPC'[i].data, out[1])
    <3>1. i + 1 \in 1 .. n /\ toPC[i + 1] = toPC'[i]
      BY <1>2, <1>5
    <3> QED BY <1>2, <2>2, <3>1 DEF StreamInOrder
  <2> QED BY <1>2, <2>1, <2>2 DEF StreamInOrder, Before, Key
<1> QED BY <1>2, <1>7, <1>8, <1>10, <1>12, <1>13, <1>14

LEMMA StreamSame ==
  ASSUME StorageTypes, StorageTypes', StreamInOrder,
         \/ UNCHANGED <<toPC, out>>
         \/ toPC # <<>> /\ toPC' = Tail(toPC) /\ Head(toPC).cmd # "I" /\ UNCHANGED out
         \/ ForwardOut
         \/ \E e \in FromFirmware(LegalPackets) :
              e.cmd # "I" /\ toPC' = Append(toPC, e) /\ UNCHANGED out
  PROVE  Stream' = Stream /\ StreamInOrder'
<1> DEFINE n == Len(toPC)
<1>0. /\ DOMAIN toPC = 1 .. n /\ n \in Nat
      /\ \A p : p \in Stream <=> (\E i \in 1 .. n : toPC[i].cmd = "I" /\ toPC[i].data = p) \/ out = <<p>>
  BY StreamKnown DEF StreamFacts, InStream
<1>00. \A p : p \in Stream' <=> (\E i \in DOMAIN toPC' : toPC'[i].cmd = "I" /\ toPC'[i].data = p) \/ out' = <<p>>
  BY StreamKnownNext DEF StreamFacts, InStream
<1>1. CASE UNCHANGED <<toPC, out>>
  BY <1>1 DEF Stream, StreamInOrder, Before, Key
<1>2. CASE toPC # <<>> /\ toPC' = Tail(toPC) /\ Head(toPC).cmd # "I" /\ UNCHANGED out
  <2>2. /\ n \in Nat /\ n >= 1 /\ Head(toPC) = toPC[1]
        /\ DOMAIN toPC' = 1 .. n - 1 /\ \A i \in 1 .. n - 1 : toPC'[i] = toPC[i + 1]
    BY <1>2, Popped DEF StorageTypes, PathTypes
  <2> HIDE DEF n
  <2>3. \A i \in 1 .. n - 1 : i + 1 \in 1 .. n
    BY <1>0
  <2>4. \A i \in 1 .. n : i = 1 \/ (i - 1 \in 1 .. n - 1 /\ (i - 1) + 1 = i)
    BY <1>0
  <2>5. \A p : (\E i \in 1 .. n - 1 : toPC'[i].cmd = "I" /\ toPC'[i].data = p) <=>
               (\E i \in 1 .. n : toPC[i].cmd = "I" /\ toPC[i].data = p)
    <3> TAKE p
    <3>1. ASSUME NEW i \in 1 .. n - 1, toPC'[i].cmd = "I", toPC'[i].data = p
          PROVE  \E j \in 1 .. n : toPC[j].cmd = "I" /\ toPC[j].data = p
      BY <2>2, <2>3, <3>1
    <3>2. ASSUME NEW i \in 1 .. n, toPC[i].cmd = "I", toPC[i].data = p
          PROVE  \E j \in 1 .. n - 1 : toPC'[j].cmd = "I" /\ toPC'[j].data = p
      <4>1. i # 1
        BY <1>2, <2>2, <3>2
      <4>2. i - 1 \in 1 .. n - 1 /\ toPC'[i - 1] = toPC[i]
        BY <2>2, <2>4, <4>1
      <4> QED BY <3>2, <4>2
    <3> QED BY <3>1, <3>2
  <2>6. Stream' = Stream
    <3>1. DOMAIN toPC' = 1 .. n - 1 /\ out' = out
      BY <1>2, <2>2
    <3>2. \A p : p \in Stream' <=> (\E i \in 1 .. n - 1 : toPC'[i].cmd = "I" /\ toPC'[i].data = p) \/ out = <<p>>
      BY <1>00, <3>1, Zenon
    <3>3. \A p : p \in Stream' <=> p \in Stream
      BY <1>0, <2>5, <3>2, Zenon
    <3> QED BY <3>3
  <2>7. StreamInOrder'
    <3>1. ASSUME NEW i \in 1 .. n - 1, NEW j \in 1 .. n - 1, i < j, toPC'[i].cmd = "I", toPC'[j].cmd = "I"
          PROVE  Before(toPC'[i].data, toPC'[j].data)
      <4>1. i + 1 \in 1 .. n /\ j + 1 \in 1 .. n /\ i + 1 < j + 1
        BY <2>2, <2>3, <3>1
      <4>2. toPC'[i] = toPC[i + 1] /\ toPC'[j] = toPC[j + 1] /\ DOMAIN toPC = 1 .. n
        BY <1>0, <2>2
      <4> QED BY <3>1, <4>1, <4>2 DEF StreamInOrder
    <3>2. ASSUME NEW i \in 1 .. n - 1, toPC'[i].cmd = "I", out # <<>> PROVE Before(toPC'[i].data, out[1])
      <4>1. i + 1 \in 1 .. n /\ toPC[i + 1] = toPC'[i]
        BY <2>2, <2>3
      <4> QED BY <1>0, <3>2, <4>1 DEF StreamInOrder
    <3> QED BY <1>2, <2>2, <3>1, <3>2 DEF StreamInOrder, Before, Key
  <2> QED BY <2>6, <2>7
<1>3. ASSUME NEW e \in FromFirmware(LegalPackets), toPC' = Append(toPC, e),
             \/ e.cmd # "I" /\ out' = out
             \/ e.cmd = "I" /\ out = <<e.data>> /\ out' = <<>>
      PROVE  Stream' = Stream /\ StreamInOrder'
  <2>1. /\ DOMAIN toPC' = 1 .. n + 1 /\ toPC'[n + 1] = e /\ \A i \in 1 .. n : toPC'[i] = toPC[i]
    BY <1>3, Pushed DEF StorageTypes, PathTypes
  <2> HIDE DEF n
  <2>2. \A i \in 1 .. n + 1 : i = n + 1 \/ i \in 1 .. n
    BY <1>0
  <2>3. \A i \in 1 .. n : i \in 1 .. n + 1
    BY <1>0
  <2>4. n + 1 \in 1 .. n + 1
    BY <1>0
  <2>5. \A p : (\E i \in 1 .. n + 1 : toPC'[i].cmd = "I" /\ toPC'[i].data = p) <=>
               (\E i \in 1 .. n : toPC[i].cmd = "I" /\ toPC[i].data = p) \/ (e.cmd = "I" /\ e.data = p)
    <3> TAKE p
    <3>1. ASSUME NEW i \in 1 .. n + 1, toPC'[i].cmd = "I", toPC'[i].data = p
          PROVE  (\E j \in 1 .. n : toPC[j].cmd = "I" /\ toPC[j].data = p) \/ (e.cmd = "I" /\ e.data = p)
      <4>1. CASE i = n + 1
        BY <2>1, <3>1, <4>1
      <4>2. CASE i \in 1 .. n
        BY <2>1, <3>1, <4>2
      <4> QED BY <2>2, <4>1, <4>2
    <3>2. ASSUME NEW i \in 1 .. n, toPC[i].cmd = "I", toPC[i].data = p
          PROVE  \E j \in 1 .. n + 1 : toPC'[j].cmd = "I" /\ toPC'[j].data = p
      BY <2>1, <2>3, <3>2
    <3> QED BY <2>1, <2>4, <3>1, <3>2
  <2>6. Stream' = Stream
    <3>1. \A p : out = <<p>> <=> (e.cmd = "I" /\ e.data = p) \/ out' = <<p>>
      BY <1>3
    <3>2. \A p : p \in Stream' <=> p \in Stream
      BY <1>0, <1>00, <2>1, <2>5, <3>1
    <3> QED BY <3>2
  <2>7. StreamInOrder'
    <3>1. ASSUME NEW i \in 1 .. n + 1, NEW j \in 1 .. n + 1, i < j, toPC'[i].cmd = "I", toPC'[j].cmd = "I"
          PROVE  Before(toPC'[i].data, toPC'[j].data)
      <4>1. i \in 1 .. n
        BY <1>0, <3>1
      <4>2. CASE j = n + 1
        <5>1. toPC'[j] = e /\ e.cmd = "I"
          BY <2>1, <3>1, <4>2
        <5>2. out = <<e.data>> /\ out # <<>> /\ out[1] = e.data
          <6>1. out = <<e.data>>
            BY <1>3, <5>1, Zenon
          <6> QED BY <6>1
        <5> QED BY <1>0, <2>1, <3>1, <4>1, <5>1, <5>2 DEF StreamInOrder
      <4>3. CASE j \in 1 .. n
        BY <1>0, <2>1, <3>1, <4>1, <4>3 DEF StreamInOrder
      <4> QED BY <2>2, <4>2, <4>3
    <3>2. ASSUME NEW i \in 1 .. n + 1, toPC'[i].cmd = "I", out' # <<>> PROVE Before(toPC'[i].data, out'[1])
      <4>1. e.cmd # "I" /\ out' = out /\ i \in 1 .. n
        BY <1>3, <2>1, <2>2, <3>2
      <4> QED BY <1>0, <2>1, <3>2, <4>1 DEF StreamInOrder
    <3> QED BY <2>1, <3>1, <3>2 DEF StreamInOrder, Before, Key
  <2> QED BY <2>6, <2>7
<1>4. CASE ForwardOut
  <2>1. out = <<out[1]>> /\ out[1] \in LegalPackets
    BY <1>4 DEF ForwardOut, StorageTypes, PathTypes, AtMostOne
  <2> DEFINE e == [cmd |-> "I", data |-> out[1]]
  <2>2. e \in FromFirmware(LegalPackets) /\ e.cmd = "I" /\ e.data = out[1]
    BY <2>1 DEF FromFirmware
  <2>3. toPC' = Append(toPC, e) /\ out' = <<>>
    BY <1>4 DEF ForwardOut
  <2> HIDE DEF e
  <2> QED BY <1>3, <2>1, <2>2, <2>3
<1> QED BY <1>1, <1>2, <1>3, <1>4

(* The host sends a packet that comes after all the others.                *)
LEMMA PacketSent ==
  ASSUME StorageTypes, StorageTypes', StreamInOrder, NEW p, HostSends(p), \A q \in Stream : Before(q, p)
  PROVE  Stream' = Stream \cup {p} /\ StreamInOrder'
<1>1. out = <<>> /\ out' = <<p>> /\ toPC' = toPC
  BY DEF HostSends
<1>2. \A q : q \in Stream <=> (\E i \in DOMAIN toPC : toPC[i].cmd = "I" /\ toPC[i].data = q)
  BY <1>1, StreamKnown DEF StreamFacts, InStream
<1>3. \A q : q \in Stream' <=> (\E i \in DOMAIN toPC : toPC[i].cmd = "I" /\ toPC[i].data = q) \/ q = p
  <2>1. \A q : q \in Stream' <=> (\E i \in DOMAIN toPC' : toPC'[i].cmd = "I" /\ toPC'[i].data = q) \/ out' = <<q>>
    BY StreamKnownNext DEF StreamFacts, InStream
  <2> QED BY <1>1, <2>1
<1>4. Stream' = Stream \cup {p}
  BY <1>2, <1>3
<1>5. StreamInOrder'
  BY <1>1, <1>2 DEF StreamInOrder, Before, Key
<1> QED BY <1>4, <1>5

(* A reset drops the packet the firmware has not taken.                    *)
LEMMA PacketDropped ==
  ASSUME StorageTypes, StorageTypes', StreamInOrder, UNCHANGED toPC, out' = <<>>
  PROVE  /\ StreamInOrder' /\ Stream' \subseteq Stream
         /\ out = <<>> => Stream' = Stream
         /\ out # <<>> => Stream = Stream' \cup {out[1]} /\ \A q \in Stream' : Before(q, out[1])
<1>1. \A q : q \in Stream <=> (\E i \in DOMAIN toPC : toPC[i].cmd = "I" /\ toPC[i].data = q) \/ out = <<q>>
  BY StreamKnown DEF StreamFacts, InStream
<1>2. \A q : q \in Stream' <=> (\E i \in DOMAIN toPC : toPC[i].cmd = "I" /\ toPC[i].data = q)
  <2>1. \A q : q \in Stream' <=> (\E i \in DOMAIN toPC' : toPC'[i].cmd = "I" /\ toPC'[i].data = q) \/ out' = <<q>>
    BY StreamKnownNext DEF StreamFacts, InStream
  <2> QED BY <2>1
<1>3. out # <<>> => out = <<out[1]>>
  BY StreamKnown DEF StreamFacts, InStream
<1>4. out # <<>> => \A q \in Stream' : Before(q, out[1])
  BY <1>2 DEF StreamInOrder
<1>5. StreamInOrder'
  BY DEF StreamInOrder, Before, Key
<1>6. out = <<>> => Stream' = Stream
  <2> SUFFICES ASSUME out = <<>> PROVE Stream' = Stream
    OBVIOUS
  <2>1. \A q : out # <<q>>
    OBVIOUS
  <2> QED BY <1>1, <1>2, <2>1
<1>7. out # <<>> => Stream = Stream' \cup {out[1]}
  <2> SUFFICES ASSUME out # <<>> PROVE Stream = Stream' \cup {out[1]}
    OBVIOUS
  <2>1. \A q : out = <<q>> <=> q = out[1]
    BY <1>3
  <2> QED BY <1>1, <1>2, <2>1
<1> QED BY <1>4, <1>5, <1>6, <1>7

(* Packets in order: which is next, and which is the last.                 *)
LEMMA StreamTotal ==
  ASSUME StorageTypes, StreamInOrder, NEW p \in Stream, NEW q \in Stream
  PROVE  p = q \/ Before(p, q) \/ Before(q, p)
<1>1. /\ \A r : r \in Stream <=> (\E i \in DOMAIN toPC : toPC[i].cmd = "I" /\ toPC[i].data = r) \/ out = <<r>>
      /\ out # <<>> => out = <<out[1]>>
      /\ DOMAIN toPC = 1 .. Len(toPC) /\ Len(toPC) \in Nat
  BY StreamKnown DEF StreamFacts, InStream
<1>2. \A r : out = <<r>> => out # <<>> /\ r = out[1]
  OBVIOUS
<1>3. ASSUME NEW i \in DOMAIN toPC, NEW j \in DOMAIN toPC, toPC[i].cmd = "I", toPC[j].cmd = "I",
             toPC[i].data = p, toPC[j].data = q
      PROVE  p = q \/ Before(p, q) \/ Before(q, p)
  <2>1. i = j \/ i < j \/ j < i
    BY <1>1
  <2> QED BY <1>3, <2>1 DEF StreamInOrder
<1>4. CASE out = <<p>>
  BY <1>1, <1>2, <1>4 DEF StreamInOrder
<1>5. CASE out = <<q>>
  BY <1>1, <1>2, <1>5 DEF StreamInOrder
<1> QED BY <1>1, <1>3, <1>4, <1>5

LEMMA NextFirst ==
  ASSUME StorageTypes, StreamInOrder, NEW p \in Stream, Stream' = Stream \ {p}, \A q \in Stream' : Before(p, q),
         NEW q \in Stream, Succeeds(p, q)
  PROVE  q \in Stream' /\ First(q)' /\ q.is = "data"
<1>1. Stream \subseteq LegalPackets
  BY StreamKnown DEF StreamFacts
<1>2. /\ q.of = p.of /\ Key(q) = Key(p) + 1 /\ Key(p) \in Nat /\ p.of \in Nat /\ q # p /\ q.is = "data"
  BY <1>1, PacketFields DEF Succeeds
<1>3. q \in Stream'
  BY <1>2
<1>4. ASSUME NEW r \in Stream', r # q PROVE Before(q, r)
  <2>1. r \in Stream /\ r.of \in Nat /\ Key(r) \in Nat /\ Before(p, r)
    BY <1>1, <1>4, PacketFields
  <2>2. Before(q, r) \/ Before(r, q)
    BY <1>4, <2>1, StreamTotal
  <2> QED BY <1>2, <2>1, <2>2 DEF Before
<1> QED BY <1>2, <1>3, <1>4 DEF First, Before, Key

(* Of the packets after the last that was sent there is none.              *)
LEMMA LastSent ==
  ASSUME StorageTypes, StreamWhole, NEW p \in Stream, Stream' = Stream \ {p}, \A q \in Stream' : Before(p, q),
         p.of = tag, Key(p) = sent
  PROVE  Stream' = {}
<1> SUFFICES ASSUME NEW q \in Stream' PROVE FALSE
  OBVIOUS
<1>1. q \in LegalPackets /\ p \in LegalPackets /\ q \in Stream
  BY StreamKnown DEF StreamFacts
<1>2. q.of \in 1 .. tag /\ Before(p, q) /\ sent \in Nat /\ tag \in Nat
  BY <1>1, Sizes DEF StreamWhole, StorageTypes
<1>3. q.of = tag /\ Key(q) > sent
  BY <1>1, <1>2, PacketFields DEF Before
<1>4. q.is = "data" /\ q.at < sent /\ q.at \in Nat
  BY <1>1, <1>2, <1>3, PacketFields DEF StreamWhole
<1> QED BY <1>1, <1>2, <1>3, <1>4, PacketFields

LEMMA FirstOnce ==
  ASSUME StorageTypes, NEW p \in Stream, NEW q \in Stream, First(p)
  PROVE  /\ First(q) => q = p
         /\ ~Before(q, p)
         /\ ~Succeeds(q, p)
<1>1. q \in LegalPackets /\ p \in LegalPackets
  BY StreamKnown DEF StreamFacts
<1>2. ~Before(q, p)
  BY <1>1, BeforeOrder DEF First
<1>3. Succeeds(q, p) => Before(q, p)
  BY <1>1, PacketFields DEF Succeeds, Before
<1> QED BY <1>1, <1>2, <1>3, BeforeOrder DEF First

-----------------------------------------------------------------------------
(* What is on its way to the host stays honest.                            *)
LEMMA Wider ==
  ASSUME NEW S, NEW T, S \subseteq T, NEW n
  PROVE  /\ Seq(S) \subseteq Seq(T) /\ AtMostOne(S) \subseteq AtMostOne(T)
         /\ Seq(Messages(S, n)) \subseteq Seq(Messages(T, n)) /\ SUBSET S \subseteq SUBSET T
<1>1. \A A, B : A \subseteq B => Seq(A) \subseteq Seq(B)
  OBVIOUS
<1>2. Messages(S, n) \subseteq Messages(T, n)
  BY <1>1 DEF Messages
<1> QED BY <1>1, <1>2 DEF AtMostOne

LEMMA StillHonest ==
  ASSUME NEW S, PathTypes(S, LegalPackets, SectorPackets)', \A x \in S : x \in Pieces /\ Honest(x)'
  PROVE  AllHonest'
<1>1. PICK T : T = {x \in Pieces : Honest(x)'}
  OBVIOUS
<1>2. S \subseteq T
  BY <1>1
<1>3. PathTypes(T, LegalPackets, SectorPackets)'
  BY <1>2, Wider DEF PathTypes
<1> QED BY <1>1, <1>3 DEF AllHonest, PathTypes

LEMMA HonestThrough ==
  ASSUME AllHonest, \A x \in Pieces : Honest(x) => Honest(x)',
         \/ PcReader \/ Firmware \/ HostConfigures \/ HostAsks
         \/ \E kind : Requested(kind)
         \/ HostReads \/ HostResets \/ \E p \in LegalPackets : HostSends(p)
  PROVE  AllHonest'
<1>1. PICK S : S = {x \in Pieces : Honest(x)}
  OBVIOUS
<1>2. PathTypes(S, LegalPackets, SectorPackets) /\ SectorPackets \in Nat
  BY <1>1, Sizes DEF AllHonest
<1>3. PathTypes(S, LegalPackets, SectorPackets)'
  BY <1>2, FirmwareTypes, RequestedTypes, HostTypes
<1> QED BY <1>1, <1>3, StillHonest

-----------------------------------------------------------------------------
(* The path's own steps do nothing to the disk.                            *)
LEMMA WholeSame ==
  ASSUME StreamWhole, Stream' = Stream, UNCHANGED <<dataRemaining, position, command, tag, sent>>,
         stage' = "out" <=> stage = "out"
  PROVE  StreamWhole'
BY DEF StreamWhole, First, Begins, MoreData, Succeeds, Before, Key

LEMMA QuietStream ==
  ASSUME StorageTypes, StorageTypes', StreamInOrder,
         PcReader \/ Firmware \/ HostConfigures \/ HostAsks \/ \E kind : Requested(kind)
  PROVE  Stream' = Stream /\ StreamInOrder'
<1> DEFINE U(kind) == [cmd |-> "U", kind |-> kind]
<1>1. [cmd |-> "A"] \in FromFirmware(LegalPackets) /\ [cmd |-> "E"] \in FromFirmware(LegalPackets)
  BY DEF FromFirmware
<1>2. \A kind \in {"configure", "class"} : U(kind) \in FromFirmware(LegalPackets) /\ U(kind).cmd = "U"
  BY DEF FromFirmware
<1> HIDE DEF U
<1>3. CASE QueueReply
  BY <1>3, StreamSame DEF QueueReply, firmware
<1>4. CASE ReceiveNack \/ ReceiveAck \/ \E kind : Requested(kind)
  <2>1. toPC # <<>> /\ toPC' = Tail(toPC) /\ Head(toPC).cmd # "I" /\ UNCHANGED out
    BY <1>4 DEF ReceiveNack, ReceiveAck, Requested, Receives, firmware
  <2> QED BY <2>1, StreamSame
<1>5. CASE TakeReply
  <2>1. toPC' = Append(toPC, [cmd |-> "A"]) /\ UNCHANGED out /\ [cmd |-> "A"].cmd # "I"
    BY <1>5 DEF TakeReply
  <2> QED BY <1>1, <2>1, StreamSame
<1>6. CASE RefuseData
  <2>1. toPC' = Append(toPC, [cmd |-> "E"]) /\ UNCHANGED out /\ [cmd |-> "E"].cmd # "I"
    BY <1>6 DEF RefuseData
  <2> QED BY <1>1, <2>1, StreamSame
<1>7. CASE TakeData \/ WriteBank
  BY <1>7, StreamSame DEF TakeData, WriteBank
<1>8. CASE DecideControl
  <2>1. UNCHANGED <<toPC, out>>
    <3>1. waiting = "configure" => out = <<>>
      BY DEF StorageTypes, PathTypes
    <3> QED BY <1>8, <3>1 DEF DecideControl, DecideAsTold
  <2> QED BY <2>1, StreamSame
<1>9. CASE ForwardOut
  BY <1>9, StreamSame
<1>10. CASE HostConfigures \/ HostAsks
  <2>1. PICK kind \in {"configure", "class"} : toPC' = Append(toPC, U(kind)) /\ UNCHANGED out
    BY <1>10 DEF HostConfigures, HostAsks, Ask, U
  <2> QED BY <1>2, <2>1, StreamSame
<1> QED BY <1>3, <1>4, <1>5, <1>6, <1>7, <1>8, <1>9, <1>10 DEF PcReader, Firmware

LEMMA ImageSame ==
  ASSUME Stream' = Stream, UNCHANGED <<dataRemaining, position, image, tag, command>>
  PROVE  /\ \A x : Honest(x)' <=> Honest(x)
         /\ ImageAsWritten /\ kept' = kept => ImageAsWritten'
BY DEF Honest, ImageAsWritten, Passed, HeldSince, InPlace, Awaited

LEMMA QuietDisk ==
  ASSUME StorageTypes, StorageTypes', DiskRight, UNCHANGED storage,
         PcReader \/ Firmware \/ HostConfigures \/ HostAsks \/ \E kind : Requested(kind)
  PROVE  DiskRight'
<1>1. /\ UNCHANGED <<dataRemaining, position, image>>
      /\ UNCHANGED <<command, stage, tag, sent, got, kept, wrong, taken, cut>>
  BY DEF storage, disk, transport
<1> SUFFICES ASSUME ~cut PROVE StreamInOrder' /\ StreamWhole' /\ ImageAsWritten' /\ AllHonest' /\ ~taken'
  BY <1>1 DEF DiskRight
<1>2. StreamInOrder /\ StreamWhole /\ ImageAsWritten /\ AllHonest /\ ~taken
  BY DEF DiskRight
<1>3. Stream' = Stream /\ StreamInOrder'
  BY <1>2, QuietStream
<1>4. AllHonest'
  BY <1>1, <1>2, <1>3, ImageSame, HonestThrough
<1> QED BY <1>1, <1>2, <1>3, <1>4, WholeSame, ImageSame

-----------------------------------------------------------------------------
(* The disk takes a packet.                                                *)
LEMMA StoreDataStep ==
  ASSUME StorageTypes, StorageTypes', DiskRight, ~cut, StoreData
  PROVE  DiskRight'
<1>1. /\ StreamInOrder /\ StreamWhole /\ ImageAsWritten /\ AllHonest /\ ~taken
      /\ dataRemaining > 0 /\ Receives("I")
      /\ UNCHANGED <<queue, replying, firmware, asks, resets, resent>>
      /\ UNCHANGED <<command, stage, tag, sent, got, kept, wrong, cut>>
  BY DEF DiskRight, StoreData, transport
<1>2. PICK p \in Stream :
        /\ p = Head(toPC).data /\ p \in LegalPackets /\ First(p)
        /\ Stream' = Stream \ {p} /\ \A q \in Stream' : Before(p, q)
        /\ StreamInOrder'
  BY <1>1, PacketTaken DEF firmware
<1>3. Stream \subseteq LegalPackets
  BY StreamKnown DEF StreamFacts
<1>4. p.is = "data" /\ position = 2 * p.at
  <2>1. PICK q \in Stream : q.is = "data" /\ position = 2 * q.at /\ First(q)
    BY <1>1, <1>2 DEF StreamWhole
  <2> QED BY <1>2, <2>1, FirstOnce
<1>5. /\ p.at \in Nat /\ p.at < Packets /\ Key(p) = p.at + 1 /\ Packets \in Nat /\ Halves = 2 * Packets
      /\ position \in Nat /\ dataRemaining \in Int /\ position + dataRemaining = Halves
      /\ position' = 2 * (p.at + 1) /\ dataRemaining' = Halves - position' /\ ~taken'
      /\ image' = Stored(p) /\ sent \in Nat /\ tag \in Nat /\ p.of \in Nat
  <2>1. /\ image' = Stored(p) /\ position' = position + 2 /\ dataRemaining' = dataRemaining - 2
        /\ taken' = (taken \/ p.is = "command")
    BY <1>2, <1>4 DEF StoreData, Length
  <2>2. p.is # "command"
    BY <1>4
  <2>3. ~taken'
    BY <1>1, <2>1, <2>2, Zenon
  <2>4. /\ p.at \in Nat /\ p.at < Packets /\ Key(p) = p.at + 1 /\ Packets \in Nat /\ Halves = 2 * Packets
        /\ p.of \in Nat
    BY <1>2, <1>4, PacketFields, Sizes
  <2>5. /\ position \in Nat /\ dataRemaining \in Int /\ position + dataRemaining = Halves
        /\ sent \in Nat /\ tag \in Nat
    BY <1>1, <2>4, Sizes DEF StorageTypes
  <2>6. position' = 2 * (p.at + 1) /\ dataRemaining' = Halves - position'
    BY <1>4, <2>1, <2>4, <2>5
  <2> QED BY <2>1, <2>3, <2>4, <2>5, <2>6
<1>7. ASSUME NEW q \in Stream, Succeeds(p, q)
      PROVE  q \in Stream' /\ First(q)' /\ dataRemaining' > 0 /\ position' = 2 * q.at /\ q.is = "data"
  <2>1. q \in Stream' /\ First(q)' /\ q.is = "data"
    BY <1>1, <1>2, <1>7, NextFirst
  <2>2. q.at = p.at + 1 /\ q.at < Packets
    BY <1>3, <1>5, <1>7, <2>1, PacketFields DEF Succeeds
  <2> QED BY <1>5, <2>1, <2>2
<1>8. p.of = tag /\ Key(p) = sent => Stream' = {} /\ position' = 2 * sent
  BY <1>1, <1>2, <1>5, LastSent
<1>9. StreamWhole'
  <2>1. \A q \in Stream' : /\ q.of \in 1 .. tag'
                           /\ q.of = tag' => IF q.is = "command" THEN q.op = command' ELSE q.at < sent'
    BY <1>1, <1>2 DEF StreamWhole
  <2>2. ASSUME NEW q \in Stream', q.is = "data"
        PROVE  \/ \E r \in Stream' : Begins(r) /\ Succeeds(r, q)
               \/ dataRemaining' > 0 /\ position' = 2 * q.at /\ First(q)'
    <3>1. q # p /\ q \in Stream
      BY <1>2
    <3>2. ~First(q)
      BY <1>2, <3>1, FirstOnce
    <3>3. PICK r \in Stream : Begins(r) /\ Succeeds(r, q)
      BY <1>1, <2>2, <3>1, <3>2 DEF StreamWhole
    <3>4. CASE r = p
      BY <1>7, <3>1, <3>3, <3>4
    <3>5. CASE r # p
      BY <1>2, <3>3, <3>5
    <3> QED BY <3>4, <3>5
  <2>3. ASSUME NEW q \in Stream', MoreData(q)
        PROVE  \/ \E r \in Stream' : Succeeds(q, r)
               \/ stage' = "out" /\ q.of = tag' /\ Key(q) = sent'
    <3>1. q \in Stream
      BY <1>2
    <3>2. CASE \E r \in Stream : Succeeds(q, r)
      BY <1>2, <3>1, <3>2, FirstOnce
    <3>3. CASE stage = "out" /\ q.of = tag /\ Key(q) = sent
      BY <1>1, <3>3
    <3> QED BY <1>1, <2>3, <3>1, <3>2, <3>3 DEF StreamWhole
  <2>4. ASSUME dataRemaining' > 0
        PROVE  \/ \E q \in Stream' : q.is = "data" /\ position' = 2 * q.at /\ First(q)'
               \/ stage' = "out" /\ position' = 2 * sent' /\ Stream' = {}
    <3>1. MoreData(p)
      BY <1>4, <1>5, <2>4 DEF MoreData
    <3>2. CASE \E q \in Stream : Succeeds(p, q)
      BY <1>7, <3>2
    <3>3. CASE stage = "out" /\ p.of = tag /\ Key(p) = sent
      BY <1>1, <1>8, <3>3
    <3> QED BY <1>1, <3>1, <3>2, <3>3 DEF StreamWhole
  <2>5. ASSUME stage' = "out"
        PROVE  /\ command' = "write" /\ sent' < Packets
               /\ \/ \E q \in Stream' : Begins(q) /\ q.of = tag' /\ Key(q) = sent'
                  \/ dataRemaining' > 0 /\ position' = 2 * sent' /\ Stream' = {}
    <3>1. command = "write" /\ sent < Packets /\ stage = "out"
      BY <1>1, <2>5 DEF StreamWhole
    <3>2. PICK q \in Stream : Begins(q) /\ q.of = tag /\ Key(q) = sent
      BY <1>1, <1>2, <3>1 DEF StreamWhole
    <3>3. CASE q = p
      BY <1>1, <1>5, <1>8, <3>1, <3>2, <3>3
    <3>4. CASE q # p
      BY <1>1, <1>2, <3>1, <3>2, <3>4
    <3> QED BY <3>3, <3>4
  <2> QED BY <2>1, <2>2, <2>3, <2>4, <2>5 DEF StreamWhole, Begins, Succeeds, MoreData, Key
<1>11. ASSUME NEW k \in 0 .. Halves - 1
       PROVE  /\ image'[k].at = k
              /\ image'[k] = image[k] \/ (image'[k].of = p.of /\ k \in position .. position + 1)
              /\ Awaited(k)' <=> k >= position'
  <2>1. k \in 0 .. Halves /\ k \in Nat
    BY <1>5
  <2>2. image'[k] = IF k \in position .. position + 1
                    THEN [of |-> p.of, at |-> 2 * p.at + k - position] ELSE image[k]
    <3>1. Length(p) = 2 /\ position + 2 - 1 = position + 1
      BY <1>4, <1>5 DEF Length
    <3> QED BY <1>4, <1>5, <2>1, <3>1 DEF Stored
  <2>3. image[k].at = k
    BY <1>1 DEF ImageAsWritten, InPlace
  <2>4. Awaited(k)' <=> k >= position'
    BY <1>5, <1>11, <2>1 DEF Awaited
  <2>5. CASE k \in position .. position + 1
    <3>1. image'[k] = [of |-> p.of, at |-> 2 * p.at + k - position]
      BY <2>2, <2>5
    <3>2. image'[k].of = p.of /\ image'[k].at = 2 * p.at + k - position
      BY <3>1
    <3> QED BY <1>4, <1>5, <2>1, <2>4, <2>5, <3>2
  <2>6. CASE k \notin position .. position + 1
    BY <2>2, <2>3, <2>4, <2>6
  <2> QED BY <2>5, <2>6
<1>12. ASSUME NEW n \in Nat, p.of >= n, NEW k \in 0 .. Halves - 1, image[k].of >= n \/ Awaited(k)
       PROVE  image'[k].of >= n \/ Awaited(k)'
  <2>1. k \in Nat
    BY <1>5
  <2>2. Awaited(k) => k >= position
    BY DEF Awaited
  <2>3. CASE image'[k] = image[k] /\ k \notin position .. position + 1
    <3>1. k >= position => k >= position'
      BY <1>4, <1>5, <2>1, <2>3
    <3> QED BY <1>11, <1>12, <2>2, <2>3, <3>1
  <2>4. CASE k \in position .. position + 1
    <3>1. image[k].of >= n => image'[k].of >= n
      BY <1>11, <1>12
    <3>2. image'[k].of = p.of \/ image'[k] = image[k]
      BY <1>11
    <3>3. image'[k].of = p.of
      <4>1. k \in 0 .. Halves /\ position + Length(p) - 1 = position + 1
        BY <1>4, <1>5, <2>1 DEF Length
      <4>2. image'[k] = [of |-> p.of, at |-> 2 * p.at + k - position]
        BY <1>4, <1>5, <2>4, <4>1 DEF Stored
      <4> QED BY <4>2
    <3> QED BY <1>12, <3>3
  <2> QED BY <1>11, <2>3, <2>4
<1>13. \A n \in Nat : p.of >= n /\ HeldSince(n) => HeldSince(n)'
  BY <1>12 DEF HeldSince, Awaited
<1>14. ImageAsWritten'
  <2>1. kept \in Nat /\ p.of >= kept
    <3>1. kept \in Nat
      BY Sizes DEF StorageTypes
    <3>2. p.of > kept \/ p.of = kept
      BY <1>1, <1>2 DEF ImageAsWritten, Passed
    <3> QED BY <1>5, <3>1, <3>2
  <2>2. HeldSince(kept)'
    <3>1. HeldSince(kept)
      BY <1>1 DEF ImageAsWritten
    <3> QED BY <1>1, <1>13, <2>1, <3>1 DEF HeldSince, Awaited
  <2>3. InPlace' /\ Passed(kept)'
    BY <1>1, <1>2, <1>11 DEF ImageAsWritten, InPlace, Passed
  <2> QED BY <1>1, <2>2, <2>3 DEF ImageAsWritten
<1>15. ASSUME NEW x \in Pieces, Honest(x) PROVE Honest(x)'
  <2> SUFFICES ASSUME x.is = "csw"
               PROVE  x.of <= tag' /\ Passed(x.of)' /\ (x.of = tag' /\ command' = "write" => HeldSince(tag)')
    BY DEF Honest, Passed
  <2>1. x.of <= tag /\ Passed(x.of) /\ (x.of = tag /\ command = "write" => HeldSince(tag))
    BY <1>15 DEF Honest
  <2>2. Passed(x.of)'
    BY <1>2, <2>1 DEF Passed
  <2>3. ASSUME x.of = tag, command = "write" PROVE HeldSince(tag)'
    <3>1. p.of >= tag
      BY <1>2, <1>5, <2>1, <2>3 DEF Passed
    <3> QED BY <1>1, <1>5, <1>13, <2>1, <2>3, <3>1 DEF HeldSince, Awaited
  <2> QED BY <1>1, <2>1, <2>2, <2>3
<1>16. AllHonest'
  <2>1. PICK S : S = {x \in Pieces : Honest(x)}
    OBVIOUS
  <2>2. PathTypes(S, LegalPackets, SectorPackets) /\ toPC # <<>> /\ toPC' = Tail(toPC)
    BY <1>1, <2>1 DEF AllHonest, Receives
  <2>3. toPC' \in Seq(FromFirmware(LegalPackets))
    BY <2>2, PacketHead
  <2>4. PathTypes(S, LegalPackets, SectorPackets)'
    BY <1>1, <2>2, <2>3 DEF PathTypes, firmware
  <2> QED BY <1>15, <2>1, <2>4, StillHonest
<1> QED BY <1>1, <1>2, <1>5, <1>9, <1>14, <1>16 DEF DiskRight

(* Of what the disk answers, the status is of the command.                 *)
LEMMA ResponseHonest ==
  ASSUME StorageTypes, NEW p \in LegalPackets, NEW c \in Commands, p.is = "command", NEW S,
         S \subseteq Pieces, \A x \in Pieces : x.is = "data" \/ x.of = p.of => x \in S
  PROVE  Response(p, c) \in Seq(Messages(S, SectorPackets))
<1>1. /\ Response(p, c) \in Seq(Messages(Pieces, SectorPackets))
      /\ DOMAIN Response(p, c) = 1 .. Len(Response(p, c))
  BY ResponseTypes
<1>2. ASSUME NEW i \in DOMAIN Response(p, c), NEW k \in DOMAIN Response(p, c)[i]
      PROVE  Response(p, c)[i][k].is = "data" \/ Response(p, c)[i][k].of = p.of
  <2>1. \A k1 \in DOMAIN Csw(p) : Csw(p)[k1].of = p.of
    BY DEF Csw, Piece
  <2>2. \A k1 \in DOMAIN Answer : Answer[k1].is = "data"
    BY DEF Answer, Piece
  <2>3. CASE Response(p, c)[i] \in {Answer, Csw(p)}
    BY <1>2, <2>1, <2>2, <2>3
  <2>4. ASSUME NEW s \in 1 .. Sectors, Response(p, c)[i] = Sector(s)
        PROVE  Response(p, c)[i][k].is = "data"
    <3>1. DOMAIN Sector(s) = 1 .. SectorPackets
      BY SectorTypes, LenProperties DEF Messages
    <3>2. Sector(s)[k] = Piece("data", 0, <<image[Bank(s, k)], image[Bank(s, k) + 1]>>)
      BY <1>2, <2>4, <3>1, SectorTypes
    <3> QED BY <2>4, <3>2 DEF Piece
  <2>5. CASE c = "read"
    <3>1. i = Sectors + 1 \/ i \in 1 .. Sectors
      BY <1>1, <1>2, <2>5, ResponseTypes, Sizes
    <3> QED BY <2>3, <2>4, <2>5, <3>1, ResponseTypes
  <2> QED BY <2>3, <2>5, ResponseTypes
<1>3. \A i \in 1 .. Len(Response(p, c)) : Response(p, c)[i] \in Messages(S, SectorPackets)
  <2> TAKE i \in 1 .. Len(Response(p, c))
  <2> DEFINE m == Response(p, c)[i]
  <2>1. m \in Seq(Pieces) /\ (Len(m) <= 1 \/ Len(m) = SectorPackets)
    BY <1>1, ElementOfSeq DEF Messages
  <2>2. DOMAIN m = 1 .. Len(m) /\ Len(m) \in Nat /\ \A k \in 1 .. Len(m) : m[k] \in Pieces
    BY <2>1, LenProperties, ElementOfSeq
  <2>3. \A k \in 1 .. Len(m) : m[k] \in S
    BY <1>1, <1>2, <2>2
  <2> HIDE DEF m
  <2>4. m \in Seq(S)
    BY <2>1, <2>2, <2>3
  <2> QED BY <2>1, <2>4 DEF Messages, m
<1>4. Response(p, c) = [i \in 1 .. Len(Response(p, c)) |-> Response(p, c)[i]] /\ Len(Response(p, c)) \in Nat
  BY <1>1, LenProperties
<1> QED BY <1>3, <1>4

(* The disk runs a command.                                                *)
LEMMA RunCommandStep ==
  ASSUME StorageTypes, StorageTypes', DiskRight, ~cut, RunCommand
  PROVE  DiskRight'
<1>1. /\ StreamInOrder /\ StreamWhole /\ ImageAsWritten /\ AllHonest /\ ~taken
      /\ dataRemaining <= 0 /\ dataRemaining \in Int /\ Receives("I")
      /\ UNCHANGED <<firmware, replying, asks, resets, resent>>
      /\ UNCHANGED <<image, command, stage, tag, sent, got, kept, wrong, cut>>
  BY Sizes DEF DiskRight, StorageTypes, RunCommand, WriteOutgoingData, transport
<1>2. PICK p \in Stream :
        /\ p = Head(toPC).data /\ p \in LegalPackets /\ First(p)
        /\ Stream' = Stream \ {p} /\ \A q \in Stream' : Before(p, q)
        /\ StreamInOrder'
  BY <1>1, PacketTaken DEF firmware
<1>3. Stream \subseteq LegalPackets
  BY StreamKnown DEF StreamFacts
<1>4. p.is = "command" /\ Key(p) = 0 /\ p.op \in Commands
  <2>1. p.is # "data"
    <3> SUFFICES ASSUME p.is = "data" PROVE FALSE
      OBVIOUS
    <3>1. \E r \in Stream : Begins(r) /\ Succeeds(r, p)
      BY <1>1, <1>2 DEF StreamWhole
    <3> QED BY <1>2, <3>1, FirstOnce
  <2> QED BY <1>2, <2>1, PacketFields
<1>5. PICK c \in Commands :
        /\ c = p.op /\ WriteOutgoingData(Response(p, c))
        /\ dataRemaining' = IF c = "write" THEN Due ELSE dataRemaining
        /\ position' = CASE c = "write" -> 0 [] c = "read" -> Halves [] OTHER -> position
        /\ taken' = (taken \/ p.is = "data")
  BY <1>2, <1>4 DEF RunCommand
<1>6. /\ ~taken' /\ Halves \in Nat /\ Packets \in Nat /\ Packets >= 1 /\ Halves = 2 * Packets
      /\ sent \in Nat /\ tag \in Nat /\ p.of \in Nat /\ kept \in Nat
      /\ c = "write" => dataRemaining' = Halves /\ dataRemaining' > 0 /\ position' = 0
      /\ c # "write" => dataRemaining' = dataRemaining
  <2>1. ~taken'
    <3>1. p.is # "data"
      BY <1>4
    <3> QED BY <1>1, <1>5, <3>1, Zenon
  <2>2. /\ Halves \in Nat /\ Packets \in Nat /\ Packets >= 1 /\ Halves = 2 * Packets
        /\ sent \in Nat /\ tag \in Nat /\ p.of \in Nat /\ kept \in Nat
    <3>1. p.of \in Nat
      BY <1>2, PacketFields
    <3>2. sent \in Nat /\ tag \in Nat /\ kept \in Nat
      BY Sizes DEF StorageTypes
    <3> QED BY <3>1, <3>2, Sizes
  <2>3. /\ c = "write" => dataRemaining' = Halves /\ position' = 0
        /\ c # "write" => dataRemaining' = dataRemaining
    BY <1>5 DEF Due
  <2> QED BY <2>1, <2>2, <2>3
<1>7. ASSUME NEW q \in Stream, Succeeds(p, q) PROVE q \in Stream' /\ First(q)' /\ q.at = 0 /\ q.is = "data"
  <2>1. q \in Stream' /\ First(q)' /\ q.is = "data"
    BY <1>1, <1>2, <1>7, NextFirst
  <2> QED BY <1>3, <1>4, <1>7, <2>1, PacketFields DEF Succeeds
<1>8. p.of = tag /\ sent = 0 => Stream' = {}
  BY <1>1, <1>2, <1>4, LastSent
<1>9. StreamWhole'
  <2>1. \A q \in Stream' : /\ q.of \in 1 .. tag'
                           /\ q.of = tag' => IF q.is = "command" THEN q.op = command' ELSE q.at < sent'
    BY <1>1, <1>2 DEF StreamWhole
  <2>2. ASSUME NEW q \in Stream', q.is = "data"
        PROVE  \/ \E r \in Stream' : Begins(r) /\ Succeeds(r, q)
               \/ dataRemaining' > 0 /\ position' = 2 * q.at /\ First(q)'
    <3>1. PICK r \in Stream : Begins(r) /\ Succeeds(r, q)
      BY <1>1, <1>2, <2>2 DEF StreamWhole
    <3>2. CASE r = p
      <4>1. c = "write"
        BY <1>4, <1>5, <3>1, <3>2 DEF Begins
      <4>2. q.at = 0 /\ First(q)'
        BY <1>2, <1>7, <3>1, <3>2
      <4> QED BY <1>6, <4>1, <4>2
    <3>3. CASE r # p
      BY <1>2, <3>1, <3>3
    <3> QED BY <3>2, <3>3
  <2>3. ASSUME NEW q \in Stream', MoreData(q)
        PROVE  \/ \E r \in Stream' : Succeeds(q, r)
               \/ stage' = "out" /\ q.of = tag' /\ Key(q) = sent'
    <3>1. q \in Stream
      BY <1>2
    <3>2. CASE \E r \in Stream : Succeeds(q, r)
      BY <1>2, <3>1, <3>2, FirstOnce
    <3>3. CASE stage = "out" /\ q.of = tag /\ Key(q) = sent
      BY <1>1, <3>3
    <3> QED BY <1>1, <2>3, <3>1, <3>2, <3>3 DEF StreamWhole
  <2>4. ASSUME dataRemaining' > 0
        PROVE  \/ \E q \in Stream' : q.is = "data" /\ position' = 2 * q.at /\ First(q)'
               \/ stage' = "out" /\ position' = 2 * sent' /\ Stream' = {}
    <3>1. c = "write" /\ position' = 0
      BY <1>1, <1>6, <2>4
    <3>2. MoreData(p)
      BY <1>4, <1>5, <3>1 DEF MoreData
    <3>3. CASE \E q \in Stream : Succeeds(p, q)
      BY <1>7, <3>1, <3>3
    <3>4. CASE stage = "out" /\ p.of = tag /\ Key(p) = sent
      BY <1>1, <1>4, <1>8, <3>1, <3>4
    <3> QED BY <1>1, <3>2, <3>3, <3>4 DEF StreamWhole
  <2>5. ASSUME stage' = "out"
        PROVE  /\ command' = "write" /\ sent' < Packets
               /\ \/ \E q \in Stream' : Begins(q) /\ q.of = tag' /\ Key(q) = sent'
                  \/ dataRemaining' > 0 /\ position' = 2 * sent' /\ Stream' = {}
    <3>1. command = "write" /\ sent < Packets /\ stage = "out"
      BY <1>1, <2>5 DEF StreamWhole
    <3>2. PICK q \in Stream : Begins(q) /\ q.of = tag /\ Key(q) = sent
      BY <1>1, <1>2, <3>1 DEF StreamWhole
    <3>3. CASE q = p
      <4>1. c = "write" /\ sent = 0 /\ p.of = tag
        BY <1>4, <1>5, <3>2, <3>3 DEF Begins
      <4> QED BY <1>1, <1>6, <1>8, <3>1, <4>1
    <3>4. CASE q # p
      BY <1>1, <1>2, <3>1, <3>2, <3>4
    <3> QED BY <3>3, <3>4
  <2> QED BY <2>1, <2>2, <2>3, <2>4, <2>5 DEF StreamWhole, Begins, Succeeds, MoreData, Key
<1>10. \A n : HeldSince(n) => HeldSince(n)'
  <2>1. \A k \in 0 .. Halves - 1 : ~Awaited(k)
    BY <1>1 DEF Awaited
  <2> QED BY <1>1, <2>1 DEF HeldSince
<1>11. \A n : Passed(n) => Passed(n)'
  BY <1>2 DEF Passed
<1>12. ImageAsWritten'
  <2>1. HeldSince(kept) /\ Passed(kept)
    BY <1>1 DEF ImageAsWritten
  <2>2. HeldSince(kept)' /\ Passed(kept)'
    BY <1>1, <1>10, <1>11, <2>1 DEF HeldSince, Awaited, Passed
  <2> QED BY <1>1, <2>2 DEF ImageAsWritten, InPlace
<1>13. \A x \in Pieces : Honest(x) => Honest(x)'
  <2> SUFFICES ASSUME NEW x \in Pieces, Honest(x), x.is = "csw"
               PROVE  x.of <= tag' /\ Passed(x.of)' /\ (x.of = tag' /\ command' = "write" => HeldSince(tag)')
    BY DEF Honest, Passed
  <2>1. x.of <= tag /\ Passed(x.of) /\ (x.of = tag /\ command = "write" => HeldSince(tag))
    BY DEF Honest
  <2> QED BY <1>1, <1>10, <1>11, <2>1 DEF HeldSince, Awaited
<1>14. Passed(p.of)' /\ p.of <= tag
  <2>1. ASSUME NEW q \in Stream' PROVE q.of > p.of \/ (q.of = p.of /\ q.is = "data")
    <3>1. q \in LegalPackets /\ Before(p, q)
      BY <1>2, <1>3
    <3> QED BY <1>4, <3>1, PacketFields DEF Before
  <2>2. p.of \in 1 .. tag
    BY <1>1, <1>2 DEF StreamWhole
  <2>3. Passed(p.of)'
    BY <2>1 DEF Passed
  <2> QED BY <1>6, <2>2, <2>3
<1>15. p.of = tag /\ command = "write" => HeldSince(tag)'
  <2>1. p.of = tag /\ command = "write" => c = "write"
    BY <1>1, <1>2, <1>4, <1>5 DEF StreamWhole
  <2>2. c = "write" => \A k \in 0 .. Halves - 1 : Awaited(k)'
    BY <1>6 DEF Awaited
  <2> QED BY <2>1, <2>2 DEF HeldSince
<1>16. \A x \in Pieces : x.is = "csw" /\ x.of = p.of => Honest(x)'
  <2> SUFFICES ASSUME NEW x \in Pieces, x.is = "csw", x.of = p.of
               PROVE  x.of <= tag' /\ Passed(x.of)' /\ (x.of = tag' /\ command' = "write" => HeldSince(tag)')
    BY DEF Honest, Passed
  <2> QED BY <1>1, <1>14, <1>15 DEF HeldSince, Awaited
<1>17. AllHonest'
  <2>1. PICK S : S = {x \in Pieces : Honest(x)'}
    OBVIOUS
  <2>2. PathTypes({x \in Pieces : Honest(x)}, LegalPackets, SectorPackets)
    BY <1>1 DEF AllHonest
  <2>3. {x \in Pieces : Honest(x)} \subseteq S
    BY <1>13, <2>1
  <2>4. PathTypes(S, LegalPackets, SectorPackets)
    <3>1. PICK R : R = {x \in Pieces : Honest(x)}
      OBVIOUS
    <3>2. PathTypes(R, LegalPackets, SectorPackets) /\ R \subseteq S
      BY <2>2, <2>3, <3>1
    <3> QED BY <3>2, Wider DEF PathTypes
  <2>5. toPC' \in Seq(FromFirmware(LegalPackets))
    BY DEF StorageTypes, PathTypes
  <2>6. Response(p, c) \in Seq(Messages(S, SectorPackets)) /\ SectorPackets \in Nat
    <3>1. S \subseteq Pieces
      BY <2>1
    <3>2. \A x \in Pieces : x.is = "data" \/ x.of = p.of => x \in S
      <4> TAKE x \in Pieces
      <4>1. x.is \in {"data", "csw"}
        BY DEF Pieces
      <4>2. x.is = "data" => Honest(x)'
        BY DEF Honest
      <4> QED BY <1>16, <2>1, <4>1, <4>2
    <3> QED BY <1>2, <1>4, <3>1, <3>2, ResponseHonest, Sizes
  <2>7. PathTypes(S, LegalPackets, SectorPackets)'
    BY <1>1, <1>5, <2>4, <2>5, <2>6, WrittenTypes
  <2> QED BY <2>1, <2>7, StillHonest
<1> QED BY <1>1, <1>2, <1>6, <1>9, <1>12, <1>17 DEF DiskRight

(* The host issues a command, when the one before is over.                 *)
LEMMA HostCommandsStep ==
  ASSUME StorageTypes, StorageTypes', DiskRight, ~cut, HostCommands
  PROVE  DiskRight'
<1>1. /\ StreamInOrder /\ StreamWhole /\ ImageAsWritten /\ AllHonest /\ ~taken
      /\ stage = "idle" /\ tag' = tag + 1 /\ sent' = 0 /\ got' = <<>>
      /\ UNCHANGED <<dataRemaining, position, image, kept, wrong, taken, cut>>
  BY DEF DiskRight, HostCommands, disk
<1>2. PICK c \in Commands :
        /\ HostSends([is |-> "command", op |-> c, of |-> tag + 1, at |-> 0])
        /\ command' = c
        /\ stage' = CASE c = "write" -> "out" [] c \in {"read", "inquiry"} -> "in" [] OTHER -> "status"
  BY DEF HostCommands
<1>3. PICK p : p = [is |-> "command", op |-> c, of |-> tag + 1, at |-> 0]
  OBVIOUS
<1>4. /\ HostSends(p) /\ p.is = "command" /\ p.op = c /\ p.of = tag + 1 /\ Key(p) = 0
      /\ open /\ UNCHANGED <<open, queue, bank>>
  BY <1>2, <1>3 DEF HostSends, Key
<1>5. tag \in Nat /\ kept \in Nat /\ Halves \in Nat /\ Packets \in Nat /\ Packets >= 1
  BY Sizes DEF StorageTypes
<1>6. \A q \in Stream : q.of \in Nat /\ q.of <= tag /\ q.of >= 1
  <2>1. \A q \in Stream : q.of \in 1 .. tag
    BY <1>1 DEF StreamWhole
  <2> QED BY <1>5, <2>1
<1>7. \A q \in Stream : Before(q, p)
  BY <1>4, <1>5, <1>6 DEF Before
<1>8. Stream' = Stream \cup {p} /\ StreamInOrder'
  BY <1>1, <1>4, <1>7, PacketSent
<1>9. \A q \in Stream : First(q) => First(q)'
  <2> SUFFICES ASSUME NEW q \in Stream, First(q) PROVE \A r \in Stream' : r = q \/ Before(q, r)
    BY DEF First, Before, Key
  <2> QED BY <1>7, <1>8 DEF First
<1>10. StreamWhole'
  <2>1. \A q \in Stream' : /\ q.of \in 1 .. tag'
                           /\ q.of = tag' => IF q.is = "command" THEN q.op = command' ELSE q.at < sent'
    <3> SUFFICES ASSUME NEW q \in Stream'
                 PROVE  q.of \in 1 .. tag + 1 /\ (q.of = tag + 1 => q = p)
      BY <1>1, <1>2, <1>4
    <3> QED BY <1>4, <1>5, <1>6, <1>8
  <2>2. ASSUME NEW q \in Stream', q.is = "data"
        PROVE  \/ \E r \in Stream' : Begins(r) /\ Succeeds(r, q)
               \/ dataRemaining' > 0 /\ position' = 2 * q.at /\ First(q)'
    <3>1. q \in Stream
      BY <1>4, <1>8, <2>2
    <3> QED BY <1>1, <1>8, <1>9, <2>2, <3>1 DEF StreamWhole
  <2>3. ASSUME NEW q \in Stream', MoreData(q)
        PROVE  \/ \E r \in Stream' : Succeeds(q, r)
               \/ stage' = "out" /\ q.of = tag' /\ Key(q) = sent'
    <3>1. CASE q = p
      BY <1>1, <1>2, <1>4, <2>3, <3>1 DEF MoreData
    <3>2. CASE q \in Stream
      BY <1>1, <1>8, <2>3, <3>2 DEF StreamWhole
    <3> QED BY <1>8, <3>1, <3>2
  <2>4. ASSUME dataRemaining' > 0
        PROVE  \E q \in Stream' : q.is = "data" /\ position' = 2 * q.at /\ First(q)'
    <3>1. PICK q \in Stream : q.is = "data" /\ position = 2 * q.at /\ First(q)
      BY <1>1, <2>4 DEF StreamWhole
    <3> QED BY <1>1, <1>8, <1>9, <3>1
  <2>5. ASSUME stage' = "out"
        PROVE  /\ command' = "write" /\ sent' < Packets
               /\ \E q \in Stream' : Begins(q) /\ q.of = tag' /\ Key(q) = sent'
    <3>1. c = "write"
      BY <1>2, <2>5
    <3> QED BY <1>1, <1>2, <1>4, <1>5, <1>8, <3>1 DEF Begins
  <2> QED BY <2>1, <2>2, <2>3, <2>4, <2>5 DEF StreamWhole, Begins, Succeeds, MoreData, Key
<1>11. \A n \in Nat : n <= tag /\ Passed(n) => Passed(n)'
  BY <1>4, <1>5, <1>8 DEF Passed
<1>12. ImageAsWritten'
  <2>1. kept <= tag /\ Passed(kept)
    BY <1>1 DEF ImageAsWritten
  <2>2. kept' <= tag' /\ Passed(kept)'
    <3>1. PICK n \in Nat : n = kept
      BY <1>5
    <3>2. n <= tag + 1 /\ Passed(n)'
      BY <1>5, <1>11, <2>1, <3>1
    <3> QED BY <1>1, <3>1, <3>2 DEF Passed
  <2> QED BY <1>1, <2>2 DEF ImageAsWritten, InPlace, HeldSince, Awaited
<1>13. ASSUME NEW x \in Pieces, Honest(x) PROVE Honest(x)'
  <2> SUFFICES ASSUME x.is = "csw" PROVE x.of <= tag' /\ Passed(x.of)' /\ x.of # tag'
    BY DEF Honest, Passed
  <2>1. x.of \in 0 .. MaxCommands /\ x.of <= tag /\ Passed(x.of)
    BY <1>13 DEF Honest, Pieces
  <2>2. x.of \in Nat /\ x.of <= tag + 1 /\ x.of # tag + 1
    BY <1>5, <2>1, Sizes
  <2> QED BY <1>1, <1>11, <2>1, <2>2
<1>14. AllHonest'
  <2>1. p \in LegalPackets
    <3>1. p \in Stream'
      BY <1>8
    <3> QED BY <3>1, StreamKnownNext DEF StreamFacts
  <2> QED BY <1>1, <1>4, <1>13, <2>1, HonestThrough
<1> QED BY <1>1, <1>8, <1>10, <1>12, <1>14 DEF DiskRight

(* The host sends the next packet of a write's data.                       *)
LEMMA HostSendsDataStep ==
  ASSUME StorageTypes, StorageTypes', DiskRight, ~cut, HostSendsData
  PROVE  DiskRight'
<1>1. /\ StreamInOrder /\ StreamWhole /\ ImageAsWritten /\ AllHonest /\ ~taken
      /\ stage = "out" /\ sent' = sent + 1 /\ stage' = IF sent + 1 = Packets THEN "status" ELSE "out"
      /\ UNCHANGED <<dataRemaining, position, image, command, tag, got, kept, wrong, taken, cut>>
  BY DEF DiskRight, HostSendsData, disk
<1>2. PICK p : p = [is |-> "data", op |-> "write", of |-> tag, at |-> sent]
  OBVIOUS
<1>3. /\ HostSends(p) /\ p.is = "data" /\ p.of = tag /\ p.at = sent /\ Key(p) = sent + 1
      /\ UNCHANGED <<open, queue, bank>>
  BY <1>2 DEF HostSends, HostSendsData, Key
<1>4. /\ tag \in Nat /\ kept \in Nat /\ Halves \in Nat /\ Packets \in Nat /\ Packets >= 1 /\ sent \in Nat
      /\ command = "write" /\ sent < Packets
  BY <1>1, Sizes DEF StorageTypes, StreamWhole
<1>5. Stream \subseteq LegalPackets
  BY StreamKnown DEF StreamFacts
<1>6. ASSUME NEW q \in Stream
      PROVE  /\ Before(q, p) /\ q.of \in 1 .. tag
             /\ q.of = tag => IF q.is = "command" THEN q.op = command ELSE q.at < sent
  <2>1. /\ q.of \in 1 .. tag
        /\ q.of = tag => IF q.is = "command" THEN q.op = command ELSE q.at < sent
    BY <1>1, <1>6 DEF StreamWhole
  <2>2. q.of \in Nat /\ q.of <= tag
    BY <1>4, <2>1
  <2>3. CASE q.of = tag
    <3>1. Key(q) < sent + 1
      BY <1>4, <1>5, <1>6, <2>1, <2>3, PacketFields
    <3> QED BY <1>3, <2>1, <2>3, <3>1 DEF Before
  <2> QED BY <1>3, <1>4, <2>1, <2>2, <2>3 DEF Before
<1>7. Stream' = Stream \cup {p} /\ StreamInOrder'
  BY <1>1, <1>3, <1>6, PacketSent
<1>8. \A q \in Stream : First(q) => First(q)'
  <2> SUFFICES ASSUME NEW q \in Stream, First(q) PROVE \A r \in Stream' : r = q \/ Before(q, r)
    BY DEF First, Before, Key
  <2> QED BY <1>6, <1>7 DEF First
<1>9. Stream = {} => First(p)'
  BY <1>7 DEF First
<1>11. p \in Stream' /\ p.of \in 1 .. tag
  <2>1. tag >= 1
    BY <1>1 DEF StorageTypes
  <2> QED BY <1>3, <1>4, <1>7, <2>1
<1>12. StreamWhole'
  <2>1. ASSUME NEW q \in Stream'
        PROVE  /\ q.of \in 1 .. tag
               /\ q.of = tag => IF q.is = "command" THEN q.op = command ELSE q.at < sent + 1
    <3>1. CASE q = p
      BY <1>3, <1>4, <1>11, <3>1
    <3>2. CASE q \in Stream
      <4>1. q.is # "command" => q.at \in Nat
        BY <1>5, <3>2, PacketFields
      <4> QED BY <1>4, <1>6, <3>2, <4>1
    <3> QED BY <1>7, <3>1, <3>2
  <2>2. ASSUME NEW q \in Stream', q.is = "data"
        PROVE  \/ \E r \in Stream' : Begins(r) /\ Succeeds(r, q)
               \/ dataRemaining' > 0 /\ position' = 2 * q.at /\ First(q)'
    <3>1. CASE q = p
      <4>1. CASE \E r \in Stream : Begins(r) /\ r.of = tag /\ Key(r) = sent
        BY <1>3, <1>7, <3>1, <4>1 DEF Succeeds
      <4>2. CASE dataRemaining > 0 /\ position = 2 * sent /\ Stream = {}
        BY <1>1, <1>3, <1>9, <3>1, <4>2
      <4> QED BY <1>1, <4>1, <4>2 DEF StreamWhole
    <3>2. CASE q \in Stream
      BY <1>1, <1>7, <1>8, <2>2, <3>2 DEF StreamWhole
    <3> QED BY <1>7, <3>1, <3>2
  <2>3. ASSUME NEW q \in Stream', MoreData(q)
        PROVE  \/ \E r \in Stream' : Succeeds(q, r)
               \/ stage' = "out" /\ q.of = tag' /\ Key(q) = sent'
    <3>1. CASE q = p
      <4>1. sent + 1 < Packets
        BY <1>3, <2>3, <3>1 DEF MoreData
      <4> QED BY <1>1, <1>3, <1>4, <3>1, <4>1
    <3>2. CASE q \in Stream
      <4>1. CASE \E r \in Stream : Succeeds(q, r)
        BY <1>7, <4>1
      <4>2. CASE q.of = tag /\ Key(q) = sent
        BY <1>3, <1>11, <4>2 DEF Succeeds
      <4> QED BY <1>1, <2>3, <3>2, <4>1, <4>2 DEF StreamWhole
    <3> QED BY <1>7, <3>1, <3>2
  <2>4. ASSUME dataRemaining' > 0
        PROVE  \E q \in Stream' : q.is = "data" /\ position' = 2 * q.at /\ First(q)'
    <3>1. CASE \E q \in Stream : q.is = "data" /\ position = 2 * q.at /\ First(q)
      BY <1>1, <1>7, <1>8, <3>1
    <3>2. CASE position = 2 * sent /\ Stream = {}
      BY <1>1, <1>3, <1>9, <1>11, <3>2
    <3> QED BY <1>1, <2>4, <3>1, <3>2 DEF StreamWhole
  <2>5. ASSUME stage' = "out"
        PROVE  /\ command' = "write" /\ sent' < Packets
               /\ \E q \in Stream' : Begins(q) /\ q.of = tag' /\ Key(q) = sent'
    <3>1. sent + 1 < Packets
      BY <1>1, <1>4, <2>5
    <3>2. Begins(p)
      BY <1>3 DEF Begins
    <3> QED BY <1>1, <1>3, <1>4, <1>11, <3>1, <3>2
  <2>6. \A q \in Stream' : /\ q.of \in 1 .. tag'
                           /\ q.of = tag' => IF q.is = "command" THEN q.op = command' ELSE q.at < sent'
    BY <1>1, <2>1
  <2> QED BY <2>2, <2>3, <2>4, <2>5, <2>6 DEF StreamWhole, Begins, Succeeds, MoreData, Key
<1>13. \A n \in Nat : n <= tag /\ Passed(n) => Passed(n)'
  BY <1>3, <1>4, <1>7 DEF Passed
<1>14. ImageAsWritten'
  <2>1. kept <= tag /\ Passed(kept)
    BY <1>1 DEF ImageAsWritten
  <2>2. Passed(kept)'
    <3>1. PICK n \in Nat : n = kept
      BY <1>4
    <3>2. Passed(n)'
      BY <1>13, <2>1, <3>1
    <3> QED BY <1>1, <3>1, <3>2 DEF Passed
  <2> QED BY <1>1, <2>2 DEF ImageAsWritten, InPlace, HeldSince, Awaited, Passed
<1>15. ASSUME NEW x \in Pieces, Honest(x) PROVE Honest(x)'
  <2> SUFFICES ASSUME x.is = "csw"
               PROVE  x.of <= tag' /\ Passed(x.of)' /\ (x.of = tag' /\ command' = "write" => HeldSince(tag)')
    BY DEF Honest, Passed
  <2>1. x.of \in 0 .. MaxCommands /\ x.of <= tag /\ Passed(x.of) /\ (x.of = tag /\ command = "write" => HeldSince(tag))
    BY <1>15 DEF Honest, Pieces
  <2>2. Passed(x.of)'
    BY <1>13, <2>1, Sizes
  <2> QED BY <1>1, <2>1, <2>2 DEF HeldSince, Awaited
<1>16. AllHonest'
  <2>1. p \in LegalPackets
    BY <1>11, StreamKnownNext DEF StreamFacts
  <2> QED BY <1>1, <1>3, <1>15, <2>1, HonestThrough
<1> QED BY <1>1, <1>7, <1>12, <1>14, <1>16 DEF DiskRight

-----------------------------------------------------------------------------
(* The host reads a piece.                                                 *)
LEMMA HostReadsDataStep ==
  ASSUME StorageTypes, StorageTypes', DiskRight, ~cut, HostReadsData
  PROVE  DiskRight'
<1>1. /\ StreamInOrder /\ StreamWhole /\ ImageAsWritten /\ AllHonest /\ ~taken
      /\ stage = "in" /\ stage' \in {"in", "status"} /\ HostReads /\ UNCHANGED <<toPC, out>>
      /\ UNCHANGED <<dataRemaining, position, image, command, tag, sent, kept, taken, cut>>
  BY DEF DiskRight, HostReadsData, HostReads, disk
<1>2. Stream' = Stream /\ StreamInOrder'
  BY <1>1, StreamSame
<1>3. StreamWhole' /\ ImageAsWritten'
  BY <1>1, <1>2, WholeSame, ImageSame
<1>4. AllHonest'
  BY <1>1, <1>2, ImageSame, HonestThrough
<1> QED BY <1>1, <1>2, <1>3, <1>4 DEF DiskRight

LEMMA HostReadsStatusStep ==
  ASSUME StorageTypes, StorageTypes', DiskRight, ~cut, HostReadsStatus
  PROVE  DiskRight'
<1>1. /\ StreamInOrder /\ StreamWhole /\ ImageAsWritten /\ AllHonest /\ ~taken
      /\ stage = "status" /\ stage' \in {"idle", "error"} /\ HostReads /\ bank # <<>> /\ UNCHANGED <<toPC, out>>
      /\ UNCHANGED <<dataRemaining, position, image, command, tag, sent, taken, cut>>
  BY DEF DiskRight, HostReadsStatus, HostReads, disk
<1>2. Stream' = Stream /\ StreamInOrder'
  BY <1>1, StreamSame
<1>3. StreamWhole'
  BY <1>1, <1>2, WholeSame
<1>4. AllHonest'
  BY <1>1, <1>2, ImageSame, HonestThrough
<1>5. kept' = kept \/ (bank[1].is = "csw" /\ bank[1].of = tag /\ command = "write" /\ kept' = tag)
  BY DEF HostReadsStatus
<1>6. ImageAsWritten'
  <2>1. CASE kept' = kept
    BY <1>1, <1>2, <2>1, ImageSame
  <2>2. CASE bank[1].is = "csw" /\ bank[1].of = tag /\ command = "write" /\ kept' = tag
    <3>1. Honest(bank[1])
      BY <1>1 DEF AllHonest, PathTypes, AtMostOne
    <3>2. HeldSince(tag) /\ Passed(tag) /\ tag <= tag
      BY <2>2, <3>1 DEF Honest
    <3>3. HeldSince(kept)' /\ Passed(kept)' /\ kept' <= tag'
      BY <1>1, <1>2, <2>2, <3>2 DEF HeldSince, Passed, Awaited
    <3> QED BY <1>1, <3>3 DEF ImageAsWritten, InPlace
  <2> QED BY <1>5, <2>1, <2>2
<1> QED BY <1>1, <1>2, <1>3, <1>4, <1>6 DEF DiskRight

(* A reset that does not fall into a write. *)
LEMMA HostRecoversStep ==
  ASSUME StorageTypes, StorageTypes', DiskRight, HostRecovers
  PROVE  DiskRight'
<1> SUFFICES ASSUME ~cut'
             PROVE  StreamInOrder' /\ StreamWhole' /\ ImageAsWritten' /\ AllHonest' /\ ~taken'
  BY DEF DiskRight
<1>1. ~cut /\ stage # "out" /\ (out # <<>> => out[1].is # "data")
  <2>1. cut' = (cut \/ stage = "out" \/ (out # <<>> /\ out[1].is = "data"))
    BY DEF HostRecovers
  <2> QED BY <2>1, Zenon
<1>2. /\ StreamInOrder /\ StreamWhole /\ ImageAsWritten /\ AllHonest /\ ~taken
      /\ HostResets /\ out' = <<>> /\ stage' = "idle" /\ UNCHANGED toPC
      /\ UNCHANGED <<dataRemaining, position, image, command, tag, sent, got, kept, wrong, taken>>
  BY <1>1 DEF DiskRight, HostRecovers, HostResets, disk
<1>4. /\ StreamInOrder' /\ Stream' \subseteq Stream
      /\ out = <<>> => Stream' = Stream
      /\ out # <<>> => Stream = Stream' \cup {out[1]} /\ \A q \in Stream' : Before(q, out[1])
  BY <1>2, PacketDropped
<1>5. Stream \subseteq LegalPackets
  BY StreamKnown DEF StreamFacts
<1>6. ASSUME NEW r \in Stream, r \notin Stream'
      PROVE  r.is = "command" /\ Key(r) = 0 /\ \A q \in Stream' : Before(q, r)
  <2>1. out # <<>> /\ r = out[1]
    BY <1>4, <1>6
  <2> QED BY <1>1, <1>4, <1>5, <1>6, <2>1, PacketFields
<1>7. \A q \in Stream : First(q) => First(q)'
  <2> SUFFICES ASSUME NEW q \in Stream, First(q) PROVE \A r \in Stream' : r = q \/ Before(q, r)
    BY DEF First, Before, Key
  <2> QED BY <1>4 DEF First
<1>8. StreamWhole'
  <2>1. ASSUME NEW q \in Stream', q.is = "data"
        PROVE  \/ \E r \in Stream' : Begins(r) /\ Succeeds(r, q)
               \/ dataRemaining' > 0 /\ position' = 2 * q.at /\ First(q)'
    <3>1. q \in Stream
      BY <1>4
    <3>2. ASSUME NEW r \in Stream, Begins(r), Succeeds(r, q) PROVE r \in Stream'
      <4>1. q \in LegalPackets /\ r \in LegalPackets
        BY <1>5, <3>1
      <4>2. Before(r, q) /\ ~Before(q, r)
        BY <3>2, <4>1, PacketFields, BeforeOrder DEF Succeeds, Before
      <4> QED BY <1>6, <4>2
    <3> QED BY <1>2, <1>7, <2>1, <3>1, <3>2 DEF StreamWhole
  <2>2. ASSUME NEW q \in Stream', MoreData(q) PROVE \E r \in Stream' : Succeeds(q, r)
    <3>1. PICK r \in Stream : Succeeds(q, r)
      BY <1>1, <1>2, <1>4, <2>2 DEF StreamWhole
    <3>2. Key(r) # 0
      BY <1>4, <1>5, <3>1, PacketFields DEF Succeeds
    <3> QED BY <1>6, <3>1, <3>2
  <2>3. ASSUME dataRemaining' > 0
        PROVE  \E q \in Stream' : q.is = "data" /\ position' = 2 * q.at /\ First(q)'
    <3>1. PICK q \in Stream : q.is = "data" /\ position = 2 * q.at /\ First(q)
      BY <1>1, <1>2, <2>3 DEF StreamWhole
    <3> QED BY <1>2, <1>6, <1>7, <3>1
  <2>4. \A q \in Stream' : /\ q.of \in 1 .. tag'
                           /\ q.of = tag' => IF q.is = "command" THEN q.op = command' ELSE q.at < sent'
    BY <1>2, <1>4 DEF StreamWhole
  <2> QED BY <1>2, <2>1, <2>2, <2>3, <2>4 DEF StreamWhole, Begins, Succeeds, MoreData, Key
<1>9. \A n : Passed(n) => Passed(n)'
  BY <1>4 DEF Passed
<1>10. ImageAsWritten'
  <2>1. Passed(kept)' /\ HeldSince(kept)'
    <3>1. Passed(kept) /\ HeldSince(kept)
      BY <1>2 DEF ImageAsWritten
    <3> QED BY <1>2, <1>4, <3>1 DEF Passed, HeldSince, Awaited
  <2> QED BY <1>2, <2>1 DEF ImageAsWritten, InPlace
<1>11. ASSUME NEW x \in Pieces, Honest(x) PROVE Honest(x)'
  <2> SUFFICES ASSUME x.is = "csw"
               PROVE  x.of <= tag' /\ Passed(x.of)' /\ (x.of = tag' /\ command' = "write" => HeldSince(tag)')
    BY DEF Honest, Passed
  <2>1. x.of <= tag /\ Passed(x.of) /\ (x.of = tag /\ command = "write" => HeldSince(tag))
    BY <1>11 DEF Honest
  <2>2. Passed(x.of)'
    BY <1>9, <2>1
  <2>3. HeldSince(tag) => HeldSince(tag)'
    BY <1>2 DEF HeldSince, Awaited
  <2> QED BY <1>2, <2>1, <2>2, <2>3
<1>12. AllHonest'
  BY <1>2, <1>11, HonestThrough
<1> QED BY <1>2, <1>4, <1>8, <1>10, <1>12

LEMMA StorageStepRight ==
  ASSUME StorageTypes, StorageTypes', DiskRight, StorageNext
  PROVE  DiskRight'
<1>1. CASE HostRecovers
  BY <1>1, HostRecoversStep
<1>2. CASE StorageRequested
  BY <1>2, QuietDisk DEF StorageRequested
<1>3. CASE StoreData \/ RunCommand \/ HostSendsData \/ HostReadsData \/ HostReadsStatus \/ HostCommands
  <2>1. cut' = cut
    BY <1>3 DEF StoreData, RunCommand, HostSendsData, HostReadsData, HostReadsStatus, HostCommands, transport
  <2>2. CASE cut
    BY <2>1, <2>2 DEF DiskRight
  <2>3. CASE ~cut
    BY <1>3, <2>3, StoreDataStep, RunCommandStep, HostSendsDataStep, HostReadsDataStep,
       HostReadsStatusStep, HostCommandsStep
  <2> QED BY <2>2, <2>3
<1> QED BY <1>1, <1>2, <1>3 DEF StorageNext, StorageSteps

(* No packet is taken for what it is not, and the disk holds every half in *)
(* its place, of the last write that completed for the host or of a later  *)
(* one, but for the data that is still to come.                            *)
Holds == ~taken /\ InPlace /\ HeldSince(kept)
DiskHolds == ~cut => Holds
DiskSafe == Types /\ (IF device = "storage" THEN DiskRight ELSE Holds)

LEMMA DiskInit == Init => DiskSafe
<1> SUFFICES ASSUME Init PROVE DiskSafe
  OBVIOUS
<1>1. StorageInit /\ Types /\ StorageTypes
  BY KeyboardInitTypes, StorageInitTypes DEF Init, Types
<1>2. Stream = {} /\ toPC = <<>> /\ out = <<>> /\ queue = <<>> /\ rest = <<>> /\ bank = <<>> /\ lost = {}
  BY <1>1 DEF StorageInit, PathInit, Stream
<1>3. /\ dataRemaining = 0 /\ stage = "idle" /\ kept = 0 /\ tag = 0 /\ ~taken
      /\ \A k \in 0 .. Halves : image[k] = [of |-> 0, at |-> k]
  BY <1>1 DEF StorageInit
<1>4. Holds
  <2>1. ASSUME NEW k \in 0 .. Halves - 1 PROVE image[k].at = k /\ image[k].of = 0
    <3>1. k \in 0 .. Halves
      BY Sizes
    <3>2. image[k] = [of |-> 0, at |-> k]
      BY <1>3, <3>1
    <3> QED BY <3>2
  <2> QED BY <1>3, <2>1 DEF Holds, InPlace, HeldSince
<1>5. StreamInOrder /\ StreamWhole /\ ImageAsWritten
  BY <1>2, <1>3, <1>4 DEF StreamInOrder, StreamWhole, ImageAsWritten, Passed, Holds
<1>6. AllHonest
  BY <1>1, PathInitTypes, Sizes DEF StorageInit, AllHonest
<1> QED BY <1>1, <1>3, <1>4, <1>5, <1>6 DEF DiskSafe, DiskRight

LEMMA DiskStep == DiskSafe /\ [Next]_vars => DiskSafe'
<1> SUFFICES ASSUME DiskSafe, [Next]_vars PROVE DiskSafe'
  OBVIOUS
<1>1. device' = device /\ Types /\ Types'
  BY TypesKept DEF Next, Keyboard, Storage, Either, vars, DiskSafe
<1>2. CASE device # "storage"
  <2>1. UNCHANGED storage
    BY <1>1, <1>2 DEF Types, Next, Keyboard, Storage, Either, vars
  <2>2. UNCHANGED <<taken, image, kept, dataRemaining, position>>
    BY <2>1 DEF storage, disk, transport
  <2>3. Holds'
    BY <1>2, <2>2 DEF DiskSafe, Holds, InPlace, HeldSince, Awaited
  <2> QED BY <1>1, <1>2, <2>3 DEF DiskSafe
<1>3. CASE device = "storage"
  <2>1. StorageTypes /\ StorageTypes' /\ DiskRight
    BY <1>1, <1>3 DEF DiskSafe, Types
  <2>2. CASE UNCHANGED vars
    <3>1. /\ UNCHANGED <<toPC, out, queue, bank, rest, lost, open, waiting, replying, replied, nested>>
          /\ UNCHANGED <<receiver, asks, resets, resent>>
          /\ UNCHANGED <<dataRemaining, position, image, command, stage, tag, sent, kept, taken, cut>>
      BY <2>2 DEF vars, path, firmware, storage, disk, transport
    <3>2. Stream' = Stream
      BY <3>1 DEF Stream
    <3> SUFFICES ASSUME ~cut PROVE StreamInOrder' /\ StreamWhole' /\ ImageAsWritten' /\ AllHonest' /\ ~taken'
      BY <1>1, <1>3, <3>1 DEF DiskSafe, DiskRight
    <3>3. StreamInOrder /\ StreamWhole /\ ImageAsWritten /\ AllHonest /\ ~taken
      BY <2>1 DEF DiskRight
    <3>4. StreamInOrder'
      BY <3>1, <3>3 DEF StreamInOrder, Before, Key
    <3>5. AllHonest'
      <4>1. PICK S : S = {x \in Pieces : Honest(x)}
        OBVIOUS
      <4>2. PathTypes(S, LegalPackets, SectorPackets)
        BY <3>3, <4>1 DEF AllHonest
      <4>3. PathTypes(S, LegalPackets, SectorPackets)'
        BY <3>1, <4>2 DEF PathTypes
      <4> QED BY <3>1, <3>2, <4>1, <4>3, StillHonest, ImageSame
    <3> QED BY <3>1, <3>2, <3>3, <3>4, <3>5, WholeSame, ImageSame
  <2>3. CASE Next
    <3>1. StorageNext \/ ((PcReader \/ Firmware \/ HostConfigures \/ HostAsks) /\ UNCHANGED storage)
      BY <1>3, <2>3 DEF Next, Keyboard, Storage, Either
    <3>2. DiskRight'
      BY <2>1, <3>1, StorageStepRight, QuietDisk
    <3> QED BY <1>1, <1>3, <3>2 DEF DiskSafe
  <2> QED BY <2>2, <2>3
<1> QED BY <1>2, <1>3

(* What the disk holds, for every size of the image and every number of    *)
(* commands, requests and resets, and whatever is refused, repeated, torn  *)
(* or overwritten on the way to the host.                                  *)
THEOREM DiskHoldsWhatWasWritten == Spec => []DiskHolds
<1>1. DiskSafe => DiskHolds
  BY DEF DiskSafe, DiskHolds, DiskRight, Holds, ImageAsWritten
<1> QED BY <1>1, DiskInit, DiskStep, PTL DEF Spec
=============================================================================
