--------------------------- MODULE LinkOrderProofs ---------------------------
(***************************************************************************)
(* Proofs about what crosses the link of Link, for every number of         *)
(* requests, pieces of data, failed writes, resets and banks: replies are  *)
(* on their way as long as they are waited for, data stays in order, and   *)
(* none is forgotten before it is sent; without data and resets, requests  *)
(* are served as ControlService says.                                      *)
(***************************************************************************)
EXTENDS LinkProofs, FiniteSetTheorems

(* What finishes the question and the refusals: the packets of these names. *)
SendsRight ==
  /\ task \in {"nackU", "nackD"} => tx.cmd = "E"
  /\ task = "sendU" => tx.cmd = "U"
  /\ task = "sendD" => tx.cmd = "D"
  /\ rx \in {"partial", "shifted"} => toSim # <<>>

(* The PC has still to read the question for cmd, and no acknowledgement   *)
(* after it; or it has, and the reply to it is somewhere on its way.  What *)
(* is left of a packet when bytesSoFar has been set to 0 is none.          *)
Asked(cmd) == \E i \in DOMAIN toPC :
                /\ toPC[i].cmd = cmd
                /\ \A j \in DOMAIN toPC : j > i => toPC[j].cmd # "A"
NoAck == \A j \in DOMAIN toPC : toPC[j].cmd # "A"
Ready(m, cmd) == m.data.cmd = cmd /\ m.status = "ReadyToSend"
Arriving(cmd) ==
  \/ replying # <<>> /\ Head(replying).cmd = cmd
  \/ \E i \in DOMAIN messages : Ready(messages[i], cmd)
  \/ \E i \in DOMAIN toSim : toSim[i].cmd = cmd /\ (rx = "shifted" => i > 1)
  \/ rx = "full" /\ buffer.cmd = cmd
OnTheWay(cmd) == Asked(cmd) \/ (NoAck /\ Arriving(cmd))

(* While refusing, and waiting. *)
WaitsFor(cmd) == IF cmd = "U" THEN {"nackU", "waitU"} ELSE {"nackD", "waitD"}
WayInv == lost = 0 => \A cmd \in {"U", "D"} : task \in WaitsFor(cmd) => OnTheWay(cmd)

(* Refusals and replies are never about data, so data is sent once. *)
RefusalsOK ==
  /\ tx.cmd = "E" => tx.want \in {"U", "D"}
  /\ \A i \in DOMAIN toPC : toPC[i].cmd = "E" => toPC[i].want \in {"U", "D"}
  /\ replying # <<>> => Head(replying).cmd \in {"U", "D"}

(* All data still to be received is later than piece n. *)
Later(n) ==
  /\ n <= written
  /\ \A i \in DOMAIN toSim : toSim[i].cmd = "O" => toSim[i].id > n
  /\ \A i \in DOMAIN messages : Ready(messages[i], "O") => messages[i].data.id > n

(* Pieces are sent in the order they are written in, and travel in it.     *)
QueueInOrder ==
  /\ \A i \in DOMAIN messages :
       messages[i].data.cmd = "O" => messages[i].data.id \in 1 .. written
  /\ \A i, j \in DOMAIN messages :
       i < j /\ Ready(messages[i], "O") /\ Ready(messages[j], "O")
         => messages[i].data.id < messages[j].data.id
LinkInOrder ==
  /\ \A i, j \in DOMAIN toSim :
       i < j /\ toSim[i].cmd = "O" /\ toSim[j].cmd = "O" => toSim[i].id < toSim[j].id
  /\ \A i \in DOMAIN toSim : toSim[i].cmd = "O" =>
       /\ toSim[i].id \in 1 .. written
       /\ \A j \in DOMAIN messages : Ready(messages[j], "O") => messages[j].data.id > toSim[i].id

(* The packet in receiveBuffer is data, its payload not overwritten.       *)
DataInBuffer == buffer.cmd = "O" /\ buffer.id # Mixed
BufferInOrder == DataInBuffer => Later(buffer.id)

(* A packet of several banks is being written.                             *)
Writing == task \in {"nested", "write"} \/ (main # "usb" /\ task \in Asking \cup {"stuck"})

(* A chunk comes before all data to be received, and before what may still *)
(* be written of the packet in receiveBuffer.                              *)
Past(c) ==
  Intact(c) =>
    /\ Later(c.msg.id)
    /\ DataInBuffer => /\ c.msg.id <= buffer.id
                       /\ c.msg.id = buffer.id => IF Writing THEN c.part <= part
                                                  ELSE rx # "full"

ChunksInOrder ==
  /\ \A i \in DOMAIN hostData : Past(hostData[i])
  /\ \A k \in DOMAIN inBank :
       /\ k = 1 /\ Past(inBank[k])
       /\ \A i \in DOMAIN hostData :
            Intact(hostData[i]) /\ Intact(inBank[k]) => Before(hostData[i], inBank[k])

OrderInv == /\ RefusalsOK /\ QueueInOrder /\ LinkInOrder
            /\ BufferInOrder /\ ChunksInOrder /\ DataInOrder

-----------------------------------------------------------------------------
(* Sequences that lose their first element, gain a last one, or lose one.  *)
LEMMA Popped ==
  ASSUME NEW S, NEW s \in Seq(S), s # <<>>
  PROVE  /\ DOMAIN s = 1 .. Len(s) /\ Len(s) \in Nat /\ Len(s) >= 1
         /\ DOMAIN Tail(s) = 1 .. Len(s) - 1 /\ Tail(s) \in Seq(S)
         /\ Head(s) = s[1] /\ Head(s) \in S
         /\ \A i \in 1 .. Len(s) - 1 : Tail(s)[i] = s[i + 1]
BY HeadTailProperties, EmptySeq, LenProperties

LEMMA Pushed ==
  ASSUME NEW S, NEW s \in Seq(S), NEW e \in S
  PROVE  /\ DOMAIN s = 1 .. Len(s) /\ Len(s) \in Nat
         /\ DOMAIN Append(s, e) = 1 .. Len(s) + 1 /\ Append(s, e) \in Seq(S)
         /\ \A i \in 1 .. Len(s) : Append(s, e)[i] = s[i]
         /\ Append(s, e)[Len(s) + 1] = e
BY AppendProperties, LenProperties

LEMMA Removed ==
  ASSUME NEW S, NEW s \in Seq(S), NEW i \in 1 .. Len(s)
  PROVE  /\ RemoveAt(s, i) \in Seq(S) /\ Len(s) \in Nat /\ DOMAIN s = 1 .. Len(s)
         /\ Len(RemoveAt(s, i)) = Len(s) - 1
         /\ DOMAIN RemoveAt(s, i) = 1 .. Len(s) - 1
         /\ \A j \in 1 .. Len(s) - 1 :
              RemoveAt(s, i)[j] = IF j < i THEN s[j] ELSE s[j + 1]
<1> DEFINE a == SubSeq(s, 1, i - 1)
           b == SubSeq(s, i + 1, Len(s))
<1>1. Len(s) \in Nat /\ DOMAIN s = 1 .. Len(s) /\ \A j \in 1 .. Len(s) : s[j] \in S
  BY LenProperties, ElementOfSeq
<1>2. /\ a \in Seq(S) /\ Len(a) = i - 1
      /\ \A j \in 1 .. i - 1 : a[j] = s[j]
  BY <1>1, SubSeqProperties
<1>3. /\ b \in Seq(S) /\ Len(b) = Len(s) - i
      /\ \A j \in 1 .. Len(s) - i : b[j] = s[i + j]
  <2>1. /\ b \in Seq(S) /\ Len(b) = IF i + 1 <= Len(s) THEN Len(s) - (i + 1) + 1 ELSE 0
        /\ \A j \in 1 .. Len(s) - (i + 1) + 1 : b[j] = s[i + 1 + j - 1]
    BY <1>1, SubSeqProperties
  <2>2. Len(b) = Len(s) - i
    <3> HIDE DEF b
    <3>1. CASE i + 1 <= Len(s)
      BY <1>1, <2>1, <3>1
    <3>2. CASE i = Len(s)
      BY <1>1, <2>1, <3>2
    <3>3. i + 1 <= Len(s) \/ i = Len(s)
      <4>1. Len(s) \in Nat
        BY <1>1
      <4> QED BY <4>1
    <3> QED BY <3>1, <3>2, <3>3
  <2>3. ASSUME NEW j \in 1 .. Len(s) - i PROVE b[j] = s[i + j]
    <3>1. i + 1 + j - 1 = i + j /\ j \in 1 .. Len(s) - (i + 1) + 1
      BY <1>1
    <3> HIDE DEF b
    <3> QED BY <2>1, <3>1
  <2> QED BY <2>1, <2>2, <2>3
<1>4. RemoveAt(s, i) = a \o b
  BY DEF RemoveAt
<1> HIDE DEF a, b
<1>5. /\ a \o b \in Seq(S) /\ Len(a \o b) = Len(s) - 1
      /\ \A j \in 1 .. Len(s) - 1 : (a \o b)[j] = IF j <= i - 1 THEN a[j] ELSE b[j - (i - 1)]
  <2>1. Len(a) + Len(b) = Len(s) - 1 /\ Len(a) = i - 1
    BY <1>1, <1>2, <1>3
  <2>2. /\ a \o b \in Seq(S) /\ Len(a \o b) = Len(a) + Len(b)
        /\ \A j \in 1 .. Len(a) + Len(b) :
             (a \o b)[j] = IF j <= Len(a) THEN a[j] ELSE b[j - Len(a)]
    BY <1>2, <1>3, ConcatProperties
  <2> QED BY <2>1, <2>2
<1>6. ASSUME NEW j \in 1 .. Len(s) - 1
      PROVE  (a \o b)[j] = IF j < i THEN s[j] ELSE s[j + 1]
  <2>1. CASE j < i
    BY <1>1, <1>2, <1>5, <2>1
  <2>2. CASE ~(j < i)
    <3>1. j - (i - 1) \in 1 .. Len(s) - i /\ i + (j - (i - 1)) = j + 1
      BY <1>1, <2>2
    <3>2. b[j - (i - 1)] = s[j + 1]
      BY <1>3, <3>1
    <3> QED BY <1>1, <1>5, <2>2, <3>2
  <2> QED BY <2>1, <2>2
<1> QED BY <1>1, <1>4, <1>5, <1>6, LenProperties

-----------------------------------------------------------------------------
(* What the PC's steps do to the queue and the channels.                   *)

(* FirstReady is the first entry that is ready. *)
LEMMA FirstReadyFirst ==
  ASSUME messages \in Seq(Entries), FirstReady # 0
  PROVE  /\ FirstReady \in 1 .. Len(messages) /\ Len(messages) \in Nat
         /\ messages[FirstReady].status = "ReadyToSend"
         /\ \A j \in 1 .. Len(messages) :
              messages[j].status = "ReadyToSend" => FirstReady <= j
<1> DEFINE I == {i \in 1 .. Len(messages) : messages[i].status = "ReadyToSend"}
<1>1. FirstReady = IF I # {} THEN Min(I) ELSE 0
  BY DEF FirstReady, SelectInSeq
<1>2. I \subseteq Nat /\ Len(messages) \in Nat
  OBVIOUS
<1>3. I # {}
  BY <1>1
<1>4. Min(I) \in I /\ \A j \in I : Min(I) <= j
  BY <1>2, <1>3, MinOfNats
<1>5. FirstReady \in I /\ \A j \in I : FirstReady <= j
  BY <1>1, <1>3, <1>4
<1> QED BY <1>2, <1>5

(* An entry with its status changed keeps its data, the others their all.  *)
LEMMA Remarked ==
  ASSUME NEW m \in Seq(Entries), NEW i \in 1 .. Len(m), NEW st,
         NEW n, n = [m EXCEPT ![i].status = st]
  PROVE  /\ DOMAIN n = 1 .. Len(m) /\ DOMAIN m = 1 .. Len(m) /\ Len(m) \in Nat
         /\ \A j \in 1 .. Len(m) :
              /\ n[j].data = m[j].data
              /\ n[j].status = IF j = i THEN st ELSE m[j].status
<1>1. DOMAIN m = 1 .. Len(m) /\ Len(m) \in Nat /\ \A j \in 1 .. Len(m) : m[j] \in Entries
  BY LenProperties, ElementOfSeq
<1>2. DOMAIN n = 1 .. Len(m)
  BY <1>1
<1>3. \A j \in 1 .. Len(m) : m[j] = [data |-> m[j].data, status |-> m[j].status]
  BY <1>1 DEF Entries
<1>4. ASSUME NEW j \in 1 .. Len(m)
      PROVE  n[j] = IF j = i THEN [m[j] EXCEPT !.status = st] ELSE m[j]
  BY <1>1
<1>5. \A j \in 1 .. Len(m) : /\ [m[j] EXCEPT !.status = st].data = m[j].data
                            /\ [m[j] EXCEPT !.status = st].status = st
  BY <1>1 DEF Entries
<1> QED BY <1>1, <1>2, <1>4, <1>5

(* One packet taken from toPC. *)
LEMMA Taken ==
  ASSUME ChannelsOK, NEW cmds, Received(cmds), NEW cmd \in {"U", "D"},
         cmd \notin cmds
  PROVE  /\ Asked(cmd) => Asked(cmd)'
         /\ NoAck => NoAck' /\ "A" \notin {Head(toPC).cmd}
<1> DEFINE n == Len(toPC)
<1>1. /\ toPC' = Tail(toPC) /\ toPC \in Seq(SimMessages) /\ toPC # <<>>
      /\ Head(toPC).cmd \in cmds
  BY DEF ChannelsOK, Received
<1>2. /\ DOMAIN toPC = 1 .. n /\ n \in Nat /\ n >= 1 /\ DOMAIN toPC' = 1 .. n - 1
      /\ Head(toPC) = toPC[1] /\ \A i \in 1 .. n - 1 : toPC'[i] = toPC[i + 1]
  BY <1>1, Popped
<1> HIDE DEF n
<1>3. ASSUME Asked(cmd) PROVE Asked(cmd)'
  <2>1. PICK i \in 1 .. n : /\ toPC[i].cmd = cmd
                            /\ \A j \in 1 .. n : j > i => toPC[j].cmd # "A"
    BY <1>2, <1>3 DEF Asked
  <2>2. i # 1
    BY <1>1, <1>2, <2>1
  <2>3. i - 1 \in 1 .. n - 1 /\ toPC'[i - 1] = toPC[i]
    BY <1>2, <2>1, <2>2
  <2>4. \A j \in 1 .. n - 1 : j > i - 1 => toPC'[j].cmd # "A"
    BY <1>2, <2>1
  <2> QED BY <1>2, <2>1, <2>3, <2>4 DEF Asked
<1>4. ASSUME NoAck PROVE NoAck' /\ Head(toPC).cmd # "A"
  <2>1. \A j \in 1 .. n : toPC[j].cmd # "A"
    BY <1>2, <1>4 DEF NoAck
  <2>2. \A j \in 1 .. n - 1 : toPC'[j].cmd # "A"
    BY <1>2, <2>1
  <2> QED BY <1>2, <2>1, <2>2 DEF NoAck
<1> QED BY <1>3, <1>4

(* What is ready stays so, if the queue only grows or is marked ready.     *)
LEMMA ArrivingKept ==
  ASSUME NEW cmd, Arriving(cmd), UNCHANGED <<rx, buffer, toSim>>,
         replying # <<>> => replying' = replying,
         \A i \in DOMAIN messages : Ready(messages[i], cmd) =>
           \E j \in DOMAIN messages' : Ready(messages'[j], cmd)
  PROVE  Arriving(cmd)'
<1>1. CASE \E i \in DOMAIN messages : Ready(messages[i], cmd)
  <2>1. \E j \in DOMAIN messages' : Ready(messages'[j], cmd)
    BY <1>1
  <2> QED BY <2>1 DEF Arriving, Ready
<1>2. CASE replying # <<>> /\ Head(replying).cmd = cmd
  BY <1>2 DEF Arriving
<1>3. CASE \E i \in DOMAIN toSim : toSim[i].cmd = cmd /\ (rx = "shifted" => i > 1)
  BY <1>3 DEF Arriving
<1>4. CASE rx = "full" /\ buffer.cmd = cmd
  BY <1>4 DEF Arriving
<1> QED BY <1>1, <1>2, <1>3, <1>4 DEF Arriving

LEMMA Written ==
  ASSUME messages \in Seq(Entries), NEW m \in PcMessages, Write(m)
  PROVE  /\ DOMAIN messages = 1 .. Len(messages) /\ Len(messages) \in Nat
         /\ DOMAIN messages' = 1 .. Len(messages) + 1
         /\ \A i \in 1 .. Len(messages) : messages'[i] = messages[i]
         /\ messages'[Len(messages) + 1].data = m
         /\ messages'[Len(messages) + 1].status = "ReadyToSend"
<1> DEFINE e == [data |-> m, status |-> "ReadyToSend"]
<1>1. e \in Entries /\ e.data = m /\ e.status = "ReadyToSend"
  BY DEF Entries
<1>2. messages' = Append(messages, e)
  BY DEF Write
<1> HIDE DEF e
<1> QED BY <1>1, <1>2, Pushed

LEMMA WayWhenWritten ==
  ASSUME messages \in Seq(Entries), NEW m \in PcMessages, Write(m),
         UNCHANGED <<rx, buffer, toSim, toPC>>, NEW cmd, OnTheWay(cmd),
         \/ replying' = replying
         \/ replying' = <<>> /\ m = Head(replying)
  PROVE  OnTheWay(cmd)'
<1>1. (Asked(cmd) => Asked(cmd)') /\ (NoAck => NoAck')
  BY DEF Asked, NoAck
<1>2. ASSUME Arriving(cmd) PROVE Arriving(cmd)'
  <2>1. \A i \in DOMAIN messages : Ready(messages[i], cmd) =>
          \E j \in DOMAIN messages' : Ready(messages'[j], cmd)
    BY Written
  <2>2. CASE replying' = replying
    BY <1>2, <2>1, <2>2, ArrivingKept
  <2>3. CASE replying' = <<>> /\ m = Head(replying) /\ m.cmd = cmd
    <3>1. Ready(messages'[Len(messages) + 1], cmd)
      BY <2>3, Written DEF Ready
    <3>2. Len(messages) + 1 \in DOMAIN messages'
      BY Written
    <3> QED BY <3>1, <3>2 DEF Arriving, Ready
  <2>4. CASE m = Head(replying) /\ m.cmd # cmd
    BY <1>2, <2>1, <2>4 DEF Arriving, Ready
  <2> QED BY <2>2, <2>3, <2>4
<1> QED BY <1>1, <1>2 DEF OnTheWay

LEMMA WayWhenSent ==
  ASSUME ChannelsOK, messages \in Seq(Entries), SendMessages, lost' = 0, lost \in Nat,
         rx = "shifted" => toSim # <<>>,
         UNCHANGED <<rx, buffer>>, NEW cmd, OnTheWay(cmd)
  PROVE  OnTheWay(cmd)'
<1>1. /\ messages' = [messages EXCEPT ![FirstReady].status = "PendingResponse"]
      /\ toSim' = Append(toSim, messages[FirstReady].data)
      /\ toPC' = toPC /\ replying' = replying
  BY DEF SendMessages
<1>2. /\ FirstReady \in 1 .. Len(messages) /\ Len(messages) \in Nat
      /\ messages[FirstReady].status = "ReadyToSend"
  BY FirstReadyFirst DEF SendMessages
<1>3. /\ DOMAIN messages' = 1 .. Len(messages) /\ DOMAIN messages = 1 .. Len(messages)
      /\ \A j \in 1 .. Len(messages) :
           /\ messages'[j].data = messages[j].data
           /\ j # FirstReady => messages'[j].status = messages[j].status
  BY <1>1, <1>2, Remarked
<1>4. messages[FirstReady].data \in PcMessages
  <2>1. messages[FirstReady] \in Entries
    BY <1>2, ElementOfSeq
  <2> QED BY <2>1 DEF Entries
<1>5. /\ DOMAIN toSim = 1 .. Len(toSim) /\ Len(toSim) \in Nat
      /\ DOMAIN toSim' = 1 .. Len(toSim) + 1
      /\ \A i \in 1 .. Len(toSim) : toSim'[i] = toSim[i]
      /\ toSim'[Len(toSim) + 1] = messages[FirstReady].data
      /\ rx = "shifted" => Len(toSim) >= 1
  BY <1>1, <1>4, Pushed, EmptySeq DEF ChannelsOK
<1>6. (Asked(cmd) => Asked(cmd)') /\ (NoAck => NoAck')
  BY <1>1 DEF Asked, NoAck
<1>7. ASSUME Arriving(cmd) PROVE Arriving(cmd)'
  <2>1. CASE replying # <<>> /\ Head(replying).cmd = cmd
    BY <1>1, <2>1 DEF Arriving
  <2>2. CASE rx = "full" /\ buffer.cmd = cmd
    BY <2>2 DEF Arriving
  <2>3. CASE \E i \in DOMAIN toSim : toSim[i].cmd = cmd /\ (rx = "shifted" => i > 1)
    <3>1. \E i \in DOMAIN toSim' : toSim'[i].cmd = cmd /\ (rx' = "shifted" => i > 1)
      BY <1>5, <2>3
    <3> QED BY <3>1 DEF Arriving
  <2>4. CASE \E i \in DOMAIN messages : Ready(messages[i], cmd)
    <3>1. PICK i \in 1 .. Len(messages) : Ready(messages[i], cmd)
      BY <1>3, <2>4
    <3>2. CASE i = FirstReady
      <4>1. /\ Len(toSim) + 1 \in DOMAIN toSim' /\ toSim'[Len(toSim) + 1].cmd = cmd
            /\ rx' = "shifted" => Len(toSim) + 1 > 1
        BY <1>5, <3>1, <3>2 DEF Ready
      <4> QED BY <4>1 DEF Arriving
    <3>3. CASE i # FirstReady
      <4>1. i \in DOMAIN messages' /\ Ready(messages'[i], cmd)
        BY <1>3, <3>1, <3>3 DEF Ready
      <4> QED BY <4>1 DEF Arriving, Ready
    <3> QED BY <3>2, <3>3
  <2> QED BY <1>7, <2>1, <2>2, <2>3, <2>4 DEF Arriving
<1> QED BY <1>6, <1>7 DEF OnTheWay

(* A refusal or an echo read by the PC takes nothing from what is on the   *)
(* way; and while there is no acknowledgement, none is read.               *)
LEMMA WayWhenRead ==
  ASSUME ChannelsOK, messages \in Seq(Entries), UNCHANGED <<rx, buffer>>,
         ReceiveNack \/ ReceiveAck \/ ReceiveOther, NEW cmd \in {"U", "D"}, OnTheWay(cmd)
  PROVE  OnTheWay(cmd)'
<1> DEFINE cmds == IF ReceiveAck THEN {"A"} ELSE {"E", "I", "C"}
<1>1. Received({"A"}) \/ Received({"E"}) \/ Received({"I", "C"})
  BY DEF ReceiveNack, ReceiveAck, ReceiveOther
<1>2. Asked(cmd) => Asked(cmd)'
  BY <1>1, Taken
<1>3. CASE ReceiveAck
  <2>1. Received({"A"}) /\ Head(toPC).cmd = "A"
    BY <1>3 DEF ReceiveAck, Received
  <2>2. ~NoAck
    BY <2>1, Taken
  <2> QED BY <1>2, <2>2 DEF OnTheWay
<1>4. CASE ReceiveNack \/ ReceiveOther
  <2>1. NoAck => NoAck'
    BY <1>1, Taken
  <2>2. /\ replying' = replying /\ toSim' = toSim
        /\ \/ messages' = messages
           \/ messages' = [messages EXCEPT ![OldestWith(Head(toPC).want)].status = "ReadyToSend"]
              /\ OldestWith(Head(toPC).want) # 0
    BY <1>4 DEF ReceiveNack, ReceiveOther, Received
  <2>3. \A i \in DOMAIN messages : Ready(messages[i], cmd) =>
          \E j \in DOMAIN messages' : Ready(messages'[j], cmd)
    <3> DEFINE k == OldestWith(Head(toPC).want)
    <3>1. k \in 0 .. Len(messages) /\ Len(messages) \in Nat
      BY OldestWithFirst
    <3> HIDE DEF k
    <3>2. CASE messages' = messages
      BY <3>2
    <3>3. CASE k # 0 /\ messages' = [messages EXCEPT ![k].status = "ReadyToSend"]
      <4>1. k \in 1 .. Len(messages)
        BY <3>1, <3>3
      <4>2. /\ DOMAIN messages' = DOMAIN messages
            /\ \A i \in DOMAIN messages : Ready(messages[i], cmd) => Ready(messages'[i], cmd)
        BY <3>3, <4>1, Remarked DEF Ready
      <4> QED BY <4>2
    <3> QED BY <2>2, <3>2, <3>3 DEF k
  <2>4. Arriving(cmd) => Arriving(cmd)'
    BY <2>2, <2>3, ArrivingKept
  <2> QED BY <1>2, <2>1, <2>4 DEF OnTheWay
<1> QED BY <1>3, <1>4

(* A question read becomes a reply, and the acknowledgements before it are *)
(* read.                                                                   *)
LEMMA WayWhenAnswered ==
  ASSUME ChannelsOK, UNCHANGED <<rx, buffer>>, NEW cmd \in {"U", "D"}, OnTheWay(cmd),
         ReceiveControlRequest \/ ReceiveDescriptorRequest
  PROVE  OnTheWay(cmd)'
<1> DEFINE n == Len(toPC)
<1>1. PICK q \in {"U", "D"} : /\ Received({q}) /\ messages' = messages
                              /\ replying' # <<>> /\ Head(replying').cmd = q
  <2>1. CASE ReceiveControlRequest
    <3>1. PICK v \in Verdicts(Head(toPC).kind) :
            replying' = <<PcMessage("U", v, Head(toPC).id)>>
      BY <2>1 DEF ReceiveControlRequest
    <3>2. replying' # <<>> /\ Head(replying').cmd = "U"
      BY <3>1 DEF PcMessage
    <3> QED BY <2>1, <3>2 DEF ReceiveControlRequest
  <2>2. CASE ReceiveDescriptorRequest
    <3>1. replying' = <<PcMessage("D", NotAVerdict, Head(toPC).id)>>
      BY <2>2 DEF ReceiveDescriptorRequest
    <3>2. replying' # <<>> /\ Head(replying').cmd = "D"
      BY <3>1 DEF PcMessage
    <3> QED BY <2>2, <3>2 DEF ReceiveDescriptorRequest
  <2> QED BY <2>1, <2>2
<1>2. /\ replying = <<>> /\ toSim' = toSim /\ toPC \in Seq(SimMessages) /\ toPC # <<>>
      /\ toPC' = Tail(toPC) /\ Head(toPC).cmd = q
  BY <1>1 DEF Received, ChannelsOK
<1>3. /\ DOMAIN toPC = 1 .. n /\ n \in Nat /\ n >= 1 /\ DOMAIN toPC' = 1 .. n - 1
      /\ Head(toPC) = toPC[1] /\ \A i \in 1 .. n - 1 : toPC'[i] = toPC[i + 1]
  BY <1>2, Popped
<1> HIDE DEF n
<1>4. CASE NoAck /\ Arriving(cmd)
  <2>1. NoAck'
    BY <1>3, <1>4 DEF NoAck
  <2>2. Arriving(cmd)'
    BY <1>1, <1>2, <1>4, ArrivingKept
  <2> QED BY <2>1, <2>2 DEF OnTheWay
<1>5. CASE Asked(cmd)
  <2>1. PICK i \in 1 .. n : /\ toPC[i].cmd = cmd
                            /\ \A j \in 1 .. n : j > i => toPC[j].cmd # "A"
    BY <1>3, <1>5 DEF Asked
  <2>2. CASE i = 1
    <3>1. NoAck'
      BY <1>3, <2>1, <2>2 DEF NoAck
    <3>2. cmd = q
      BY <1>2, <1>3, <2>1, <2>2
    <3> QED BY <1>1, <3>1, <3>2 DEF OnTheWay, Arriving
  <2>3. CASE i # 1
    <3>1. i - 1 \in 1 .. n - 1 /\ toPC'[i - 1] = toPC[i]
      BY <1>3, <2>3
    <3>2. \A j \in 1 .. n - 1 : j > i - 1 => toPC'[j].cmd # "A"
      BY <1>3, <2>1
    <3> QED BY <1>3, <2>1, <3>1, <3>2 DEF OnTheWay, Asked
  <2> QED BY <2>2, <2>3
<1> QED BY <1>4, <1>5 DEF OnTheWay

LEMMA WayPc ==
  ASSUME ChannelsOK, PcTypeOK, PcNext, lost' = 0, UNCHANGED simVars,
         rx = "shifted" => toSim # <<>>, NEW cmd \in {"U", "D"}, OnTheWay(cmd)
  PROVE  OnTheWay(cmd)'
<1>1. /\ messages \in Seq(Entries) /\ replying \in Seq(PcMessages) /\ lost \in Nat
      /\ written \in 0 .. MaxData
  BY PcTypes, Bounds
<1>2. UNCHANGED <<rx, buffer>>
  BY DEF simVars
<1>3. CASE AttachDevice \/ DetachDevice \/ WriteOutgoingData
  <2>1. \E m \in PcMessages : Write(m)
    <3>1. CASE AttachDevice \/ DetachDevice
      <4>1. PcMessage("S", 1, 0) \in PcMessages /\ PcMessage("S", 0, 0) \in PcMessages
        BY Bounds DEF PcMessage, PcMessages, PcCommands
      <4> QED BY <3>1, <4>1 DEF AttachDevice, DetachDevice
    <3>2. CASE WriteOutgoingData
      <4>1. written + 1 \in 0 .. MaxRequests + MaxData
        BY <1>1, <3>2, Bounds DEF WriteOutgoingData
      <4>2. PcMessage("O", 1, written + 1) \in PcMessages
        BY <4>1 DEF PcMessage, PcMessages, PcCommands
      <4> QED BY <3>2, <4>2 DEF WriteOutgoingData
    <3> QED BY <1>3, <3>1, <3>2
  <2>2. replying' = replying /\ toSim' = toSim /\ toPC' = toPC
    BY <1>3 DEF AttachDevice, DetachDevice, WriteOutgoingData, channels
  <2> QED BY <1>1, <1>2, <2>1, <2>2, WayWhenWritten
<1>4. CASE QueueReply
  <2>1. Head(replying) \in PcMessages
    BY <1>1, <1>4, HeadTailProperties DEF QueueReply
  <2>2. Write(Head(replying)) /\ replying' = <<>> /\ toSim' = toSim /\ toPC' = toPC
    BY <1>4 DEF QueueReply, channels
  <2> QED BY <1>1, <1>2, <2>1, <2>2, WayWhenWritten
<1>5. CASE SendMessages
  BY <1>1, <1>2, <1>5, WayWhenSent
<1>6. CASE ReceiveNack \/ ReceiveAck \/ ReceiveOther
  BY <1>1, <1>2, <1>6, WayWhenRead
<1>7. CASE ReceiveControlRequest \/ ReceiveDescriptorRequest
  BY <1>2, <1>7, WayWhenAnswered
<1> QED BY <1>3, <1>4, <1>5, <1>6, <1>7 DEF PcNext, Reader

-----------------------------------------------------------------------------
(* What the simulator receives and sends.                                  *)
LEMMA SentPc ==
  ASSUME ChannelsOK, PacketsOK, toPC' = Append(toPC, tx), NEW cmd \in {"U", "D"}
  PROVE  /\ tx.cmd = cmd => Asked(cmd)'
         /\ tx.cmd # "A" /\ Asked(cmd) => Asked(cmd)'
         /\ tx.cmd # "A" /\ NoAck => NoAck'
<1> DEFINE n == Len(toPC)
<1>1. /\ DOMAIN toPC = 1 .. n /\ n \in Nat /\ DOMAIN toPC' = 1 .. n + 1
      /\ toPC'[n + 1] = tx /\ \A i \in 1 .. n : toPC'[i] = toPC[i]
  BY Pushed DEF ChannelsOK, PacketsOK
<1> HIDE DEF n
<1>2. ASSUME tx.cmd = cmd PROVE Asked(cmd)'
  <2>1. n + 1 \in 1 .. n + 1 /\ toPC'[n + 1].cmd = cmd
        /\ \A j \in 1 .. n + 1 : j > n + 1 => toPC'[j].cmd # "A"
    BY <1>1, <1>2
  <2> QED BY <1>1, <2>1 DEF Asked
<1>3. ASSUME tx.cmd # "A", Asked(cmd) PROVE Asked(cmd)'
  <2>1. PICK i \in 1 .. n : /\ toPC[i].cmd = cmd
                            /\ \A j \in 1 .. n : j > i => toPC[j].cmd # "A"
    BY <1>1, <1>3 DEF Asked
  <2>2. i \in 1 .. n + 1 /\ toPC'[i].cmd = cmd
        /\ \A j \in 1 .. n + 1 : j > i => toPC'[j].cmd # "A"
    BY <1>1, <1>3, <2>1
  <2> QED BY <1>1, <2>2 DEF Asked
<1>4. ASSUME tx.cmd # "A", NoAck PROVE NoAck'
  BY <1>1, <1>4 DEF NoAck
<1> QED BY <1>2, <1>3, <1>4

LEMMA WayReceive ==
  ASSUME ChannelsOK, Receive, UNCHANGED pcVars, NEW cmd, OnTheWay(cmd)
  PROVE  OnTheWay(cmd)'
<1> DEFINE n == Len(toSim)
<1>1. /\ toPC' = toPC /\ messages' = messages /\ replying' = replying
      /\ toSim # <<>> /\ toSim \in Seq(PcMessages)
  BY DEF Receive, pcVars, ChannelsOK
<1>2. /\ DOMAIN toSim = 1 .. n /\ n \in Nat /\ n >= 1 /\ DOMAIN Tail(toSim) = 1 .. n - 1
      /\ Head(toSim) = toSim[1] /\ \A i \in 1 .. n - 1 : Tail(toSim)[i] = toSim[i + 1]
  BY <1>1, Popped
<1> HIDE DEF n
<1>3. (Asked(cmd) => Asked(cmd)') /\ (NoAck => NoAck')
  BY <1>1 DEF Asked, NoAck
<1>4. ASSUME Arriving(cmd) PROVE Arriving(cmd)'
  <2>1. rx # "full"
    BY DEF Receive, ReceiveLength, ReceiveSome, ReceiveRest, ReceiveShifted
  <2>2. CASE replying # <<>> /\ Head(replying).cmd = cmd
    BY <1>1, <2>2 DEF Arriving
  <2>3. CASE \E i \in DOMAIN messages : Ready(messages[i], cmd)
    BY <1>1, <2>3 DEF Arriving, Ready
  <2>4. CASE \E i \in DOMAIN toSim : toSim[i].cmd = cmd /\ (rx = "shifted" => i > 1)
    <3>1. PICK i \in 1 .. n : toSim[i].cmd = cmd /\ (rx = "shifted" => i > 1)
      BY <1>2, <2>4
    <3>2. CASE ReceiveLength \/ ReceiveSome
      <4>1. toSim' = toSim /\ rx' # "shifted"
        BY <3>2 DEF ReceiveLength, ReceiveSome
      <4> QED BY <1>2, <3>1, <4>1 DEF Arriving
    <3>3. CASE ReceiveRest
      <4>1. toSim' = Tail(toSim) /\ rx' = "full" /\ buffer' = Head(toSim)
        BY <3>3 DEF ReceiveRest
      <4>2. CASE i = 1
        BY <1>2, <3>1, <4>1, <4>2 DEF Arriving
      <4>3. CASE i # 1
        <5>1. i - 1 \in DOMAIN toSim' /\ toSim'[i - 1].cmd = cmd
          BY <1>2, <3>1, <4>1, <4>3
        <5> QED BY <4>1, <5>1 DEF Arriving
      <4> QED BY <4>2, <4>3
    <3>4. CASE ReceiveShifted
      <4>1. toSim' = Tail(toSim) /\ rx' = "full" /\ i > 1
        BY <3>1, <3>4 DEF ReceiveShifted
      <4>2. i - 1 \in DOMAIN toSim' /\ toSim'[i - 1].cmd = cmd
        BY <1>2, <3>1, <4>1
      <4> QED BY <4>1, <4>2 DEF Arriving
    <3> QED BY <3>2, <3>3, <3>4 DEF Receive
  <2> QED BY <1>4, <2>1, <2>2, <2>3, <2>4 DEF Arriving
<1> QED BY <1>3, <1>4 DEF OnTheWay

LEMMA WaySame ==
  ASSUME UNCHANGED <<rx, buffer, toSim, toPC, messages, replying>>, NEW cmd, OnTheWay(cmd)
  PROVE  OnTheWay(cmd)'
BY DEF OnTheWay, Asked, NoAck, Arriving, Ready

LEMMA WayFinishSend ==
  ASSUME ChannelsOK, PacketsOK, SendsRight, FinishSend, UNCHANGED pcVars, NEW cmd \in {"U", "D"},
         task' \in WaitsFor(cmd), task \in WaitsFor(cmd) => OnTheWay(cmd)
  PROVE  OnTheWay(cmd)'
<1>1. /\ toPC' = Append(toPC, tx) /\ UNCHANGED <<rx, buffer, toSim, messages, replying>>
  BY DEF FinishSend, pcVars
<1>2. \/ task \in {"sendU", "nackU"} /\ task' = "waitU" /\ cmd = "U"
      \/ task \in {"sendD", "nackD"} /\ task' = "waitD" /\ cmd = "D"
  BY DEF FinishSend, AckBuffer, StartSend, WaitsFor
<1>3. \/ tx.cmd = cmd
      \/ tx.cmd = "E" /\ OnTheWay(cmd)
  BY <1>2 DEF SendsRight, WaitsFor
<1>4. CASE tx.cmd = cmd
  BY <1>1, <1>4, SentPc DEF OnTheWay
<1>5. CASE tx.cmd = "E" /\ OnTheWay(cmd)
  <2>1. (Asked(cmd) => Asked(cmd)') /\ (NoAck => NoAck')
    BY <1>1, <1>5, SentPc
  <2>2. Arriving(cmd) => Arriving(cmd)'
    BY <1>1 DEF Arriving, Ready
  <2> QED BY <1>5, <2>1, <2>2 DEF OnTheWay
<1> QED BY <1>3, <1>4, <1>5

(* Only a reply of the command waited for ends the wait, so a refused      *)
(* packet was none that is on the way.                                     *)
LEMMA WayWaitForPacket ==
  ASSUME WaitForPacket, UNCHANGED pcVars, NEW cmd \in {"U", "D"},
         task' \in WaitsFor(cmd), task \in WaitsFor(cmd) => OnTheWay(cmd)
  PROVE  OnTheWay(cmd)'
<1>1. buffer.cmd # cmd /\ task \in WaitsFor(cmd)
  BY DEF WaitForPacket, Waiting, StartSend, WaitsFor
<1>2. /\ UNCHANGED <<buffer, toSim, toPC, messages, replying>> /\ rx' = "empty"
  BY DEF WaitForPacket, channels, pcVars
<1>3. (Asked(cmd) => Asked(cmd)') /\ (NoAck => NoAck')
  BY <1>2 DEF Asked, NoAck
<1>4. Arriving(cmd) => Arriving(cmd)'
  BY <1>1, <1>2 DEF Arriving, Ready
<1> QED BY <1>1, <1>3, <1>4 DEF OnTheWay

(* Every other step of the loop leaves a wait alone or is none of it.      *)
Waits == {"nackU", "waitU", "nackD", "waitD"}

LEMMA OtherTasks ==
  ASSUME \/ EndReceive \/ HandleNothing \/ HandleReceivedPacket \/ UsbTask \/ WriteStream
         \/ USBIO_Task \/ DecideControl \/ DecideDescriptor
  PROVE  UNCHANGED channels /\ (task' \in Waits => UNCHANGED <<task, rx, buffer>>)
<1>1. CASE EndReceive \/ HandleNothing
  BY <1>1 DEF EndReceive, HandleNothing
<1>2. CASE HandleReceivedPacket
  BY <1>2 DEF HandleReceivedPacket, AckBuffer, StartSend, Waits
<1>3. CASE UsbTask
  BY <1>3 DEF UsbTask, StartSend, Waits
<1>4. CASE WriteStream
  BY <1>4 DEF WriteStream, AckBuffer, StartSend, Waits
<1>5. CASE USBIO_Task
  BY <1>5 DEF USBIO_Task, StartSend, Waits
<1>6. CASE DecideControl
  <2>1. task' \in {"idle", "write", "sendD", "stuck"} /\ UNCHANGED channels
    BY <1>6 DEF DecideControl, HangInRequest, EndRequest, AskDescriptor, Return, StartSend
  <2> QED BY <2>1 DEF Waits
<1>7. CASE DecideDescriptor
  <2>1. task' \in {"idle", "write", "stuck"} /\ UNCHANGED channels
    BY <1>7 DEF DecideDescriptor, Return
  <2> QED BY <2>1 DEF Waits
<1> QED BY <1>1, <1>2, <1>3, <1>4, <1>5, <1>6, <1>7

LEMMA WayStep == LinkInv /\ SendsRight /\ WayInv /\ [Next]_vars => WayInv'
<1> SUFFICES ASSUME LinkInv, SendsRight, WayInv, [Next]_vars, lost' = 0,
                    NEW cmd \in {"U", "D"}, task' \in WaitsFor(cmd)
             PROVE  OnTheWay(cmd)'
  BY DEF WayInv, WaitsFor
<1>1. ChannelsOK /\ PcTypeOK /\ PacketsOK
  BY LinkInvParts DEF SimInv
<1>2. CASE PcStep
  <2>1. PcNext /\ UNCHANGED simVars /\ task' = task
    BY <1>2 DEF PcStep, simVars
  <2>2. lost = 0
    BY <1>1, <2>1, PcTypes, Bounds DEF PcNext, AttachDevice, DetachDevice, WriteOutgoingData,
       SendMessages, Reader, ReceiveNack, ReceiveAck, ReceiveOther, ReceiveControlRequest,
       ReceiveDescriptorRequest, QueueReply, Received
  <2>3. OnTheWay(cmd)
    BY <2>1, <2>2 DEF WayInv
  <2> QED BY <1>1, <2>1, <2>3, WayPc DEF SendsRight
<1>3. CASE SimStep
  <2>1. SimNext /\ UNCHANGED pcVars /\ lost = 0
    BY <1>3 DEF SimStep, pcVars
  <2>2. task \in WaitsFor(cmd) => OnTheWay(cmd)
    BY <2>1 DEF WayInv
  <2>3. CASE FinishSend
    BY <1>1, <2>1, <2>2, <2>3, WayFinishSend
  <2>4. CASE WaitForPacket
    BY <2>1, <2>2, <2>4, WayWaitForPacket
  <2>5. CASE Receive
    <3>1. task' = task
      BY <2>5 DEF Receive
    <3> QED BY <1>1, <2>1, <2>2, <2>5, <3>1, WayReceive
  <2>6. CASE \/ EndReceive \/ HandleNothing \/ HandleReceivedPacket \/ UsbTask \/ WriteStream
             \/ USBIO_Task \/ DecideControl \/ DecideDescriptor
    <3>1. UNCHANGED channels /\ (task' \in Waits => UNCHANGED <<task, rx, buffer>>)
      BY <2>6, OtherTasks
    <3>2. UNCHANGED <<task, rx, buffer, toSim, toPC, messages, replying>>
      BY <2>1, <3>1 DEF channels, pcVars, Waits, WaitsFor
    <3> QED BY <2>2, <3>2, WaySame
  <2> QED BY <2>1, <2>3, <2>4, <2>5, <2>6 DEF SimNext, SimLoop
<1>4. CASE HostStep \/ UNCHANGED vars
  <2>1. UNCHANGED <<task, rx, buffer, toSim, toPC, messages, replying, lost>>
    BY <1>4 DEF HostStep, Host, HostResets, HostRequest, HostReadsIn, HostSendsOut, channels,
       pcVars, vars, simVars
  <2> QED BY <2>1, WaySame DEF WayInv
<1>5. CASE Reset
  BY <1>5 DEF Reset, Restart, WaitsFor
<1> QED BY <1>2, <1>3, <1>4, <1>5 DEF Next

LEMMA SendsRightStep == LinkInv /\ SendsRight /\ [Next]_vars => SendsRight'
<1> SUFFICES ASSUME LinkInv, SendsRight, [Next]_vars PROVE SendsRight'
  OBVIOUS
<1>1. ChannelsOK /\ PcTypeOK
  BY LinkInvParts DEF SimInv
<1>2. CASE PcStep
  <2>1. UNCHANGED <<task, tx, rx>> /\ PcNext
    BY <1>2 DEF PcStep, simVars
  <2>2. toSim # <<>> => toSim' # <<>>
    <3>1. CASE SendMessages
      BY <1>1, <3>1 DEF SendMessages, ChannelsOK
    <3>2. CASE ~SendMessages
      BY <2>1, <3>2 DEF PcNext, AttachDevice, DetachDevice, WriteOutgoingData, Reader, ReceiveNack,
         ReceiveAck, ReceiveOther, ReceiveControlRequest, ReceiveDescriptorRequest, QueueReply,
         Received, channels
    <3> QED BY <3>1, <3>2
  <2> QED BY <2>1, <2>2 DEF SendsRight
<1>3. CASE HostStep \/ UNCHANGED vars
  <2>1. UNCHANGED <<task, tx, rx, toSim>>
    BY <1>3 DEF HostStep, Host, HostResets, HostRequest, HostReadsIn, HostSendsOut, channels,
       vars, simVars
  <2> QED BY <2>1 DEF SendsRight
<1>4. CASE Reset
  BY <1>4 DEF Reset, Restart, SendsRight
<1>5. CASE Receive
  <2>1. UNCHANGED <<task, tx>> /\ toSim # <<>>
        /\ \/ toSim' = toSim
           \/ rx' = "full"
    BY <1>5 DEF Receive, ReceiveLength, ReceiveSome, ReceiveRest, ReceiveShifted
  <2> QED BY <2>1 DEF SendsRight
<1>6. CASE FinishSend
  <2>1. UNCHANGED <<rx, toSim>> /\ task' \in {"sendAck", "idle", "waitU", "waitD", "decideU", "decideD"}
    BY <1>6 DEF FinishSend, AckBuffer, StartSend
  <2> QED BY <2>1 DEF SendsRight
<1>7. CASE WaitForPacket
  <2>1. toSim' = toSim /\ rx' = "empty"
        /\ \/ task' \in {"ackU", "ackD"}
           \/ task' \in {"nackU", "nackD"} /\ tx'.cmd = "E"
    BY <1>7 DEF WaitForPacket, StartSend, Answer, channels
  <2> QED BY <2>1 DEF SendsRight
<1>8. CASE EndReceive \/ HandleNothing
  BY <1>8 DEF EndReceive, HandleNothing, SendsRight, channels
<1>9. CASE HandleReceivedPacket
  <2>1. toSim' = toSim /\ rx' = "empty" /\ task' \in {"sendAck", "sendC", "nested"}
    BY <1>9 DEF HandleReceivedPacket, AckBuffer, StartSend, channels
  <2> QED BY <2>1 DEF SendsRight
<1>10. CASE UsbTask
  <2>1. /\ UNCHANGED <<rx, toSim>>
        /\ \/ task' = "sendU" /\ tx'.cmd = "U"
           \/ task' \in {"idle", "write"}
    BY <1>10 DEF UsbTask, StartSend, Ask, channels
  <2> QED BY <2>1 DEF SendsRight
<1>11. CASE WriteStream
  <2>1. toSim' = toSim /\ (rx' \in {"partial", "shifted"} => rx \in {"partial", "shifted"})
        /\ task' \in {"sendAck", "nested"}
    BY <1>11 DEF WriteStream, AckBuffer, StartSend, RestartCount, channels
  <2> QED BY <2>1 DEF SendsRight
<1>12. CASE USBIO_Task
  <2>1. UNCHANGED <<rx, toSim>> /\ (task' = "idle" \/ task' = "sendI")
    BY <1>12 DEF USBIO_Task, StartSend, channels
  <2> QED BY <2>1 DEF SendsRight
<1>13. CASE DecideControl
  <2>1. UNCHANGED <<rx, toSim>>
    BY <1>13 DEF DecideControl, channels
  <2>2. \/ Return
        \/ task' = "stuck"
        \/ StartSend(Ask("D", Current, "descriptor"), "sendD")
    BY <1>13 DEF DecideControl, HangInRequest, EndRequest, AskDescriptor
  <2>3. \/ task' = "sendD" /\ tx'.cmd = "D"
        \/ task' \in {"idle", "write", "stuck"}
    BY <2>2 DEF Return, StartSend, Ask
  <2> QED BY <2>1, <2>3 DEF SendsRight
<1>14. CASE DecideDescriptor
  <2>1. UNCHANGED <<rx, toSim>> /\ task' \in {"idle", "write", "stuck"}
    BY <1>14 DEF DecideDescriptor, Return, channels
  <2> QED BY <2>1 DEF SendsRight
<1> QED BY <1>2, <1>3, <1>4, <1>5, <1>6, <1>7, <1>8, <1>9, <1>10, <1>11, <1>12, <1>13, <1>14
   DEF Next, SimStep, SimNext, SimLoop

(* While the simulator waits for a reply, one, or the question for it, is  *)
(* on its way, unless a write failed: for any data, refusals, repeated     *)
(* replies and resets (USBSimulatorDevice.cs:215-330, simulator.c).        *)
THEOREM RepliesOnTheWay == Spec => []ReplyOnItsWay
<1>1. Init => SendsRight /\ WayInv
  BY DEF Init, SimInit, SendsRight, WayInv, WaitsFor
<1>2. Spec => [](SendsRight /\ WayInv)
  BY <1>1, LinkInvariant, SendsRightStep, WayStep, PTL DEF Spec
<1>3. SendsRight /\ WayInv => ReplyOnItsWay
  <2> SUFFICES ASSUME WayInv, lost = 0, NEW cmd \in {"U", "D"}, OnTheWay(cmd) PROVE OnItsWay(cmd)
    BY DEF WayInv, WaitsFor, ReplyOnItsWay
  <2> QED BY DEF OnTheWay, Asked, Arriving, Ready, OnItsWay
<1> QED BY <1>2, <1>3, PTL

-----------------------------------------------------------------------------
(* Data in order: refusals never name it.                                  *)
LEMMA RefusalsStep == LinkInv /\ RefusalsOK /\ [Next]_vars => RefusalsOK'
<1> SUFFICES ASSUME LinkInv, RefusalsOK, [Next]_vars PROVE RefusalsOK'
  OBVIOUS
<1>1. ChannelsOK /\ PcTypeOK /\ PacketsOK
  BY LinkInvParts DEF SimInv
<1> DEFINE TxOK == tx.cmd = "E" => tx.want \in {"U", "D"}
           PcOK == \A i \in DOMAIN toPC : toPC[i].cmd = "E" => toPC[i].want \in {"U", "D"}
<1>2. CASE PcStep
  <2>1. tx' = tx /\ PcNext
    BY <1>2 DEF PcStep, simVars
  <2>2. toPC' = toPC \/ (toPC # <<>> /\ toPC' = Tail(toPC))
    BY <2>1 DEF PcNext, AttachDevice, DetachDevice, WriteOutgoingData, SendMessages, Reader,
       ReceiveNack, ReceiveAck, ReceiveOther, ReceiveControlRequest, ReceiveDescriptorRequest,
       QueueReply, Received, channels
  <2>3. PcOK'
    <3>1. CASE toPC # <<>> /\ toPC' = Tail(toPC)
      <4> DEFINE n == Len(toPC)
      <4>1. /\ DOMAIN toPC = 1 .. n /\ n \in Nat /\ DOMAIN toPC' = 1 .. n - 1
            /\ \A i \in 1 .. n - 1 : toPC'[i] = toPC[i + 1]
        BY <1>1, <3>1, Popped DEF ChannelsOK
      <4> HIDE DEF n
      <4> QED BY <4>1 DEF RefusalsOK
    <3> QED BY <2>2, <3>1 DEF RefusalsOK
  <2>4. replying' # <<>> => Head(replying').cmd \in {"U", "D"}
    <3>1. CASE ReceiveControlRequest
      <4>1. PICK v \in Verdicts(Head(toPC).kind) :
              replying' = <<PcMessage("U", v, Head(toPC).id)>>
        BY <3>1 DEF ReceiveControlRequest
      <4> QED BY <4>1 DEF PcMessage
    <3>2. CASE ReceiveDescriptorRequest
      <4>1. replying' = <<PcMessage("D", NotAVerdict, Head(toPC).id)>>
        BY <3>2 DEF ReceiveDescriptorRequest
      <4> QED BY <4>1 DEF PcMessage
    <3>3. CASE ~(ReceiveControlRequest \/ ReceiveDescriptorRequest)
      <4>1. replying' = replying \/ replying' = <<>>
        BY <2>1, <3>3 DEF PcNext, AttachDevice, DetachDevice, WriteOutgoingData, SendMessages,
           Reader, ReceiveNack, ReceiveAck, ReceiveOther, QueueReply
      <4> QED BY <4>1 DEF RefusalsOK
    <3> QED BY <3>1, <3>2, <3>3
  <2> QED BY <2>1, <2>3, <2>4 DEF RefusalsOK
<1>3. CASE SimStep
  <2>1. replying' = replying /\ SimNext
    BY <1>3 DEF SimStep, pcVars
  <2>2. TxOK'
    <3>1. CASE FinishSend \/ HandleReceivedPacket \/ WriteStream
      <4>1. \E a \in {"A", "C"} : tx' = Answer(a, buffer.cmd, "?") \/ tx' = tx
        BY <3>1 DEF FinishSend, HandleReceivedPacket, WriteStream, AckBuffer, StartSend
      <4> QED BY <4>1 DEF RefusalsOK, Answer
    <3>2. CASE WaitForPacket
      <4>1. \E cmd \in {"U", "D"} :
              tx' = Answer("A", cmd, cmd) \/ tx' = Answer("E", buffer.cmd, cmd)
        BY <3>2 DEF WaitForPacket, StartSend
      <4> QED BY <4>1 DEF Answer
    <3>3. CASE UsbTask \/ USBIO_Task \/ DecideControl
      <4>1. \/ tx' = tx \/ tx' = Ask("I", outs, "data")
            \/ tx' = Ask("U", Current, requests[Current].kind)
            \/ tx' = Ask("D", Current, "descriptor")
        BY <3>3 DEF UsbTask, USBIO_Task, DecideControl, HangInRequest, EndRequest, AskDescriptor,
           StartSend
      <4> QED BY <4>1 DEF RefusalsOK, Ask
    <3>4. CASE EndReceive \/ HandleNothing \/ DecideDescriptor \/ Receive
      <4>1. tx' = tx
        BY <3>4 DEF EndReceive, HandleNothing, DecideDescriptor, Receive
      <4> QED BY <4>1 DEF RefusalsOK
    <3> QED BY <2>1, <3>1, <3>2, <3>3, <3>4 DEF SimNext, SimLoop
  <2>3. PcOK'
    <3>1. CASE FinishSend
      <4> DEFINE n == Len(toPC)
      <4>1. toPC' = Append(toPC, tx)
        BY <3>1 DEF FinishSend
      <4>2. /\ DOMAIN toPC = 1 .. n /\ n \in Nat /\ DOMAIN toPC' = 1 .. n + 1
            /\ toPC'[n + 1] = tx /\ \A i \in 1 .. n : toPC'[i] = toPC[i]
        BY <1>1, <4>1, Pushed DEF ChannelsOK, PacketsOK
      <4> HIDE DEF n
      <4> QED BY <4>2 DEF RefusalsOK
    <3>2. CASE ~FinishSend
      <4>1. toPC' = toPC
        BY <2>1, <3>2, OtherTasks DEF SimNext, SimLoop, WaitForPacket, Receive, channels
      <4> QED BY <4>1 DEF RefusalsOK
    <3> QED BY <3>1, <3>2
  <2> QED BY <2>1, <2>2, <2>3 DEF RefusalsOK
<1>4. CASE HostStep \/ UNCHANGED vars
  <2>1. UNCHANGED <<tx, toPC, replying>>
    BY <1>4 DEF HostStep, Host, HostResets, HostRequest, HostReadsIn, HostSendsOut, channels,
       pcVars, vars, simVars
  <2> QED BY <2>1 DEF RefusalsOK
<1>5. CASE Reset
  <2>1. tx' = Answer("A", "?", "?") /\ toPC' = <<>> /\ replying' = replying
    BY <1>5 DEF Reset, Restart, pcVars
  <2> QED BY <2>1 DEF RefusalsOK, Answer
<1> QED BY <1>2, <1>3, <1>4, <1>5 DEF Next

(* The PC's steps: what is to be received stays later than what has been,  *)
(* and in order.                                                           *)
InOrder == QueueInOrder /\ LinkInOrder
LaterKept == \A n \in Nat : Later(n) => Later(n)'

LEMMA QueueWrites ==
  ASSUME ChannelsOK, PcTypeOK, InOrder, NEW m \in PcMessages, Write(m), toSim' = toSim,
         \/ m.cmd = "O" /\ m.id = written + 1 /\ written' = written + 1
         \/ m.cmd # "O" /\ written' = written
  PROVE  InOrder' /\ LaterKept
<1> DEFINE n == Len(messages)
<1>1. messages \in Seq(Entries) /\ written \in Nat /\ toSim \in Seq(PcMessages)
  BY PcTypes, Bounds DEF ChannelsOK
<1>2. /\ DOMAIN messages = 1 .. n /\ n \in Nat /\ DOMAIN messages' = 1 .. n + 1
      /\ \A i \in 1 .. n : messages'[i] = messages[i]
      /\ messages'[n + 1].data = m
  BY <1>1, Written
<1> HIDE DEF n
<1>3. /\ \A i \in 1 .. n : messages[i].data.cmd = "O" => messages[i].data.id \in 1 .. written
      /\ \A i, j \in 1 .. n : i < j /\ Ready(messages[i], "O") /\ Ready(messages[j], "O")
           => messages[i].data.id < messages[j].data.id
  BY <1>2 DEF InOrder, QueueInOrder
<1>4. QueueInOrder'
  <2>1. \A i \in 1 .. n + 1 : messages'[i].data.cmd = "O" => messages'[i].data.id \in 1 .. written'
    BY <1>1, <1>2, <1>3
  <2>2. ASSUME NEW i \in 1 .. n + 1, NEW j \in 1 .. n + 1, i < j,
               Ready(messages'[i], "O"), Ready(messages'[j], "O")
        PROVE  messages'[i].data.id < messages'[j].data.id
    <3>1. i \in 1 .. n /\ Ready(messages[i], "O")
      BY <1>2, <2>2 DEF Ready
    <3>2. CASE j \in 1 .. n
      BY <1>2, <1>3, <2>2, <3>1, <3>2
    <3>3. CASE j = n + 1
      BY <1>1, <1>2, <1>3, <2>2, <3>1, <3>3 DEF Ready
    <3> QED BY <1>2, <3>2, <3>3
  <2> QED BY <1>2, <2>1, <2>2 DEF QueueInOrder, Ready
<1>5. LinkInOrder'
  <2>1. ASSUME NEW i \in DOMAIN toSim, toSim[i].cmd = "O",
               NEW j \in 1 .. n + 1, Ready(messages'[j], "O")
        PROVE  messages'[j].data.id > toSim[i].id
    <3>1. toSim[i].id \in 1 .. written
      BY <2>1 DEF InOrder, LinkInOrder
    <3>2. CASE j \in 1 .. n
      BY <1>2, <2>1, <3>2 DEF InOrder, LinkInOrder
    <3>3. CASE j = n + 1
      BY <1>1, <1>2, <2>1, <3>1, <3>3 DEF Ready
    <3> QED BY <1>2, <3>2, <3>3
  <2>2. \A i \in DOMAIN toSim : toSim[i].cmd = "O" => toSim[i].id \in 1 .. written'
    BY <1>1 DEF InOrder, LinkInOrder
  <2> QED BY <1>2, <2>1, <2>2 DEF InOrder, LinkInOrder, Ready
<1>6. LaterKept
  <2> SUFFICES ASSUME NEW k \in Nat, Later(k) PROVE Later(k)'
    BY DEF LaterKept
  <2>1. k <= written'
    BY <1>1 DEF Later
  <2>2. ASSUME NEW j \in 1 .. n + 1, Ready(messages'[j], "O") PROVE messages'[j].data.id > k
    <3>1. CASE j \in 1 .. n
      BY <1>2, <2>2, <3>1 DEF Later
    <3>2. CASE j = n + 1
      BY <1>1, <1>2, <2>2, <3>2 DEF Ready, Later
    <3> QED BY <1>2, <3>1, <3>2
  <2> QED BY <1>2, <2>1, <2>2 DEF Later, Ready
<1> QED BY <1>4, <1>5, <1>6 DEF InOrder

LEMMA QueueSends ==
  ASSUME ChannelsOK, PcTypeOK, InOrder, SendMessages
  PROVE  InOrder' /\ LaterKept
<1> DEFINE n == Len(messages)
           f == FirstReady
<1>1. messages \in Seq(Entries) /\ written \in Nat /\ toSim \in Seq(PcMessages)
  BY PcTypes, Bounds DEF ChannelsOK
<1>2. /\ messages' = [messages EXCEPT ![f].status = "PendingResponse"]
      /\ toSim' = toSim \/ toSim' = Append(toSim, messages[f].data)
      /\ written' = written
  BY DEF SendMessages
<1>3. /\ f \in 1 .. n /\ messages[f].status = "ReadyToSend"
      /\ \A j \in 1 .. n : messages[j].status = "ReadyToSend" => f <= j
  BY <1>1, FirstReadyFirst DEF SendMessages
<1>4. /\ DOMAIN messages' = 1 .. n /\ DOMAIN messages = 1 .. n /\ n \in Nat
      /\ \A j \in 1 .. n : /\ messages'[j].data = messages[j].data
                           /\ messages'[j].status = IF j = f THEN "PendingResponse" ELSE messages[j].status
  BY <1>1, <1>2, <1>3, Remarked
<1>5. messages[f].data \in PcMessages
  <2>1. messages[f] \in Entries
    BY <1>1, <1>3, ElementOfSeq
  <2> QED BY <2>1 DEF Entries
<1> HIDE DEF n, f
<1>6. \A j \in 1 .. n : Ready(messages'[j], "O") => Ready(messages[j], "O") /\ j > f
  BY <1>3, <1>4 DEF Ready
<1>7. QueueInOrder'
  <2>1. QueueInOrder
    BY DEF InOrder
  <2>2. \A i \in 1 .. n : messages'[i].data.cmd = "O" => messages'[i].data.id \in 1 .. written'
    BY <1>2, <1>4, <2>1 DEF QueueInOrder
  <2>3. \A i, j \in 1 .. n : i < j /\ Ready(messages'[i], "O") /\ Ready(messages'[j], "O")
          => messages'[i].data.id < messages'[j].data.id
    BY <1>4, <1>6, <2>1 DEF QueueInOrder
  <2> QED BY <1>4, <2>2, <2>3 DEF QueueInOrder, Ready
<1>8. ASSUME messages[f].data.cmd = "O"
      PROVE  /\ Ready(messages[f], "O") /\ messages[f].data.id \in 1 .. written
             /\ \A j \in 1 .. n : Ready(messages'[j], "O") => messages[j].data.id > messages[f].data.id
             /\ \A i \in DOMAIN toSim : toSim[i].cmd = "O" => toSim[i].id < messages[f].data.id
  <2>1. Ready(messages[f], "O")
    BY <1>3, <1>8 DEF Ready
  <2>2. messages[f].data.id \in 1 .. written
    BY <1>3, <1>4, <1>8 DEF InOrder, QueueInOrder
  <2>3. ASSUME NEW j \in 1 .. n, Ready(messages'[j], "O") PROVE messages[j].data.id > messages[f].data.id
    <3>1. messages[f].data.id < messages[j].data.id
      BY <1>3, <1>4, <1>6, <2>1, <2>3 DEF InOrder, QueueInOrder
    <3>2. messages[j].data.id \in 1 .. written
      BY <1>4, <1>6, <2>3 DEF InOrder, QueueInOrder, Ready
    <3> QED BY <1>1, <2>2, <3>1, <3>2
  <2>4. ASSUME NEW i \in DOMAIN toSim, toSim[i].cmd = "O" PROVE toSim[i].id < messages[f].data.id
    <3>1. messages[f].data.id > toSim[i].id /\ toSim[i].id \in 1 .. written
      BY <1>3, <1>4, <2>1, <2>4 DEF InOrder, LinkInOrder
    <3> QED BY <1>1, <2>2, <3>1
  <2> QED BY <2>1, <2>2, <2>3, <2>4
<1>9. LinkInOrder'
  <2>1. CASE toSim' = toSim
    <3>1. \A i \in DOMAIN toSim : toSim[i].cmd = "O" =>
            \A j \in 1 .. n : Ready(messages'[j], "O") => messages'[j].data.id > toSim[i].id
      BY <1>4, <1>6 DEF InOrder, LinkInOrder
    <3> QED BY <1>2, <1>4, <2>1, <3>1 DEF InOrder, LinkInOrder, Ready
  <2>2. CASE toSim' = Append(toSim, messages[f].data)
    <3> DEFINE k == Len(toSim)
    <3>1. /\ DOMAIN toSim = 1 .. k /\ k \in Nat /\ DOMAIN toSim' = 1 .. k + 1
          /\ toSim'[k + 1] = messages[f].data /\ \A i \in 1 .. k : toSim'[i] = toSim[i]
      BY <1>1, <1>5, <2>2, Pushed
    <3> HIDE DEF k
    <3>2. ASSUME NEW i \in 1 .. k + 1, NEW j \in 1 .. k + 1, i < j,
                 toSim'[i].cmd = "O", toSim'[j].cmd = "O"
          PROVE  toSim'[i].id < toSim'[j].id
      <4>1. i \in 1 .. k /\ toSim'[i] = toSim[i]
        BY <3>1, <3>2
      <4>2. CASE j \in 1 .. k
        BY <3>1, <3>2, <4>1, <4>2 DEF InOrder, LinkInOrder
      <4>3. CASE j = k + 1
        BY <1>8, <3>1, <3>2, <4>1, <4>3
      <4> QED BY <3>1, <4>2, <4>3
    <3>3. ASSUME NEW i \in 1 .. k + 1, toSim'[i].cmd = "O"
          PROVE  /\ toSim'[i].id \in 1 .. written'
                 /\ \A j \in 1 .. n : Ready(messages'[j], "O") => messages'[j].data.id > toSim'[i].id
      <4>1. CASE i \in 1 .. k
        BY <1>2, <1>4, <1>6, <3>1, <3>3, <4>1 DEF InOrder, LinkInOrder
      <4>2. CASE i = k + 1
        BY <1>2, <1>4, <1>8, <3>1, <3>3, <4>2
      <4> QED BY <3>1, <4>1, <4>2
    <3> QED BY <1>4, <3>1, <3>2, <3>3 DEF LinkInOrder, Ready
  <2> QED BY <1>2, <2>1, <2>2
<1>10. LaterKept
  <2> SUFFICES ASSUME NEW l \in Nat, Later(l) PROVE Later(l)'
    BY DEF LaterKept
  <2>1. l <= written'
    BY <1>2 DEF Later
  <2>2. \A j \in 1 .. n : Ready(messages'[j], "O") => messages'[j].data.id > l
    BY <1>4, <1>6 DEF Later
  <2>3. messages[f].data.cmd = "O" => messages[f].data.id > l
    BY <1>3, <1>4, <1>8 DEF Later
  <2>4. \A i \in DOMAIN toSim' : toSim'[i].cmd = "O" => toSim'[i].id > l
    <3>1. CASE toSim' = toSim
      BY <3>1 DEF Later
    <3>2. CASE toSim' = Append(toSim, messages[f].data)
      <4> DEFINE k == Len(toSim)
      <4>1. /\ DOMAIN toSim = 1 .. k /\ k \in Nat /\ DOMAIN toSim' = 1 .. k + 1
            /\ toSim'[k + 1] = messages[f].data /\ \A i \in 1 .. k : toSim'[i] = toSim[i]
        BY <1>1, <1>5, <3>2, Pushed
      <4> HIDE DEF k
      <4> QED BY <2>3, <4>1 DEF Later
    <3> QED BY <1>2, <3>1, <3>2
  <2> QED BY <1>4, <2>1, <2>2, <2>4 DEF Later, Ready
<1> QED BY <1>7, <1>9, <1>10 DEF InOrder

(* A refusal marks none of the data, and an acknowledgement removes one    *)
(* message, the others staying in order.                                   *)
LEMMA QueueKeeps ==
  ASSUME ChannelsOK, PcTypeOK, InOrder, UNCHANGED <<toSim, written>>,
         NEW n \in Nat, DOMAIN messages' = 1 .. n,
         NEW f, \A j \in 1 .. n :
           /\ f[j] \in DOMAIN messages /\ messages'[j].data = messages[f[j]].data
           /\ Ready(messages'[j], "O") => Ready(messages[f[j]], "O"),
         \A i, j \in 1 .. n : i < j => f[i] < f[j]
  PROVE  InOrder' /\ LaterKept
<1>1. QueueInOrder'
  <2>1. \A i \in 1 .. n : messages'[i].data.cmd = "O" => messages'[i].data.id \in 1 .. written'
    BY DEF InOrder, QueueInOrder
  <2>2. \A i, j \in 1 .. n : i < j /\ Ready(messages'[i], "O") /\ Ready(messages'[j], "O")
          => messages'[i].data.id < messages'[j].data.id
    BY DEF InOrder, QueueInOrder
  <2> QED BY <2>1, <2>2 DEF QueueInOrder, Ready
<1>2. LinkInOrder'
  <2>1. ASSUME NEW i \in DOMAIN toSim, toSim[i].cmd = "O",
               NEW j \in 1 .. n, Ready(messages'[j], "O")
        PROVE  messages'[j].data.id > toSim[i].id
    BY <2>1 DEF InOrder, LinkInOrder
  <2> QED BY <2>1 DEF InOrder, LinkInOrder, Ready
<1>3. LaterKept
  <2> SUFFICES ASSUME NEW k \in Nat, Later(k) PROVE Later(k)'
    BY DEF LaterKept
  <2>1. \A j \in 1 .. n : Ready(messages'[j], "O") => messages'[j].data.id > k
    BY DEF Later
  <2> QED BY <2>1 DEF Later, Ready
<1> QED BY <1>1, <1>2, <1>3 DEF InOrder

LEMMA QueueReads ==
  ASSUME ChannelsOK, PcTypeOK, InOrder, RefusalsOK, ReceiveNack \/ ReceiveAck
  PROVE  InOrder' /\ LaterKept
<1> DEFINE n == Len(messages)
<1>1. /\ messages \in Seq(Entries) /\ UNCHANGED <<toSim, written>>
      /\ DOMAIN messages = 1 .. n /\ n \in Nat
  BY PcTypes, LenProperties DEF ReceiveNack, ReceiveAck, Received
<1>2. CASE messages' = messages
  <2> DEFINE f == [j \in 1 .. n |-> j]
  <2>1. \A j \in 1 .. n : f[j] = j
    OBVIOUS
  <2> HIDE DEF f, n
  <2> QED BY <1>1, <1>2, <2>1, QueueKeeps
<1>3. CASE ReceiveNack /\ messages' # messages
  <2> DEFINE k == OldestWith(Head(toPC).want)
             f == [j \in 1 .. n |-> j]
  <2>1. Head(toPC).want \in {"U", "D"}
    <3>1. toPC # <<>> /\ Head(toPC).cmd = "E"
      BY <1>3 DEF ReceiveNack, Received
    <3>2. Head(toPC) = toPC[1] /\ 1 \in DOMAIN toPC
      BY <3>1, Popped DEF ChannelsOK
    <3> QED BY <3>1, <3>2 DEF RefusalsOK
  <2>2. k \in 1 .. n /\ messages[k].data.cmd \in {"U", "D"}
        /\ messages' = [messages EXCEPT ![k].status = "ReadyToSend"]
    BY <1>1, <1>3, <2>1, OldestWithFirst DEF ReceiveNack
  <2>3. \A j \in 1 .. n : f[j] = j
    OBVIOUS
  <2> HIDE DEF k, f
  <2>4. /\ DOMAIN messages' = 1 .. n
        /\ \A j \in 1 .. n : /\ messages'[j].data = messages[j].data
                             /\ j # k => messages'[j].status = messages[j].status
    BY <1>1, <2>2, Remarked
  <2>5. \A j \in 1 .. n : Ready(messages'[j], "O") => Ready(messages[j], "O")
    BY <2>2, <2>4 DEF Ready
  <2> HIDE DEF n
  <2> QED BY <1>1, <2>3, <2>4, <2>5, QueueKeeps
<1>4. CASE ReceiveAck /\ messages' # messages
  <2> DEFINE k == OldestWith(Head(toPC).got)
             f == [j \in 1 .. n - 1 |-> IF j < k THEN j ELSE j + 1]
  <2>1. k \in 1 .. n /\ messages' = RemoveAt(messages, k)
    BY <1>1, <1>4, OldestWithFirst DEF ReceiveAck
  <2>2. \A j \in 1 .. n - 1 : f[j] = IF j < k THEN j ELSE j + 1
    OBVIOUS
  <2> HIDE DEF k, f
  <2>3. /\ DOMAIN messages' = 1 .. n - 1
        /\ \A j \in 1 .. n - 1 : messages'[j] = IF j < k THEN messages[j] ELSE messages[j + 1]
    BY <1>1, <2>1, Removed
  <2> HIDE DEF n
  <2>4. n - 1 \in Nat
    BY <1>1, <2>1
  <2>5. \A j \in 1 .. n - 1 : f[j] \in 1 .. n /\ messages'[j] = messages[f[j]]
    BY <1>1, <2>1, <2>2, <2>3
  <2>6. \A i, j \in 1 .. n - 1 : i < j => f[i] < f[j]
    BY <1>1, <2>1, <2>2
  <2>7. \A j \in 1 .. n - 1 : /\ f[j] \in DOMAIN messages /\ messages'[j].data = messages[f[j]].data
                              /\ Ready(messages'[j], "O") => Ready(messages[f[j]], "O")
    BY <1>1, <2>5
  <2> QED BY <1>1, <2>3, <2>4, <2>6, <2>7, QueueKeeps
<1> QED BY <1>2, <1>3, <1>4

LEMMA QueueSteps ==
  ASSUME ChannelsOK, PcTypeOK, RefusalsOK, InOrder, PcNext
  PROVE  InOrder' /\ LaterKept
<1>1. /\ messages \in Seq(Entries) /\ replying \in Seq(PcMessages) /\ written \in 0 .. MaxData
  BY PcTypes
<1>2. CASE AttachDevice \/ DetachDevice
  <2>1. PcMessage("S", 1, 0) \in PcMessages /\ PcMessage("S", 0, 0) \in PcMessages
    BY Bounds DEF PcMessage, PcMessages, PcCommands
  <2>2. /\ Write(PcMessage("S", 1, 0)) \/ Write(PcMessage("S", 0, 0))
        /\ toSim' = toSim /\ written' = written
    BY <1>2 DEF AttachDevice, DetachDevice, channels
  <2>3. PcMessage("S", 1, 0).cmd # "O" /\ PcMessage("S", 0, 0).cmd # "O"
    BY DEF PcMessage
  <2> QED BY <2>1, <2>2, <2>3, QueueWrites
<1>3. CASE WriteOutgoingData
  <2>1. written + 1 \in 0 .. MaxRequests + MaxData
    BY <1>1, <1>3, Bounds DEF WriteOutgoingData
  <2>2. PcMessage("O", 1, written + 1) \in PcMessages
    BY <2>1 DEF PcMessage, PcMessages, PcCommands
  <2>3. /\ Write(PcMessage("O", 1, written + 1)) /\ toSim' = toSim /\ written' = written + 1
    BY <1>3 DEF WriteOutgoingData, channels
  <2>4. /\ PcMessage("O", 1, written + 1).cmd = "O"
        /\ PcMessage("O", 1, written + 1).id = written + 1
    BY DEF PcMessage
  <2> QED BY <2>2, <2>3, <2>4, QueueWrites
<1>4. CASE QueueReply
  <2>1. Head(replying) \in PcMessages /\ Head(replying).cmd # "O"
    BY <1>1, <1>4, HeadTailProperties DEF QueueReply, RefusalsOK
  <2>2. Write(Head(replying)) /\ toSim' = toSim /\ written' = written
    BY <1>4 DEF QueueReply, channels
  <2> QED BY <2>1, <2>2, QueueWrites
<1>5. CASE SendMessages
  BY <1>5, QueueSends
<1>6. CASE ReceiveNack \/ ReceiveAck
  BY <1>6, QueueReads
<1>7. CASE ReceiveOther \/ ReceiveControlRequest \/ ReceiveDescriptorRequest
  <2>1. UNCHANGED <<messages, toSim, written>>
    BY <1>7 DEF ReceiveOther, ReceiveControlRequest, ReceiveDescriptorRequest, Received
  <2> QED BY <2>1 DEF InOrder, QueueInOrder, LinkInOrder, LaterKept, Later, Ready
<1> QED BY <1>2, <1>3, <1>4, <1>5, <1>6, <1>7 DEF PcNext, Reader

-----------------------------------------------------------------------------
(* The simulator's steps: a packet is taken from toSim, and so earlier than*)
(* what is left of it.                                                     *)
LEMMA LinkSteps ==
  ASSUME ChannelsOK, InOrder, UNCHANGED <<messages, written>>,
         \/ toSim' = toSim
         \/ toSim # <<>> /\ toSim' = Tail(toSim)
         \/ toSim' = <<>>
  PROVE  InOrder' /\ LaterKept
<1> DEFINE n == Len(toSim)
<1>1. CASE toSim' = toSim \/ toSim' = <<>>
  BY <1>1 DEF InOrder, QueueInOrder, LinkInOrder, LaterKept, Later, Ready
<1>2. CASE toSim # <<>> /\ toSim' = Tail(toSim)
  <2>1. /\ DOMAIN toSim = 1 .. n /\ n \in Nat /\ DOMAIN toSim' = 1 .. n - 1
        /\ \A i \in 1 .. n - 1 : toSim'[i] = toSim[i + 1]
    BY <1>2, Popped DEF ChannelsOK
  <2> HIDE DEF n
  <2>2. QueueInOrder'
    BY DEF InOrder, QueueInOrder, Ready
  <2>3. LinkInOrder'
    <3>1. \A i \in 1 .. n - 1 : toSim'[i].cmd = "O" =>
            /\ toSim'[i].id \in 1 .. written
            /\ \A j \in DOMAIN messages : Ready(messages[j], "O") => messages[j].data.id > toSim'[i].id
      BY <2>1 DEF InOrder, LinkInOrder
    <3>2. \A i, j \in 1 .. n - 1 : i < j /\ toSim'[i].cmd = "O" /\ toSim'[j].cmd = "O"
            => toSim'[i].id < toSim'[j].id
      <4> SUFFICES ASSUME NEW i \in 1 .. n - 1, NEW j \in 1 .. n - 1, i < j,
                          toSim'[i].cmd = "O", toSim'[j].cmd = "O"
                   PROVE  toSim'[i].id < toSim'[j].id
        OBVIOUS
      <4>1. i + 1 \in 1 .. n /\ j + 1 \in 1 .. n /\ i + 1 < j + 1
        BY <2>1
      <4> QED BY <2>1, <4>1 DEF InOrder, LinkInOrder
    <3> QED BY <2>1, <3>1, <3>2 DEF LinkInOrder, Ready
  <2>4. LaterKept
    BY <2>1 DEF LaterKept, Later, Ready
  <2> QED BY <2>2, <2>3, <2>4 DEF InOrder
<1> QED BY <1>1, <1>2

(* The head of toSim is earlier than all after it. *)
LEMMA HeadIsNext ==
  ASSUME ChannelsOK, InOrder, toSim # <<>>, toSim' = Tail(toSim), UNCHANGED <<messages, written>>,
         Head(toSim).cmd = "O", NEW k, k = Head(toSim).id
  PROVE  k \in Nat /\ Later(k)' /\ \A n \in Nat : Later(n) => n < k
<1> DEFINE n == Len(toSim)
<1>1. /\ DOMAIN toSim = 1 .. n /\ n \in Nat /\ n >= 1 /\ DOMAIN toSim' = 1 .. n - 1
      /\ Head(toSim) = toSim[1] /\ \A i \in 1 .. n - 1 : toSim'[i] = toSim[i + 1]
  BY Popped DEF ChannelsOK
<1> HIDE DEF n
<1>2. toSim[1].id = k /\ k \in 1 .. written /\ 1 \in DOMAIN toSim /\ toSim[1].cmd = "O"
  BY <1>1 DEF InOrder, LinkInOrder
<1>3. ASSUME NEW i \in 1 .. n - 1, toSim'[i].cmd = "O" PROVE toSim'[i].id > k
  <2>1. i + 1 \in 1 .. n /\ 1 < i + 1 /\ toSim'[i] = toSim[i + 1]
    BY <1>1
  <2>2. k < toSim[i + 1].id /\ toSim[i + 1].id \in 1 .. written
    BY <1>1, <1>2, <1>3, <2>1 DEF InOrder, LinkInOrder
  <2> QED BY <1>2, <2>1, <2>2
<1>4. \A j \in DOMAIN messages : Ready(messages[j], "O") => messages[j].data.id > k
  BY <1>2 DEF InOrder, LinkInOrder
<1>5. Later(k)'
  BY <1>1, <1>2, <1>3, <1>4 DEF Later, Ready
<1>6. ASSUME NEW l \in Nat, Later(l) PROVE l < k
  BY <1>2, <1>6 DEF Later
<1> QED BY <1>2, <1>5, <1>6

-----------------------------------------------------------------------------
(* What has been put into the bank and what the host has read stay before  *)
(* what comes.                                                             *)
PastKept == \A c \in Chunks : Past(c) => Past(c)'

(* Where the firmware is, as far as the packet in receiveBuffer goes.      *)
SamePlace == /\ UNCHANGED <<buffer, part>> /\ Writing' = Writing
             /\ rx' = "full" => rx = "full"

LEMMA ChunkIds == \A c \in Chunks : c.msg \in PcMessages /\ c.msg.id \in Nat /\ c.part \in Nat
BY Bounds DEF Chunks, PcMessages

LEMMA SamePlacePast ==
  ASSUME LaterKept, BufferInOrder, buffer \in PcMessages, SamePlace
  PROVE  PastKept /\ BufferInOrder'
<1>1. \A c \in Chunks : Later(c.msg.id) => Later(c.msg.id)'
  BY ChunkIds DEF LaterKept
<1>2. buffer.id \in Nat /\ buffer' = buffer
  BY Bounds DEF PcMessages, SamePlace
<1>3. Later(buffer.id) => Later(buffer.id)'
  <2>1. \A n \in Nat : n = buffer.id => (Later(n) => Later(n)')
    BY DEF LaterKept
  <2> QED BY <1>2, <2>1 DEF Later
<1>4. PastKept
  BY <1>1 DEF PastKept, Past, SamePlace, DataInBuffer
<1> QED BY <1>2, <1>3, <1>4 DEF BufferInOrder, SamePlace, DataInBuffer

(* No data in receiveBuffer any more. *)
LEMMA NoDataPast ==
  ASSUME LaterKept, ~DataInBuffer' PROVE PastKept /\ BufferInOrder'
<1>1. \A c \in Chunks : Later(c.msg.id) => Later(c.msg.id)'
  BY ChunkIds DEF LaterKept
<1> QED BY <1>1 DEF PastKept, Past, BufferInOrder

LEMMA SameChunks ==
  ASSUME SimTypeOK, PastKept, ChunksInOrder, DataInOrder, hostData' = hostData,
         inBank' = inBank \/ inBank' = <<>>
  PROVE  ChunksInOrder' /\ DataInOrder'
<1>1. \A i \in DOMAIN hostData : hostData[i] \in Chunks
  BY ElementOfSeq DEF SimTypeOK
<1>2. \A k \in DOMAIN inBank : inBank[k] \in Chunks
  BY ElementOfSeq DEF SimTypeOK
<1>3. DataInOrder'
  BY DEF DataInOrder
<1>4. \A i \in DOMAIN hostData' : Past(hostData[i])'
  BY <1>1 DEF PastKept, ChunksInOrder
<1>5. \A k \in DOMAIN inBank' : inBank' = inBank /\ Past(inBank[k])'
  BY <1>2 DEF PastKept, ChunksInOrder
<1> QED BY <1>3, <1>4, <1>5 DEF ChunksInOrder, Past

(* The steps that leave the packet in receiveBuffer where it is. *)
Staying ==
  \/ FinishSend \/ WaitForPacket \/ EndReceive \/ HandleNothing \/ UsbTask \/ USBIO_Task
  \/ DecideControl \/ DecideDescriptor
  \/ (HostResets \/ HostRequest \/ HostSendsOut) /\ UNCHANGED channels

LEMMA StayingPlace ==
  ASSUME LinkInv, Staying
  PROVE  /\ SamePlace /\ UNCHANGED <<toSim, hostData>>
         /\ inBank' = inBank \/ inBank' = <<>>
<1>1. BanksLeft /\ task \in Tasks
  BY DEF LinkInv, SimTypeOK
<1>2. CASE FinishSend
  <2>1. UNCHANGED <<buffer, part, rx, toSim, hostData, inBank>>
    BY <1>2 DEF FinishSend
  <2>2. Writing' = Writing
    <3>1. CASE task \in {"sendC", "sendAck", "sendI"}
      <4>1. task' \in {"sendAck", "idle"}
        BY <1>2, <3>1 DEF FinishSend, AckBuffer, StartSend
      <4> QED BY <3>1, <4>1 DEF Writing, Asking
    <3>2. CASE task \notin {"sendC", "sendAck", "sendI"}
      <4>1. task \in Asking /\ task' \in Asking /\ main' = main
        BY <1>2, <3>2 DEF FinishSend, Asking
      <4>2. task \notin {"nested", "write"} /\ task' \notin {"nested", "write"}
        BY <4>1 DEF Asking
      <4> QED BY <4>1, <4>2 DEF Writing
    <3> QED BY <3>1, <3>2
  <2> QED BY <2>1, <2>2 DEF SamePlace
<1>3. CASE WaitForPacket
  <2>1. UNCHANGED <<buffer, part, main, toSim, hostData, inBank>> /\ rx' = "empty"
    BY <1>3 DEF WaitForPacket, channels
  <2>2. task \in {"waitU", "waitD"} /\ task' \in {"ackU", "ackD", "nackU", "nackD"}
    BY <1>3 DEF WaitForPacket, StartSend, Waiting
  <2> QED BY <2>1, <2>2 DEF SamePlace, Writing, Asking
<1>4. CASE EndReceive \/ HandleNothing
  <2>1. UNCHANGED <<buffer, part, rx, task, toSim, hostData, inBank>>
    BY <1>4 DEF EndReceive, HandleNothing, channels
  <2>2. \/ main # "usb" /\ main' # "usb"
        \/ task = "idle"
    BY <1>4 DEF EndReceive, HandleNothing
  <2> QED BY <2>1, <2>2 DEF SamePlace, Writing, Asking
<1>5. CASE UsbTask
  <2>1. UNCHANGED <<buffer, part, rx, toSim, hostData, inBank>>
    BY <1>5 DEF UsbTask, channels
  <2>2. CASE main = "usb"
    <3>1. task = "idle"
      BY <1>1, <1>5, <2>2 DEF UsbTask, BanksLeft
    <3>2. task' = "idle" \/ (task' = "sendU" /\ main' = "usb")
      BY <1>5, <2>2 DEF UsbTask, StartSend
    <3> QED BY <2>1, <3>1, <3>2 DEF SamePlace, Writing, Asking
  <2>3. CASE main # "usb"
    <3>1. task = "nested" /\ main' = main /\ task' \in {"sendU", "write"}
      BY <1>5, <2>3 DEF UsbTask, StartSend
    <3> QED BY <2>1, <2>3, <3>1 DEF SamePlace, Writing, Asking
  <2> QED BY <2>2, <2>3
<1>6. CASE USBIO_Task
  <2>1. UNCHANGED <<buffer, part, rx, toSim, hostData, inBank>>
    BY <1>6 DEF USBIO_Task, channels
  <2>2. task = "idle" /\ task' \in {"idle", "sendI"}
    BY <1>6 DEF USBIO_Task, StartSend
  <2> QED BY <2>1, <2>2 DEF SamePlace, Writing, Asking
<1>7. CASE DecideControl \/ DecideDescriptor
  <2>1. /\ UNCHANGED <<buffer, part, rx, toSim, hostData>>
        /\ inBank' = inBank \/ inBank' = <<>>
    BY <1>7 DEF DecideControl, HangInRequest, EndRequest, AskDescriptor, DecideDescriptor, channels
  <2>2. /\ task \in {"decideU", "decideD"}
        /\ \/ main = "usb" /\ main' = "io" /\ task' = "idle"
           \/ main # "usb" /\ main' = main /\ task' = "write"
           \/ main' = main /\ task' \in {"sendD", "stuck"}
    BY <1>7 DEF DecideControl, HangInRequest, EndRequest, AskDescriptor, DecideDescriptor, Return,
       StartSend
  <2> QED BY <2>1, <2>2 DEF SamePlace, Writing, Asking
<1>8. CASE (HostResets \/ HostRequest \/ HostSendsOut) /\ UNCHANGED channels
  BY <1>8 DEF HostResets, HostRequest, HostSendsOut, SamePlace, Writing, channels
<1> QED BY <1>2, <1>3, <1>4, <1>5, <1>6, <1>7, <1>8 DEF Staying

LEMMA OrderParts == OrderInv => RefusalsOK /\ InOrder /\ BufferInOrder /\ ChunksInOrder /\ DataInOrder
BY DEF OrderInv, InOrder

LEMMA StayingOrder ==
  ASSUME LinkInv, OrderInv, Staying, UNCHANGED <<messages, written>>
  PROVE  InOrder' /\ BufferInOrder' /\ ChunksInOrder' /\ DataInOrder'
<1>1. ChannelsOK /\ SimTypeOK /\ buffer \in PcMessages
  BY DEF LinkInv, SimTypeOK
<1>2. SamePlace /\ toSim' = toSim /\ hostData' = hostData /\ (inBank' = inBank \/ inBank' = <<>>)
  BY StayingPlace
<1>3. InOrder' /\ LaterKept
  BY <1>1, <1>2, OrderParts, LinkSteps
<1>4. PastKept /\ BufferInOrder'
  BY <1>1, <1>2, <1>3, OrderParts, SamePlacePast
<1> QED BY <1>1, <1>2, <1>3, <1>4, OrderParts, SameChunks

(* The PC does not touch the buffer. *)
LEMMA PcOrder ==
  ASSUME LinkInv, OrderInv, PcStep
  PROVE  InOrder' /\ BufferInOrder' /\ ChunksInOrder' /\ DataInOrder'
<1>1. ChannelsOK /\ PcTypeOK /\ SimTypeOK /\ buffer \in PcMessages
  BY DEF LinkInv, SimTypeOK
<1>2. PcNext /\ SamePlace /\ UNCHANGED <<hostData, inBank>>
  BY DEF PcStep, simVars, SamePlace, Writing
<1>3. InOrder' /\ LaterKept
  BY <1>1, <1>2, OrderParts, QueueSteps
<1>4. PastKept /\ BufferInOrder'
  BY <1>1, <1>2, <1>3, OrderParts, SamePlacePast
<1> QED BY <1>1, <1>2, <1>3, <1>4, OrderParts, SameChunks

(* A packet that is received is the next of those on the link. *)
LEMMA ReceiveOrder ==
  ASSUME LinkInv, OrderInv, Receive, UNCHANGED <<messages, written>>
  PROVE  InOrder' /\ BufferInOrder' /\ ChunksInOrder' /\ DataInOrder'
<1>1. ChannelsOK /\ SimTypeOK /\ buffer \in PcMessages
  BY DEF LinkInv, SimTypeOK
<1>2. /\ toSim # <<>> /\ UNCHANGED <<main, task, part, hostData, inBank>>
      /\ toSim' = toSim \/ toSim' = Tail(toSim)
  BY DEF Receive, ReceiveLength, ReceiveSome, ReceiveRest, ReceiveShifted
<1>3. InOrder' /\ LaterKept
  BY <1>1, <1>2, OrderParts, LinkSteps
<1>4. PastKept /\ BufferInOrder'
  <2>1. CASE ReceiveLength
    <3>1. buffer' = buffer /\ rx' = "partial"
      BY <2>1 DEF ReceiveLength
    <3>2. SamePlace
      BY <1>2, <3>1 DEF SamePlace, Writing
    <3> QED BY <1>1, <1>3, <3>2, OrderParts, SamePlacePast
  <2>2. CASE ReceiveSome \/ ReceiveShifted
    <3>1. buffer'.id = Mixed
      BY <2>2 DEF ReceiveSome, ReceiveShifted, PcMessage
    <3> QED BY <1>3, <3>1, NoDataPast DEF DataInBuffer
  <2>3. CASE ReceiveRest /\ Head(toSim).cmd = "O"
    <3>1. buffer' = Head(toSim) /\ toSim' = Tail(toSim)
      BY <2>3 DEF ReceiveRest
    <3>2. ASSUME NEW k, k = Head(toSim).id
          PROVE  k \in Nat /\ Later(k)' /\ \A n \in Nat : Later(n) => n < k
      BY <1>1, <1>2, <2>3, <3>1, <3>2, OrderParts, HeadIsNext
    <3>3. ASSUME NEW c \in Chunks, Past(c), Intact(c) PROVE Past(c)'
      <4>1. c.msg.id \in Nat /\ Later(c.msg.id) /\ Later(c.msg.id)'
        BY <1>3, <3>3, ChunkIds DEF Past, LaterKept
      <4>2. c.msg.id < Head(toSim).id /\ Head(toSim).id \in Nat
        BY <3>2, <4>1
      <4> QED BY <3>1, <4>1, <4>2 DEF Past
    <3>4. \A k : k = Head(toSim).id => Later(k)'
      BY <3>2
    <3> QED BY <3>1, <3>3, <3>4 DEF PastKept, Past, BufferInOrder, Later
  <2>4. CASE ReceiveRest /\ Head(toSim).cmd # "O"
    <3>1. buffer'.cmd # "O"
      BY <2>4 DEF ReceiveRest
    <3> QED BY <1>3, <3>1, NoDataPast DEF DataInBuffer
  <2> QED BY <2>1, <2>2, <2>3, <2>4 DEF Receive
<1> QED BY <1>1, <1>2, <1>3, <1>4, OrderParts, SameChunks

(* A bank is filled from the packet in receiveBuffer. *)
LEMMA FilledOrder ==
  ASSUME SimTypeOK, PastKept, ChunksInOrder, DataInOrder, hostData' = hostData,
         NEW c \in Chunks, inBank' = <<c>>, Past(c)',
         \A d \in Chunks : Intact(d) /\ Intact(c) /\ Past(d) => Before(d, c)
  PROVE  ChunksInOrder' /\ DataInOrder'
<1>1. \A i \in DOMAIN hostData : hostData[i] \in Chunks /\ Past(hostData[i])
  BY ElementOfSeq DEF SimTypeOK, ChunksInOrder
<1>2. DataInOrder'
  BY DEF DataInOrder
<1>3. \A i \in DOMAIN hostData : Past(hostData[i])' /\ hostData'[i] = hostData[i]
  BY <1>1 DEF PastKept
<1>4. DOMAIN inBank' = {1} /\ inBank'[1] = c
  OBVIOUS
<1>5. \A i \in DOMAIN hostData : Intact(hostData[i]) /\ Intact(c) => Before(hostData[i], c)
  BY <1>1
<1> QED BY <1>2, <1>3, <1>4, <1>5 DEF ChunksInOrder, Past

LEMMA HandleOrder ==
  ASSUME LinkInv, OrderInv, HandleReceivedPacket, UNCHANGED <<messages, written>>
  PROVE  InOrder' /\ BufferInOrder' /\ ChunksInOrder' /\ DataInOrder'
<1>1. ChannelsOK /\ SimTypeOK /\ buffer \in PcMessages /\ buffer.id \in Nat
  BY Bounds DEF LinkInv, SimTypeOK, PcMessages
<1>2. /\ task = "idle" /\ rx = "full" /\ rx' = "empty"
      /\ UNCHANGED <<toSim, buffer, hostData>>
  BY DEF HandleReceivedPacket, channels
<1>3. InOrder' /\ LaterKept
  BY <1>1, <1>2, OrderParts, LinkSteps
<1>4. BufferInOrder' /\ ~Writing
  <2>1. DataInBuffer => Later(buffer.id)
    BY OrderParts DEF BufferInOrder
  <2>2. \A n \in Nat : n = buffer.id => (Later(n) => Later(n)')
    BY <1>3 DEF LaterKept
  <2>3. Later(buffer.id) => Later(buffer.id)'
    BY <1>1, <1>2, <2>2 DEF Later
  <2> QED BY <1>2, <2>1, <2>3 DEF BufferInOrder, DataInBuffer, Writing, Asking
<1>5. \A c \in Chunks : Intact(c) /\ Past(c) /\ DataInBuffer => c.msg.id < buffer.id
  BY <1>1, <1>2, <1>4, ChunkIds DEF Past
<1>6. PastKept
  <2> SUFFICES ASSUME NEW c \in Chunks, Past(c), Intact(c) PROVE Past(c)'
    BY DEF PastKept, Past
  <2>1. Later(c.msg.id)'
    BY <1>3, ChunkIds DEF Past, LaterKept
  <2>2. DataInBuffer' => c.msg.id < buffer'.id /\ c.msg.id \in Nat /\ buffer'.id \in Nat
    BY <1>1, <1>2, <1>5, ChunkIds DEF DataInBuffer
  <2> QED BY <2>1, <2>2 DEF Past
<1>7. CASE inBank' = inBank
  BY <1>1, <1>2, <1>3, <1>4, <1>6, <1>7, OrderParts, SameChunks
<1>8. CASE inBank' # inBank
  <2>c. PICK c : c = [msg |-> buffer, part |-> 1]
    OBVIOUS
  <2>1. inBank' = <<c>> /\ part' = 1
    BY <1>8, <2>c DEF HandleReceivedPacket, FillBank
  <2>2. c \in Chunks /\ c.msg = buffer /\ c.part = 1
    BY <1>1, <2>c, Bounds DEF Chunks
  <2>3. Past(c)'
    <3>1. Intact(c) => DataInBuffer'
      BY <1>2, <2>2 DEF Intact, DataInBuffer
    <3>2. Intact(c) => Later(buffer.id)'
      BY <1>4, <3>1 DEF BufferInOrder, Later
    <3>3. Intact(c) => Later(c.msg.id)'
      BY <1>2, <2>2, <3>2 DEF Later
    <3> QED BY <1>1, <1>2, <2>1, <2>2, <3>3 DEF Past
  <2>4. \A d \in Chunks : Intact(d) /\ Intact(c) /\ Past(d) => Before(d, c)
    BY <1>5, <2>2 DEF Before, Intact, DataInBuffer
  <2>5. ChunksInOrder' /\ DataInOrder'
    BY <1>1, <1>2, <1>6, <2>1, <2>2, <2>3, <2>4, OrderParts, FilledOrder
  <2> QED BY <1>3, <1>4, <2>5
<1> QED BY <1>7, <1>8

LEMMA WriteOrder ==
  ASSUME LinkInv, OrderInv, WriteStream, UNCHANGED <<messages, written>>
  PROVE  InOrder' /\ BufferInOrder' /\ ChunksInOrder' /\ DataInOrder'
<1>1. /\ ChannelsOK /\ SimTypeOK /\ buffer \in PcMessages /\ buffer.id \in Nat
      /\ part \in Nat /\ part < Banks /\ main # "usb"
  BY Bounds DEF LinkInv, SimTypeOK, PcMessages, BanksLeft, WriteStream
<1>2. /\ task = "write" /\ Writing
      /\ UNCHANGED <<main, toSim, buffer, hostData>>
      /\ part' = part \/ (part' = part + 1 /\ inBank' = <<[msg |-> buffer, part |-> part + 1]>>)
      /\ part' = part => inBank' = inBank
      /\ Writing' \/ rx' # "full"
  <2>1. /\ task = "write" /\ Writing /\ UNCHANGED <<main, toSim, buffer, hostData>>
    BY DEF WriteStream, channels, Writing
  <2>2. part' # part => part' = part + 1 /\ inBank' = <<[msg |-> buffer, part |-> part + 1]>>
    BY DEF WriteStream, FillBank
  <2>3. part' = part => inBank' = inBank
    BY <1>1 DEF WriteStream, FillBank
  <2>4. task' = "nested" \/ RestartCount
    BY DEF WriteStream
  <2>5. RestartCount => rx' # "full"
    BY DEF RestartCount
  <2> QED BY <2>1, <2>2, <2>3, <2>4, <2>5 DEF Writing
<1>3. InOrder' /\ LaterKept
  BY <1>1, <1>2, OrderParts, LinkSteps
<1>4. BufferInOrder'
  <2>1. DataInBuffer => Later(buffer.id)
    BY OrderParts DEF BufferInOrder
  <2>2. \A n \in Nat : n = buffer.id => (Later(n) => Later(n)')
    BY <1>3 DEF LaterKept
  <2>3. Later(buffer.id) => Later(buffer.id)'
    BY <1>1, <1>2, <2>2 DEF Later
  <2> QED BY <1>2, <2>1, <2>3 DEF BufferInOrder, DataInBuffer
<1>5. \A c \in Chunks : Intact(c) /\ Past(c) /\ DataInBuffer =>
        c.msg.id <= buffer.id /\ (c.msg.id = buffer.id => c.part <= part)
  BY <1>2 DEF Past
<1>6. PastKept
  <2> SUFFICES ASSUME NEW c \in Chunks, Past(c), Intact(c) PROVE Past(c)'
    BY DEF PastKept, Past
  <2>1. Later(c.msg.id)'
    BY <1>3, ChunkIds DEF Past, LaterKept
  <2>2. DataInBuffer' => c.msg.id <= buffer'.id /\ (c.msg.id = buffer'.id => c.part <= part')
    BY <1>1, <1>2, <1>5, ChunkIds DEF DataInBuffer
  <2> QED BY <1>2, <2>1, <2>2 DEF Past
<1>7. CASE part' = part
  BY <1>1, <1>2, <1>3, <1>4, <1>6, <1>7, OrderParts, SameChunks
<1>8. CASE part' # part
  <2>c. PICK c : c = [msg |-> buffer, part |-> part + 1]
    OBVIOUS
  <2>1. inBank' = <<c>> /\ part' = part + 1
    BY <1>2, <1>8, <2>c
  <2>2. c \in Chunks /\ c.msg = buffer /\ c.part = part + 1
    BY <1>1, <2>c, Bounds DEF Chunks
  <2>3. Past(c)'
    <3>1. Intact(c) => DataInBuffer'
      BY <1>2, <2>2 DEF Intact, DataInBuffer
    <3>2. Intact(c) => Later(buffer.id)'
      BY <1>4, <3>1 DEF BufferInOrder, Later
    <3>3. Intact(c) => Later(c.msg.id)'
      BY <1>2, <2>2, <3>2 DEF Later
    <3> QED BY <1>1, <1>2, <2>1, <2>2, <3>3 DEF Past
  <2>4. \A d \in Chunks : Intact(d) /\ Intact(c) /\ Past(d) => Before(d, c)
    <3> SUFFICES ASSUME NEW d \in Chunks, Intact(d), Intact(c), Past(d) PROVE Before(d, c)
      OBVIOUS
    <3>1. d.msg.id <= buffer.id /\ (d.msg.id = buffer.id => d.part <= part)
      BY <1>5, <2>2 DEF Intact, DataInBuffer
    <3>2. d.msg.id \in Nat /\ d.part \in Nat
      BY ChunkIds
    <3> QED BY <1>1, <2>2, <3>1, <3>2 DEF Before
  <2>5. ChunksInOrder' /\ DataInOrder'
    BY <1>1, <1>2, <1>6, <2>1, <2>2, <2>3, <2>4, OrderParts, FilledOrder
  <2> QED BY <1>3, <1>4, <2>5
<1> QED BY <1>7, <1>8

(* The host appends what the bank holds to what it has read. *)
LEMMA ReadInOrder ==
  ASSUME LinkInv, OrderInv, HostReadsIn, UNCHANGED <<messages, written, toSim>>
  PROVE  InOrder' /\ BufferInOrder' /\ ChunksInOrder' /\ DataInOrder'
<1>1. ChannelsOK /\ SimTypeOK /\ buffer \in PcMessages
  BY DEF LinkInv, SimTypeOK
<1>2. SamePlace /\ hostData' = hostData \o inBank /\ inBank' = <<>> /\ inBank # <<>>
  BY DEF HostReadsIn, SamePlace, Writing
<1>3. InOrder' /\ LaterKept
  BY <1>1, <1>2, OrderParts, LinkSteps
<1>4. PastKept /\ BufferInOrder'
  BY <1>1, <1>2, <1>3, OrderParts, SamePlacePast
<1>5. Len(inBank) = 1 /\ DOMAIN inBank = {1} /\ inBank[1] \in Chunks
  <2>1. inBank \in Seq(Chunks) /\ Len(inBank) \in Nat /\ DOMAIN inBank = 1 .. Len(inBank)
    BY <1>1, LenProperties DEF SimTypeOK
  <2>2. \A k \in 1 .. Len(inBank) : k = 1
    BY <2>1, OrderParts DEF ChunksInOrder
  <2>3. Len(inBank) >= 1
    BY <1>2, <2>1, EmptySeq
  <2>4. Len(inBank) \in 1 .. Len(inBank)
    BY <2>1, <2>3
  <2> QED BY <2>1, <2>2, <2>4, ElementOfSeq
<1> DEFINE n == Len(hostData)
<1>6. /\ n \in Nat /\ DOMAIN hostData = 1 .. n /\ DOMAIN hostData' = 1 .. n + 1
      /\ hostData'[n + 1] = inBank[1]
      /\ \A i \in 1 .. n : hostData'[i] = hostData[i] /\ hostData[i] \in Chunks
  <2>1. hostData \in Seq(Chunks) /\ inBank \in Seq(Chunks)
    BY <1>1 DEF SimTypeOK
  <2> HIDE DEF Chunks
  <2> QED BY <1>2, <1>5, <2>1, ConcatProperties, LenProperties, ElementOfSeq
<1> HIDE DEF n
<1>7. /\ Past(inBank[1]) /\ \A i \in 1 .. n : Past(hostData[i])
      /\ \A i \in 1 .. n : Intact(hostData[i]) /\ Intact(inBank[1]) => Before(hostData[i], inBank[1])
  BY <1>5, <1>6, OrderParts DEF ChunksInOrder
<1>8. \A i \in 1 .. n + 1 : Past(hostData[i])'
  <2>1. \A c \in Chunks : Past(c) => Past(c)'
    BY <1>4 DEF PastKept
  <2>2. \A i \in 1 .. n + 1 : \E c \in Chunks : hostData'[i] = c /\ Past(c)'
    BY <1>5, <1>6, <1>7, <2>1
  <2> QED BY <2>2 DEF Past
<1>9. DataInOrder'
  <2> SUFFICES ASSUME NEW i \in 1 .. n + 1, NEW j \in 1 .. n + 1, i < j,
                      Intact(hostData'[i]), Intact(hostData'[j])
               PROVE  Before(hostData'[i], hostData'[j])
    BY <1>6 DEF DataInOrder, Intact, Before
  <2>1. i \in 1 .. n /\ hostData'[i] = hostData[i]
    BY <1>6
  <2>2. CASE j \in 1 .. n
    <3>1. DataInOrder
      BY OrderParts
    <3> QED BY <1>6, <2>1, <2>2, <3>1 DEF DataInOrder
  <2>3. CASE j = n + 1
    BY <1>6, <1>7, <2>1, <2>3
  <2> QED BY <1>6, <2>2, <2>3
<1>10. ChunksInOrder'
  BY <1>2, <1>6, <1>8 DEF ChunksInOrder
<1> QED BY <1>3, <1>4, <1>9, <1>10

(* After a reset nothing is on the link, and the queue is what it was. *)
LEMMA ResetOrder ==
  ASSUME LinkInv, OrderInv, Reset
  PROVE  InOrder' /\ BufferInOrder' /\ ChunksInOrder' /\ DataInOrder'
<1>1. ChannelsOK /\ SimTypeOK
  BY DEF LinkInv
<1>2. /\ UNCHANGED <<messages, written, hostData>> /\ toSim' = <<>> /\ inBank' = <<>>
      /\ buffer'.cmd = "?"
  BY DEF Reset, Restart, pcVars, PcMessage
<1>3. InOrder' /\ LaterKept
  BY <1>1, <1>2, OrderParts, LinkSteps
<1>4. PastKept /\ BufferInOrder'
  BY <1>2, <1>3, NoDataPast DEF DataInBuffer
<1> QED BY <1>1, <1>2, <1>3, <1>4, OrderParts, SameChunks

LEMMA OrderStep == LinkInv /\ OrderInv /\ [Next]_vars => OrderInv'
<1> SUFFICES ASSUME LinkInv, OrderInv, [Next]_vars PROVE OrderInv'
  OBVIOUS
<1>1. InOrder' /\ BufferInOrder' /\ ChunksInOrder' /\ DataInOrder' => OrderInv'
  BY RefusalsStep, OrderParts DEF OrderInv, InOrder
<1>2. CASE PcStep
  BY <1>1, <1>2, PcOrder
<1>3. CASE SimStep
  <2>1. SimNext /\ UNCHANGED <<messages, written>>
    BY <1>3 DEF SimStep, pcVars
  <2>2. Staying \/ Receive \/ HandleReceivedPacket \/ WriteStream
    BY <2>1 DEF SimNext, SimLoop, Staying
  <2> QED BY <1>1, <2>1, <2>2, StayingOrder, ReceiveOrder, HandleOrder, WriteOrder
<1>4. CASE HostStep
  <2>1. Host /\ UNCHANGED <<messages, written, toSim>> /\ UNCHANGED channels
    BY <1>4 DEF HostStep, pcVars, channels
  <2>2. Staying \/ HostReadsIn
    BY <2>1 DEF Host, Staying
  <2> QED BY <1>1, <2>1, <2>2, StayingOrder, ReadInOrder
<1>5. CASE Reset
  BY <1>1, <1>5, ResetOrder
<1>6. CASE UNCHANGED vars
  BY <1>6 DEF vars, pcVars, simVars, channels, OrderInv, RefusalsOK, QueueInOrder, LinkInOrder,
     BufferInOrder, ChunksInOrder, DataInOrder, Past, Later, DataInBuffer, Writing, Ready
<1> QED BY <1>2, <1>3, <1>4, <1>5, <1>6 DEF Next

LEMMA OrderInit == Init => OrderInv
<1> SUFFICES ASSUME Init PROVE OrderInv
  OBVIOUS
<1>1. /\ toSim = <<>> /\ toPC = <<>> /\ messages = <<>> /\ replying = <<>>
      /\ hostData = <<>> /\ inBank = <<>> /\ buffer.cmd = "?" /\ tx.cmd = "A"
  BY DEF Init, PcInit, SimInit, PcMessage, Answer
<1> QED BY <1>1 DEF OrderInv, RefusalsOK, QueueInOrder, LinkInOrder, BufferInOrder,
        ChunksInOrder, DataInOrder, DataInBuffer

(* The host reads the device's data in the order it was written, and       *)
(* nothing twice, whatever is refused, dropped, lost or reset: refusals    *)
(* never make the PC send data again (USBSimulatorDevice.cs:67-98), and a  *)
(* packet of several banks is not handled once more when data has come in  *)
(* while it was written (simulator.c:219-249).                             *)
THEOREM DataStaysInOrder == Spec => []DataInOrder
<1>1. Init => OrderInv
  BY OrderInit
<1>2. OrderInv => DataInOrder
  BY DEF OrderInv
<1>3. Spec => []LinkInv
  BY LinkInvariant
<1>4. LinkInv /\ LinkInv' /\ OrderInv /\ [Next]_vars => OrderInv'
  BY OrderStep
<1> QED BY <1>1, <1>2, <1>3, <1>4, PTL DEF Spec

-----------------------------------------------------------------------------
(* Without data on the link and with one S packet, nothing else is under   *)
(* way while a reply, or the question for it, is.                          *)
Quiet == MaxData = 0 /\ MaxResets = 0 /\ MaxAttach <= 1

NoQuestion == \A i \in DOMAIN toPC : toPC[i].cmd \notin {"U", "D"}
NoneReady  == \A i \in DOMAIN messages : messages[i].status = "PendingResponse"
Elsewhere(p) ==
  /\ p # "question" => NoQuestion
  /\ p # "replying" => replying = <<>>
  /\ p # "queue"    => NoneReady
  /\ p # "channel"  => toSim = <<>> /\ rx # "partial"
  /\ rx \in IF p = "buffer" THEN {"full"} ELSE {"empty", "partial"}

(* What may be there: the S packet, before there are requests, or what the *)
(* request that is asked about needs.                                      *)
OwnReply(m) ==
  /\ m.cmd \in {"U", "D"} /\ m.id = Current
  /\ m.byte3 \in IF m.cmd = "U" THEN Verdicts(requests[Current].kind) ELSE {NotAVerdict}
Awaited(cmd) == task = IF cmd = "U" THEN "waitU" ELSE "waitD"
Expected(m) ==
  IF m.cmd = "S" THEN requests = <<>> /\ attached = "no"
                 ELSE Awaited(m.cmd) /\ OwnReply(m)
OwnQuestion(q) == q = Ask(q.cmd, Current, requests[Current].kind)

AtQuestion ==
  /\ Elsewhere("question")
  /\ \A i, j \in DOMAIN toPC :
       toPC[i].cmd \in {"U", "D"} /\ toPC[j].cmd \in {"U", "D"} => i = j
  /\ \A i \in DOMAIN toPC :
       toPC[i].cmd \in {"U", "D"} => Awaited(toPC[i].cmd) /\ OwnQuestion(toPC[i])
AtReplying == Elsewhere("replying") /\ (replying # <<>> => Expected(Head(replying)))
AtQueue ==
  /\ Elsewhere("queue")
  /\ \A i, j \in DOMAIN messages :
       messages[i].status = "ReadyToSend" /\ messages[j].status = "ReadyToSend" => i = j
  /\ \A i \in DOMAIN messages :
       messages[i].status = "ReadyToSend" => Expected(messages[i].data)
AtChannel == Elsewhere("channel") /\ Len(toSim) = 1 /\ Expected(Head(toSim))
AtBuffer  == Elsewhere("buffer") /\ Expected(buffer)
OneOnItsWay == AtQuestion \/ AtReplying \/ AtQueue \/ AtChannel \/ AtBuffer

(* A request is worked on until it is done, with its own replies.          *)
Served ==
  /\ \A r \in DOMAIN requests : r < Current => requests[r].done
  /\ task \in Asking \/ setup => requests # <<>> /\ ~requests[Current].done
  /\ ~(task \in Asking /\ setup)
  /\ requests # <<>> /\ ~requests[Current].done =>
       IF task \in {"sendD", "waitD", "ackD", "decideD"}
       THEN /\ requests[Current].kind = "descriptor"
            /\ requests[Current].by = {PcMessage("U", Ignore, Current)}
       ELSE requests[Current].by = {}
  /\ task \in {"ackU", "decideU"} => OwnReply(buffer) /\ buffer.cmd = "U"
  /\ task \in {"ackD", "decideD"} => OwnReply(buffer) /\ buffer.cmd = "D"

(* Nothing is refused, and no data written.                                *)
Undisturbed ==
  /\ \A i \in DOMAIN toPC : toPC[i].cmd # "E"
  /\ task \notin {"nested", "write", "nackU", "nackD"}
  /\ task \in Asking => main = "usb"
  /\ task = "sendU" => tx.cmd = "U" /\ OwnQuestion(tx)
  /\ task = "sendD" => tx.cmd = "D" /\ OwnQuestion(tx)
  /\ task \in {"sendC", "sendAck", "ackU", "ackD", "sendI"} => tx.cmd \in {"A", "C", "I"}
  /\ attaches = 0 => requests = <<>> /\ attached = "no" /\ Elsewhere("nowhere")

QuietInv == OneOnItsWay /\ Served /\ Undisturbed

LEMMA EntryStatus ==
  ASSUME messages \in Seq(Entries), NEW i \in DOMAIN messages
  PROVE  messages[i].status \in {"ReadyToSend", "PendingResponse"}
<1>1. messages[i] \in Entries
  BY LenProperties, ElementOfSeq
<1> QED BY <1>1 DEF Entries

LEMMA NothingElse ==
  ASSUME OneOnItsWay, messages \in Seq(Entries), task \notin Waiting,
         requests # <<>> \/ attached # "no"
  PROVE  Elsewhere("nowhere")
<1>1. \A m : ~Expected(m)
  BY DEF Expected, Awaited, OwnReply, Waiting
<1>2. \A i \in DOMAIN messages : messages[i].status \in {"ReadyToSend", "PendingResponse"}
  BY EntryStatus
<1>3. \A cmd : ~Awaited(cmd)
  BY DEF Awaited, Waiting
<1>4. CASE AtQuestion
  BY <1>3, <1>4 DEF AtQuestion, Elsewhere, NoQuestion
<1>5. CASE AtReplying
  BY <1>1, <1>5 DEF AtReplying, Elsewhere
<1>6. CASE AtQueue
  BY <1>1, <1>2, <1>6 DEF AtQueue, Elsewhere, NoneReady
<1>7. CASE AtChannel \/ AtBuffer
  BY <1>1, <1>7 DEF AtChannel, AtBuffer
<1> QED BY <1>4, <1>5, <1>6, <1>7 DEF OneOnItsWay

LEMMA NowhereIsOne == Elsewhere("nowhere") => OneOnItsWay
BY DEF Elsewhere, NoneReady, OneOnItsWay, AtQueue

(* What comes from the simulator is no question, or the only one.          *)
LEMMA QuestionTaken ==
  ASSUME ChannelsOK, toPC # <<>>, toPC' = Tail(toPC)
  PROVE  /\ NoQuestion => NoQuestion' /\ Head(toPC).cmd \notin {"U", "D"}
         /\ \A i \in DOMAIN toPC' : i + 1 \in DOMAIN toPC /\ toPC'[i] = toPC[i + 1] /\ i + 1 # 1
         /\ 1 \in DOMAIN toPC /\ Head(toPC) = toPC[1]
<1>1. /\ DOMAIN toPC = 1 .. Len(toPC) /\ Len(toPC) \in Nat /\ Len(toPC) >= 1
      /\ DOMAIN toPC' = 1 .. Len(toPC) - 1 /\ Head(toPC) = toPC[1]
      /\ \A i \in 1 .. Len(toPC) - 1 : toPC'[i] = toPC[i + 1]
  BY Popped DEF ChannelsOK
<1>2. \A i \in DOMAIN toPC' : i + 1 \in DOMAIN toPC /\ toPC'[i] = toPC[i + 1] /\ i + 1 # 1
  BY <1>1
<1>3. 1 \in DOMAIN toPC
  BY <1>1
<1> QED BY <1>1, <1>2, <1>3 DEF NoQuestion

(* An entry that becomes ready is the only one; one that goes is none.     *)
LEMMA ReadyWritten ==
  ASSUME NEW m \in PcMessages, messages \in Seq(Entries), NoneReady, Write(m)
  PROVE  /\ \A i \in DOMAIN messages' :
              messages'[i].status = "ReadyToSend" => i = Len(messages) + 1
         /\ messages'[Len(messages) + 1].data = m
<1> DEFINE e == [data |-> m, status |-> "ReadyToSend"]
<1>1. e \in Entries /\ messages' = Append(messages, e)
  BY DEF Entries, Write
<1>2. /\ DOMAIN messages = 1 .. Len(messages) /\ Len(messages) \in Nat
      /\ DOMAIN messages' = 1 .. Len(messages) + 1 /\ messages'[Len(messages) + 1] = e
      /\ \A i \in 1 .. Len(messages) : messages'[i] = messages[i]
  BY <1>1, Pushed
<1> QED BY <1>2 DEF NoneReady

LEMMA ReadyRemoved ==
  ASSUME messages \in Seq(Entries), NEW k \in 1 .. Len(messages), messages' = RemoveAt(messages, k)
  PROVE  \A i \in DOMAIN messages' :
           LET j == IF i < k THEN i ELSE i + 1 IN
             /\ j \in DOMAIN messages /\ messages'[i] = messages[j]
             /\ i \in Nat
<1>1. /\ Len(messages) \in Nat /\ DOMAIN messages = 1 .. Len(messages)
      /\ DOMAIN messages' = 1 .. Len(messages) - 1
      /\ \A i \in 1 .. Len(messages) - 1 :
           messages'[i] = IF i < k THEN messages[i] ELSE messages[i + 1]
  BY Removed
<1> QED BY <1>1

LEMMA SameExpected ==
  ASSUME UNCHANGED <<task, requests, attached>>
  PROVE  /\ \A m : Expected(m)' <=> Expected(m)
         /\ \A cmd : Awaited(cmd)' <=> Awaited(cmd)
         /\ \A q : OwnQuestion(q)' <=> OwnQuestion(q)
BY DEF Expected, Awaited, OwnReply, OwnQuestion, Current

(* An acknowledgement, or a packet that is only passed on.                 *)
LEMMA Acknowledged ==
  ASSUME ChannelsOK, messages \in Seq(Entries), rx' = rx, ReceiveAck \/ ReceiveOther
  PROVE  /\ UNCHANGED <<toSim, replying>> /\ \A p : Elsewhere(p) => Elsewhere(p)'
         /\ toPC # <<>> /\ toPC' = Tail(toPC)
         /\ \A i \in DOMAIN toPC' : i + 1 \in DOMAIN toPC /\ toPC'[i] = toPC[i + 1]
         /\ messages' = messages \/ \E k \in 1 .. Len(messages) : messages' = RemoveAt(messages, k)
         /\ \A i \in DOMAIN messages' : \E j \in DOMAIN messages : messages'[i] = messages[j]
<1>1. /\ toPC # <<>> /\ toPC' = Tail(toPC)
      /\ Head(toPC).cmd \notin {"U", "D"} /\ UNCHANGED <<toSim, replying>>
  BY DEF ReceiveAck, ReceiveOther, Received
<1>2. /\ \A i \in DOMAIN toPC' : i + 1 \in DOMAIN toPC /\ toPC'[i] = toPC[i + 1]
      /\ NoQuestion => NoQuestion'
  BY <1>1, QuestionTaken
<1>3. messages' = messages \/ \E k \in 1 .. Len(messages) : messages' = RemoveAt(messages, k)
  <2>1. CASE ReceiveOther
    BY <2>1 DEF ReceiveOther
  <2>2. CASE ReceiveAck
    <3>1. OldestWith(Head(toPC).got) \in 0 .. Len(messages) /\ Len(messages) \in Nat
      BY OldestWithFirst
    <3>2. CASE OldestWith(Head(toPC).got) = 0
      BY <2>2, <3>2 DEF ReceiveAck
    <3>3. CASE OldestWith(Head(toPC).got) # 0
      <4>1. OldestWith(Head(toPC).got) \in 1 .. Len(messages)
        BY <3>1, <3>3
      <4> QED BY <2>2, <3>3, <4>1 DEF ReceiveAck
    <3> QED BY <3>2, <3>3
  <2> QED BY <2>1, <2>2
<1>4. \A i \in DOMAIN messages' : \E j \in DOMAIN messages : messages'[i] = messages[j]
  <2>1. CASE messages' = messages
    BY <2>1
  <2>2. CASE \E k \in 1 .. Len(messages) : messages' = RemoveAt(messages, k)
    BY <2>2, ReadyRemoved
  <2> QED BY <1>3, <2>1, <2>2
<1>5. NoneReady => NoneReady'
  BY <1>4 DEF NoneReady
<1>6. \A p : Elsewhere(p) => Elsewhere(p)'
  BY <1>1, <1>2, <1>5 DEF Elsewhere
<1> QED BY <1>1, <1>2, <1>3, <1>4, <1>6

(* The PC's steps hand on what there is.                                   *)
LEMMA QuietPc ==
  ASSUME LinkInv, Quiet, QuietInv, PcStep
  PROVE  OneOnItsWay'
<1>1. /\ ChannelsOK /\ messages \in Seq(Entries) /\ replying \in Seq(PcMessages)
      /\ attaches \in Nat /\ written \in Nat
  BY Bounds DEF LinkInv, PcTypeOK, Entries
<1>2. /\ PcNext /\ UNCHANGED <<task, requests, attached, rx, buffer>>
  BY DEF PcStep, simVars
<1>3. /\ \A m : Expected(m)' <=> Expected(m)
      /\ \A cmd : Awaited(cmd)' <=> Awaited(cmd)
      /\ \A q : OwnQuestion(q)' <=> OwnQuestion(q)
  BY <1>2, SameExpected
<1>4. ASSUME NEW m \in PcMessages, Write(m), Expected(m), UNCHANGED channels, replying' = <<>>,
             NoQuestion, NoneReady, toSim = <<>>, rx = "empty"
      PROVE  OneOnItsWay'
  <2>1. /\ \A i \in DOMAIN messages' :
             messages'[i].status = "ReadyToSend" => messages'[i].data = m /\ i = Len(messages) + 1
    BY <1>1, <1>4, ReadyWritten
  <2>2. Elsewhere("queue")'
    BY <1>2, <1>4 DEF Elsewhere, NoQuestion, channels
  <2> QED BY <1>3, <1>4, <2>1, <2>2 DEF OneOnItsWay, AtQueue
<1>5. CASE AttachDevice \/ DetachDevice
  <2>1. attaches = 0
    BY <1>1, <1>5, Bounds DEF Quiet, AttachDevice, DetachDevice
  <2>2. requests = <<>> /\ attached = "no" /\ Elsewhere("nowhere")
    BY <2>1 DEF QuietInv, Undisturbed
  <2>3. PICK b \in {0, 1} : Write(PcMessage("S", b, 0))
    BY <1>5 DEF AttachDevice, DetachDevice
  <2>4. PcMessage("S", b, 0) \in PcMessages /\ Expected(PcMessage("S", b, 0))
    BY <2>2, Bounds DEF PcMessage, PcMessages, PcCommands, Expected
  <2> QED BY <1>4, <1>5, <2>2, <2>3, <2>4 DEF Elsewhere, AttachDevice, DetachDevice
<1>6. CASE WriteOutgoingData
  BY <1>1, <1>6 DEF Quiet, WriteOutgoingData
<1>7. CASE SendMessages
  <2> DEFINE k == FirstReady
  <2>1. /\ k \in 1 .. Len(messages) /\ Len(messages) \in Nat
        /\ messages[k].status = "ReadyToSend"
    BY <1>1, <1>7, FirstReadyFirst DEF SendMessages
  <2>2. messages' = [messages EXCEPT ![k].status = "PendingResponse"]
    BY <1>7 DEF SendMessages
  <2> HIDE DEF k
  <2>3. k \in DOMAIN messages /\ ~NoneReady
    BY <1>1, <2>1, LenProperties DEF NoneReady
  <2>4. AtQueue
    BY <2>3 DEF QuietInv, OneOnItsWay, AtQuestion, AtReplying, AtChannel, AtBuffer, Elsewhere
  <2>5. NoneReady'
    <3>1. /\ DOMAIN messages' = 1 .. Len(messages) /\ DOMAIN messages = 1 .. Len(messages)
          /\ \A j \in 1 .. Len(messages) :
                messages'[j].status = IF j = k THEN "PendingResponse" ELSE messages[j].status
      BY <1>1, <2>1, <2>2, Remarked
    <3>2. ASSUME NEW j \in 1 .. Len(messages), j # k PROVE messages[j].status = "PendingResponse"
      <4>1. messages[j].status \in {"PendingResponse", "ReadyToSend"}
        BY <1>1, <3>1, EntryStatus
      <4>2. messages[j].status # "ReadyToSend"
        BY <2>1, <2>3, <2>4, <3>1, <3>2 DEF AtQueue
      <4> QED BY <4>1, <4>2
    <3> QED BY <3>1, <3>2 DEF NoneReady
  <2>6. Expected(messages[k].data)
    BY <2>1, <2>3, <2>4 DEF AtQueue
  <2>7. /\ NoQuestion' /\ replying' = <<>> /\ rx' = "empty" /\ toSim = <<>>
    BY <1>2, <1>7, <2>4 DEF SendMessages, AtQueue, Elsewhere, NoQuestion
  <2>8. CASE toSim' = toSim
    <3>1. Elsewhere("nowhere")'
      BY <2>5, <2>7, <2>8 DEF Elsewhere
    <3> QED BY <3>1, NowhereIsOne, PTL
  <2>9. CASE toSim' = Append(toSim, messages[k].data)
    <3>1. toSim' = <<messages[k].data>>
      BY <2>7, <2>9
    <3>2. Len(toSim') = 1 /\ Head(toSim') = messages[k].data
      BY <3>1
    <3> QED BY <1>3, <2>5, <2>6, <2>7, <3>2 DEF OneOnItsWay, AtChannel, Elsewhere
  <2> QED BY <1>7, <2>8, <2>9 DEF SendMessages, k
<1>8. CASE QueueReply
  <2>1. AtReplying
    BY <1>8 DEF QueueReply, QuietInv, OneOnItsWay, AtQuestion, AtQueue, AtChannel, AtBuffer, Elsewhere
  <2>2. Head(replying) \in PcMessages
    BY <1>1, <1>8, HeadTailProperties DEF QueueReply
  <2> QED BY <1>4, <1>8, <2>1, <2>2 DEF QueueReply, AtReplying, Elsewhere
<1>9. CASE ReceiveControlRequest \/ ReceiveDescriptorRequest
  <2> DEFINE q == Head(toPC)
  <2>1. /\ toPC # <<>> /\ q.cmd \in {"U", "D"} /\ toPC' = Tail(toPC)
        /\ UNCHANGED <<toSim, messages>>
    BY <1>9 DEF ReceiveControlRequest, ReceiveDescriptorRequest, Received
  <2>2. /\ \A i \in DOMAIN toPC' : i + 1 \in DOMAIN toPC /\ toPC'[i] = toPC[i + 1] /\ i + 1 # 1
        /\ 1 \in DOMAIN toPC /\ q = toPC[1]
    BY <1>1, <2>1, QuestionTaken
  <2> HIDE DEF q
  <2>3. AtQuestion
    BY <2>1, <2>2 DEF QuietInv, OneOnItsWay, AtReplying, AtQueue, AtChannel, AtBuffer, Elsewhere,
       NoQuestion
  <2>4. Awaited(q.cmd) /\ OwnQuestion(q) /\ NoQuestion'
    BY <2>1, <2>2, <2>3 DEF AtQuestion, NoQuestion
  <2>5. PICK v \in 0 .. 3 : /\ replying' = <<PcMessage(q.cmd, v, q.id)>>
                            /\ v \in IF q.cmd = "U" THEN Verdicts(q.kind) ELSE {NotAVerdict}
    <3>1. CASE ReceiveControlRequest
      <4>1. PICK v \in Verdicts(q.kind) : replying' = <<PcMessage("U", v, q.id)>>
        BY <3>1 DEF ReceiveControlRequest, q
      <4>2. q.cmd = "U" /\ q.kind \in Kinds
        <5>1. q \in SimMessages /\ q.cmd = "U"
          BY <1>1, <2>1, <3>1, HeadTailProperties
             DEF ReceiveControlRequest, Received, ChannelsOK, q
        <5> QED BY <5>1 DEF SimMessages
      <4>3. v \in 0 .. 3
        BY <4>2 DEF Verdicts, Kinds, Ignore, Handle, Stall
      <4> QED BY <4>1, <4>2, <4>3
    <3>2. CASE ReceiveDescriptorRequest
      BY <3>2 DEF ReceiveDescriptorRequest, Received, NotAVerdict, q
    <3> QED BY <1>9, <3>1, <3>2
  <2> DEFINE m == PcMessage(q.cmd, v, q.id)
  <2>6. q.id = Current /\ (q.cmd = "U" => q.kind = requests[Current].kind)
    BY <2>4 DEF OwnQuestion, Ask
  <2>7. m.cmd = q.cmd /\ m.id = Current /\ m.byte3 = v
    BY <2>6 DEF PcMessage
  <2>8. Expected(m)
    BY <2>1, <2>4, <2>5, <2>6, <2>7 DEF Expected, OwnReply
  <2>9. replying' = <<m>> /\ Head(replying') = m
    BY <2>5
  <2>10. Elsewhere("replying")'
    BY <1>2, <2>1, <2>3, <2>4 DEF Elsewhere, AtQuestion, NoneReady
  <2> HIDE DEF m
  <2> QED BY <1>3, <2>8, <2>9, <2>10 DEF OneOnItsWay, AtReplying
<1>10. CASE ReceiveNack
  <2>1. 1 \in DOMAIN toPC /\ toPC[1].cmd = "E"
    BY <1>1, <1>10, QuestionTaken DEF ReceiveNack, Received
  <2> QED BY <2>1 DEF QuietInv, Undisturbed
<1>11. CASE ReceiveAck \/ ReceiveOther
  <2>1. UNCHANGED <<toSim, replying>> /\ toPC # <<>> /\ toPC' = Tail(toPC)
    BY <1>1, <1>2, <1>11, Acknowledged
  <2>2. \A i \in DOMAIN toPC' : i + 1 \in DOMAIN toPC /\ toPC'[i] = toPC[i + 1]
    BY <1>1, <1>2, <1>11, Acknowledged
  <2>3. messages' = messages \/ \E k \in 1 .. Len(messages) : messages' = RemoveAt(messages, k)
    BY <1>1, <1>2, <1>11, Acknowledged
  <2>4. \A i \in DOMAIN messages' : \E j \in DOMAIN messages : messages'[i] = messages[j]
    BY <1>1, <1>2, <1>11, Acknowledged
  <2>6. \A p : Elsewhere(p) => Elsewhere(p)'
    BY <1>1, <1>2, <1>11, Acknowledged
  <2>7. CASE AtQuestion
    <3>1. \A i, j \in DOMAIN toPC' :
            toPC'[i].cmd \in {"U", "D"} /\ toPC'[j].cmd \in {"U", "D"} => i = j
      <4> SUFFICES ASSUME NEW i \in DOMAIN toPC', NEW j \in DOMAIN toPC',
                          toPC'[i].cmd \in {"U", "D"}, toPC'[j].cmd \in {"U", "D"}
                   PROVE  i = j
        OBVIOUS
      <4>1. i + 1 = j + 1
        BY <2>2, <2>7 DEF AtQuestion
      <4>2. i \in Nat /\ j \in Nat
        BY <1>1, <2>1, Popped DEF ChannelsOK
      <4> QED BY <4>1, <4>2
    <3>2. \A i \in DOMAIN toPC' :
            toPC'[i].cmd \in {"U", "D"} => Awaited(toPC'[i].cmd) /\ OwnQuestion(toPC'[i])
      BY <2>2, <2>7 DEF AtQuestion
    <3> QED BY <1>3, <2>6, <2>7, <3>1, <3>2 DEF OneOnItsWay, AtQuestion
  <2>8. CASE AtQueue
    <3>1. \A i \in DOMAIN messages' :
            messages'[i].status = "ReadyToSend" => Expected(messages'[i].data)
      BY <2>4, <2>8 DEF AtQueue
    <3>2. \A i, j \in DOMAIN messages' :
            messages'[i].status = "ReadyToSend" /\ messages'[j].status = "ReadyToSend" => i = j
      <4>1. CASE messages' = messages
        BY <2>8, <4>1 DEF AtQueue
      <4>2. CASE messages' # messages
        <5>1. PICK k \in 1 .. Len(messages) : messages' = RemoveAt(messages, k)
          BY <2>3, <4>2
        <5> SUFFICES ASSUME NEW i \in DOMAIN messages', NEW j \in DOMAIN messages',
                            messages'[i].status = "ReadyToSend",
                            messages'[j].status = "ReadyToSend"
                     PROVE  i = j
          OBVIOUS
        <5> DEFINE a == IF i < k THEN i ELSE i + 1
                   b == IF j < k THEN j ELSE j + 1
        <5>2. /\ a \in DOMAIN messages /\ messages'[i] = messages[a] /\ i \in Nat
              /\ b \in DOMAIN messages /\ messages'[j] = messages[b] /\ j \in Nat
          BY <1>1, <5>1, ReadyRemoved
        <5> HIDE DEF a, b
        <5>3. a = b
          BY <2>8, <5>2 DEF AtQueue
        <5>4. k \in Nat
          BY <1>1, LenProperties
        <5> QED BY <5>2, <5>3, <5>4 DEF a, b
      <4> QED BY <4>1, <4>2
    <3> QED BY <1>3, <2>6, <2>8, <3>1, <3>2 DEF OneOnItsWay, AtQueue
  <2>9. CASE AtReplying \/ AtChannel \/ AtBuffer
    BY <1>2, <1>3, <2>1, <2>6, <2>9 DEF OneOnItsWay, AtReplying, AtChannel, AtBuffer
  <2> QED BY <2>7, <2>8, <2>9 DEF QuietInv, OneOnItsWay
<1> QED BY <1>2, <1>5, <1>6, <1>7, <1>8, <1>9, <1>10, <1>11 DEF PcNext, Reader

(* The PC has nothing to do before the application attaches the device.    *)
LEMMA NothingYet ==
  ASSUME LinkInv, Quiet, QuietInv, PcStep, attaches' = 0
  PROVE  Elsewhere("nowhere")'
<1>1. /\ ChannelsOK /\ messages \in Seq(Entries) /\ attaches \in Nat /\ written \in Nat
      /\ PcNext /\ rx' = rx
  BY Bounds DEF LinkInv, PcTypeOK, Entries, PcStep, simVars
<1>2. attaches = 0
  BY <1>1 DEF PcNext, AttachDevice, DetachDevice, WriteOutgoingData, SendMessages, Reader,
     ReceiveNack, ReceiveAck, ReceiveOther, ReceiveControlRequest, ReceiveDescriptorRequest,
     QueueReply, Received
<1>3. Elsewhere("nowhere")
  BY <1>2 DEF QuietInv, Undisturbed
<1>4. ~(AttachDevice \/ DetachDevice \/ WriteOutgoingData \/ QueueReply)
  BY <1>1, <1>2, <1>3 DEF Quiet, AttachDevice, DetachDevice, WriteOutgoingData, QueueReply, Elsewhere
<1>5. ~SendMessages
  <2> SUFFICES ASSUME SendMessages PROVE FALSE
    OBVIOUS
  <2>1. FirstReady \in 1 .. Len(messages) /\ messages[FirstReady].status = "ReadyToSend"
    BY <1>1, FirstReadyFirst DEF SendMessages
  <2> QED BY <1>1, <1>3, <2>1, LenProperties DEF Elsewhere, NoneReady
<1>6. ~(ReceiveNack \/ ReceiveControlRequest \/ ReceiveDescriptorRequest)
  <2> SUFFICES ASSUME Received({"E", "U", "D"}) PROVE FALSE
    BY DEF ReceiveNack, ReceiveControlRequest, ReceiveDescriptorRequest, Received
  <2>1. 1 \in DOMAIN toPC /\ toPC[1].cmd \in {"E", "U", "D"}
    BY <1>1, QuestionTaken DEF Received
  <2> QED BY <1>3, <2>1 DEF QuietInv, Undisturbed, Elsewhere, NoQuestion
<1> QED BY <1>1, <1>3, <1>4, <1>5, <1>6, Acknowledged DEF PcNext, Reader

LEMMA QuietPcStep ==
  ASSUME LinkInv, Quiet, QuietInv, PcStep
  PROVE  QuietInv'
<1>1. /\ UNCHANGED simVars /\ PcNext /\ ChannelsOK
  BY DEF PcStep, LinkInv
<1>2. \A i \in DOMAIN toPC' : toPC'[i].cmd # "E"
  <2>1. toPC' = toPC \/ (toPC # <<>> /\ toPC' = Tail(toPC))
    BY <1>1 DEF PcNext, AttachDevice, DetachDevice, WriteOutgoingData, SendMessages, Reader,
       ReceiveNack, ReceiveAck, ReceiveOther, ReceiveControlRequest, ReceiveDescriptorRequest,
       QueueReply, Received, channels
  <2> QED BY <1>1, <2>1, QuestionTaken DEF QuietInv, Undisturbed
<1>3. Served'
  BY <1>1 DEF QuietInv, Served, OwnReply, Current, simVars
<1>4. attaches' = 0 => requests' = <<>> /\ attached' = "no"
  <2>1. attaches' = 0 => attaches = 0
    BY <1>1, Bounds DEF LinkInv, PcTypeOK, PcNext, AttachDevice, DetachDevice, WriteOutgoingData,
       SendMessages, Reader, ReceiveNack, ReceiveAck, ReceiveOther, ReceiveControlRequest,
       ReceiveDescriptorRequest, QueueReply, Received
  <2> QED BY <1>1, <2>1 DEF QuietInv, Undisturbed, simVars
<1>5. Undisturbed'
  BY <1>1, <1>2, <1>4, NothingYet DEF QuietInv, Undisturbed, OwnQuestion, Current, simVars
<1> QED BY <1>3, <1>5, QuietPc DEF QuietInv

-----------------------------------------------------------------------------
(* The simulator's steps that change nothing on the way.                   *)
LEMMA QuietSame ==
  ASSUME OneOnItsWay, messages \in Seq(Entries),
         UNCHANGED <<toSim, messages, replying, rx, buffer, requests>>,
         UNCHANGED toPC \/ (tx.cmd \in {"A", "C", "I"} /\ toPC' = Append(toPC, tx) /\ ChannelsOK /\ PacketsOK),
         UNCHANGED task \/ task \notin Waiting, UNCHANGED attached \/ attached # "no"
  PROVE  OneOnItsWay' /\ (Elsewhere("nowhere") => Elsewhere("nowhere")')
<1>1. /\ \A m : Expected(m) => Expected(m)'
      /\ \A cmd : Awaited(cmd) => Awaited(cmd)'
      /\ \A q : OwnQuestion(q) => OwnQuestion(q)'
  BY DEF Expected, Awaited, OwnReply, OwnQuestion, Current, Waiting
<1>2. \A i \in DOMAIN toPC' :
        toPC'[i].cmd \in {"U", "D"} => i \in DOMAIN toPC /\ toPC'[i] = toPC[i]
  <2>1. CASE toPC' = toPC
    BY <2>1
  <2>2. CASE toPC' # toPC
    <3>1. /\ DOMAIN toPC = 1 .. Len(toPC) /\ Len(toPC) \in Nat
          /\ DOMAIN toPC' = 1 .. Len(toPC) + 1 /\ toPC'[Len(toPC) + 1] = tx
          /\ \A i \in 1 .. Len(toPC) : toPC'[i] = toPC[i]
      BY <2>2, Pushed DEF ChannelsOK, PacketsOK
    <3>2. tx.cmd \notin {"U", "D"}
      BY <2>2
    <3> QED BY <3>1, <3>2
  <2> QED BY <2>1, <2>2
<1>3. NoQuestion => NoQuestion'
  BY <1>2 DEF NoQuestion
<1>4. \A p : Elsewhere(p) => Elsewhere(p)'
  BY <1>3 DEF Elsewhere, NoneReady
<1>5. AtQuestion => AtQuestion'
  BY <1>1, <1>2, <1>4 DEF AtQuestion
<1>6. AtReplying => AtReplying'
  BY <1>1, <1>4 DEF AtReplying
<1>7. AtQueue => AtQueue'
  BY <1>1, <1>4 DEF AtQueue
<1>8. AtChannel \/ AtBuffer => AtChannel' \/ AtBuffer'
  BY <1>1, <1>4 DEF AtChannel, AtBuffer
<1> QED BY <1>4, <1>5, <1>6, <1>7, <1>8 DEF OneOnItsWay

LEMMA QuietReceive ==
  ASSUME LinkInv, QuietInv, Receive, UNCHANGED pcVars
  PROVE  QuietInv'
<1>1. /\ ChannelsOK /\ toSim # <<>>
      /\ UNCHANGED <<main, task, tx, setup, requests, attached, toPC, messages, replying, attaches>>
  BY DEF Receive, LinkInv, pcVars
<1>2. AtChannel
  BY <1>1 DEF QuietInv, OneOnItsWay, AtQuestion, AtReplying, AtQueue, AtBuffer, Elsewhere
<1>3. \A m : Expected(m)' <=> Expected(m)
  BY <1>1, SameExpected
<1>4. Served'
  <2>1. task \in Waiting \/ requests = <<>>
    BY <1>2 DEF AtChannel, Expected, Awaited, Waiting
  <2>2. task \notin {"ackU", "ackD", "decideU", "decideD"}
    BY <2>1 DEF QuietInv, Served, Waiting, Asking
  <2> QED BY <1>1, <2>2 DEF QuietInv, Served, Current
<1>5. Undisturbed'
  <2>1. attaches # 0
    BY <1>1 DEF QuietInv, Undisturbed, Elsewhere
  <2> QED BY <1>1, <2>1 DEF QuietInv, Undisturbed, OwnQuestion, Current
<1>6. /\ NoQuestion' /\ replying' = <<>> /\ NoneReady' /\ rx # "shifted"
  BY <1>1, <1>2 DEF AtChannel, Elsewhere, NoQuestion, NoneReady
<1>0. PICK m : m = Head(toSim) /\ Expected(m)'
  BY <1>2, <1>3 DEF AtChannel
<1>7. CASE toSim' = toSim /\ rx' = "partial"
  <2>1. Head(toSim') = m /\ Len(toSim') = 1
    BY <1>2, <1>7, <1>0 DEF AtChannel
  <2>2. Elsewhere("channel")'
    BY <1>6, <1>7 DEF Elsewhere
  <2>3. OneOnItsWay'
    BY <1>0, <2>1, <2>2 DEF AtChannel, OneOnItsWay
  <2> QED BY <1>4, <1>5, <2>3 DEF QuietInv
<1>8. CASE toSim' = Tail(toSim) /\ buffer' = Head(toSim) /\ rx' = "full"
  <2>1. toSim' = <<>>
    <3>1. Tail(toSim) \in Seq(PcMessages) /\ Len(Tail(toSim)) = 0
      BY <1>1, <1>2, HeadTailProperties DEF ChannelsOK, AtChannel
    <3> QED BY <1>8, <3>1, EmptySeq
  <2>2. Elsewhere("buffer")'
    BY <1>6, <1>8, <2>1 DEF Elsewhere
  <2>3. OneOnItsWay'
    BY <1>8, <1>0, <2>2 DEF AtBuffer, OneOnItsWay
  <2> QED BY <1>4, <1>5, <2>3 DEF QuietInv
<1>9. \/ toSim' = toSim /\ rx' = "partial"
      \/ toSim' = Tail(toSim) /\ buffer' = Head(toSim) /\ rx' = "full"
  BY <1>6 DEF Receive, ReceiveLength, ReceiveSome, ReceiveRest, ReceiveShifted
<1> QED BY <1>4, <1>5, <1>7, <1>8, <1>9 DEF QuietInv

LEMMA QuietFinishSend ==
  ASSUME LinkInv, QuietInv, FinishSend, UNCHANGED pcVars
  PROVE  QuietInv'
<1>1. /\ ChannelsOK /\ PacketsOK /\ messages \in Seq(Entries)
      /\ task \in Sending /\ task \notin Waiting
  BY LinkInvParts DEF FinishSend, PcTypeOK, Entries, SimInv, Sending, Waiting
<1>2. /\ toPC' = Append(toPC, tx)
      /\ UNCHANGED <<toSim, messages, replying, rx, buffer, setup, requests, attached, attaches>>
  BY DEF FinishSend, pcVars
<1>3. \/ task = "sendC" /\ task' = "sendAck" /\ tx'.cmd = "A" /\ main' = main
      \/ task = "sendAck" /\ task' = "idle" /\ tx' = tx
      \/ task = "sendI" /\ task' = "idle" /\ tx' = tx
      \/ task = "sendU" /\ task' = "waitU" /\ tx' = tx /\ main' = main
      \/ task = "sendD" /\ task' = "waitD" /\ tx' = tx /\ main' = main
      \/ task = "ackU" /\ task' = "decideU" /\ tx' = tx /\ main' = main
      \/ task = "ackD" /\ task' = "decideD" /\ tx' = tx /\ main' = main
  BY DEF FinishSend, AckBuffer, StartSend, Answer, QuietInv, Undisturbed
<1>4. Served'
  <2>1. task' \in Asking <=> task \in Asking
    BY <1>3 DEF Asking
  <2>2. task' \in {"sendD", "waitD", "ackD", "decideD"} <=> task \in {"sendD", "waitD", "ackD", "decideD"}
    BY <1>3
  <2>3. /\ task' \in {"ackU", "decideU"} => task \in {"ackU", "decideU"}
        /\ task' \in {"ackD", "decideD"} => task \in {"ackD", "decideD"}
    BY <1>3
  <2> QED BY <1>2, <2>1, <2>2, <2>3 DEF QuietInv, Served, OwnReply, Current
<1>5. /\ DOMAIN toPC = 1 .. Len(toPC) /\ Len(toPC) \in Nat
      /\ DOMAIN toPC' = 1 .. Len(toPC) + 1 /\ toPC'[Len(toPC) + 1] = tx
      /\ \A i \in 1 .. Len(toPC) : toPC'[i] = toPC[i]
  BY <1>1, <1>2, Pushed DEF ChannelsOK, PacketsOK
<1>6. tx.cmd # "E"
  BY <1>3 DEF QuietInv, Undisturbed
<1>7. CASE task \in {"sendU", "sendD"}
  <2>1. requests # <<>> /\ Elsewhere("nowhere")
    BY <1>1, <1>7, NothingElse DEF QuietInv, Served, Asking
  <2>2. \A i \in DOMAIN toPC' : toPC'[i].cmd \in {"U", "D"} => i = Len(toPC) + 1
    BY <1>5, <2>1 DEF Elsewhere, NoQuestion
  <2>3. Awaited(tx.cmd)' /\ OwnQuestion(tx)' /\ tx' = tx
    BY <1>2, <1>3, <1>7 DEF QuietInv, Undisturbed, Awaited, OwnQuestion, Current
  <2>4. Elsewhere("question")'
    BY <1>2, <2>1 DEF Elsewhere, NoneReady
  <2>5. AtQuestion'
    <3>1. PICK q : q = tx /\ Awaited(q.cmd)' /\ OwnQuestion(q)'
      BY <2>3
    <3>2. \A i \in DOMAIN toPC' : toPC'[i].cmd \in {"U", "D"} => toPC'[i] = q
      BY <1>5, <2>2, <3>1
    <3>3. \A i, j \in DOMAIN toPC' :
            toPC'[i].cmd \in {"U", "D"} /\ toPC'[j].cmd \in {"U", "D"} => i = j
      BY <2>2
    <3> QED BY <2>4, <3>1, <3>2, <3>3 DEF AtQuestion
  <2>6. Undisturbed'
    <3>1. attaches # 0
      BY <2>1 DEF QuietInv, Undisturbed
    <3> QED BY <1>2, <1>3, <1>5, <1>6, <1>7, <3>1 DEF QuietInv, Undisturbed, Asking
  <2> QED BY <1>4, <2>5, <2>6 DEF QuietInv, OneOnItsWay
<1>8. CASE task \notin {"sendU", "sendD"}
  <2>1. tx.cmd \in {"A", "C", "I"}
    BY <1>3, <1>8 DEF QuietInv, Undisturbed
  <2>2. OneOnItsWay' /\ (Elsewhere("nowhere") => Elsewhere("nowhere")')
    BY <1>1, <1>2, <2>1, QuietSame DEF QuietInv
  <2>3. Undisturbed'
    BY <1>2, <1>3, <1>5, <1>6, <1>8, <2>2 DEF QuietInv, Undisturbed, Asking
  <2> QED BY <1>4, <2>2, <2>3 DEF QuietInv
<1> QED BY <1>7, <1>8

LEMMA QuietWaitForPacket ==
  ASSUME LinkInv, QuietInv, WaitForPacket, UNCHANGED pcVars
  PROVE  QuietInv'
<1>1. /\ task \in Waiting /\ rx = "full" /\ rx' = "empty"
      /\ UNCHANGED <<main, buffer, setup, requests, attached, toSim, toPC, messages, replying, attaches>>
  BY DEF WaitForPacket, channels, pcVars
<1>2. AtBuffer
  BY <1>1 DEF QuietInv, OneOnItsWay, AtQuestion, AtReplying, AtQueue, AtChannel, Elsewhere
<1>3. requests # <<>>
  BY <1>1 DEF QuietInv, Served, Waiting, Asking
<1>4. Awaited(buffer.cmd) /\ OwnReply(buffer)
  BY <1>2, <1>3 DEF AtBuffer, Expected
<1>5. \/ task = "waitU" /\ buffer.cmd = "U" /\ task' = "ackU" /\ tx'.cmd = "A"
      \/ task = "waitD" /\ buffer.cmd = "D" /\ task' = "ackD" /\ tx'.cmd = "A"
  BY <1>1, <1>4 DEF WaitForPacket, StartSend, Answer, Awaited, OwnReply, Waiting
<1>6. OneOnItsWay'
  <2>1. Elsewhere("nowhere")'
    BY <1>1, <1>2 DEF AtBuffer, Elsewhere, NoQuestion, NoneReady
  <2> QED BY <2>1, NowhereIsOne, PTL
<1>7. Served'
  BY <1>1, <1>4, <1>5 DEF QuietInv, Served, OwnReply, Current, Asking
<1>8. Undisturbed'
  BY <1>1, <1>3, <1>5 DEF QuietInv, Undisturbed, Asking
<1> QED BY <1>6, <1>7, <1>8 DEF QuietInv

LEMMA QuietHandle ==
  ASSUME LinkInv, QuietInv, HandleReceivedPacket, UNCHANGED pcVars
  PROVE  QuietInv'
<1>1. /\ main = "handle" /\ task = "idle" /\ rx = "full" /\ rx' = "empty"
      /\ UNCHANGED <<main, buffer, setup, requests, toSim, toPC, messages, replying, attaches>>
  BY DEF HandleReceivedPacket, channels, pcVars
<1>2. AtBuffer
  BY <1>1 DEF QuietInv, OneOnItsWay, AtQuestion, AtReplying, AtQueue, AtChannel, Elsewhere
<1>3. buffer.cmd = "S" /\ requests = <<>>
  BY <1>1, <1>2 DEF AtBuffer, Expected, Awaited
<1>4. task' = "sendAck" /\ tx'.cmd = "A"
  BY <1>3 DEF HandleReceivedPacket, AckBuffer, StartSend, Answer
<1>5. OneOnItsWay'
  <2>1. Elsewhere("nowhere")'
    BY <1>1, <1>2 DEF AtBuffer, Elsewhere, NoQuestion, NoneReady
  <2> QED BY <2>1, NowhereIsOne, PTL
<1>6. Served'
  BY <1>1, <1>3, <1>4 DEF QuietInv, Served, Asking
<1>7. Undisturbed'
  <2>1. attaches # 0
    BY <1>1 DEF QuietInv, Undisturbed, Elsewhere
  <2> QED BY <1>1, <1>4, <2>1 DEF QuietInv, Undisturbed, Asking
<1> QED BY <1>5, <1>6, <1>7 DEF QuietInv

(* The main loop's other steps, outside a request. *)
LEMMA QuietLoop ==
  ASSUME LinkInv, QuietInv, UNCHANGED pcVars,
         EndReceive \/ HandleNothing \/ UsbTask \/ WriteStream \/ USBIO_Task
  PROVE  QuietInv'
<1>1. /\ messages \in Seq(Entries) /\ task \in Tasks
      /\ UNCHANGED <<buffer, requests, attached, toSim, toPC, messages, replying, attaches, rx>>
      /\ ~WriteStream
  BY DEF LinkInv, PcTypeOK, SimTypeOK, Entries, EndReceive, HandleNothing, UsbTask, WriteStream,
     USBIO_Task, channels, pcVars, QuietInv, Undisturbed
<1>2. task \notin Asking
  BY <1>1 DEF QuietInv, Undisturbed, EndReceive, HandleNothing, UsbTask, USBIO_Task, Asking
<1>3. task' = task \/ task \notin Waiting
  BY <1>2 DEF Waiting, Asking
<1>4. OneOnItsWay' /\ (Elsewhere("nowhere") => Elsewhere("nowhere")')
  BY <1>1, <1>3, QuietSame DEF QuietInv
<1>5. CASE setup /\ UsbTask
  <2>1. /\ task' = "sendU" /\ setup' = FALSE /\ main' = main /\ main = "usb"
        /\ tx' = Ask("U", Current, requests[Current].kind)
    BY <1>5 DEF UsbTask, StartSend, QuietInv, Undisturbed
  <2>2. Served'
    BY <1>1, <1>2, <1>5, <2>1 DEF QuietInv, Served, Current, Asking
  <2>3. tx'.cmd = "U" /\ OwnQuestion(tx)'
    BY <1>1, <2>1 DEF OwnQuestion, Ask, Current
  <2>4. Undisturbed'
    BY <1>1, <1>4, <2>1, <2>3 DEF QuietInv, Undisturbed, Asking
  <2> QED BY <1>4, <2>2, <2>4 DEF QuietInv
<1>6. CASE ~(setup /\ UsbTask)
  <2>1. /\ setup' = setup
        /\ \/ task' = task /\ tx' = tx
           \/ task' = "idle" /\ tx' = tx
           \/ task' = "sendI" /\ tx'.cmd = "I"
    BY <1>1, <1>6 DEF UsbTask, EndReceive, HandleNothing, USBIO_Task, StartSend, Ask, QuietInv,
       Undisturbed
  <2>2. Served'
    BY <1>1, <1>2, <2>1 DEF QuietInv, Served, Current, Asking
  <2>3. Undisturbed'
    BY <1>1, <1>2, <1>4, <2>1 DEF QuietInv, Undisturbed, Asking
  <2> QED BY <1>4, <2>2, <2>3 DEF QuietInv
<1> QED BY <1>5, <1>6

(* A reply is used as it came: nothing has followed it.                    *)
LEMMA ReplyAsItCame ==
  ASSUME LinkInv, QuietInv, task \in {"decideU", "decideD"}
  PROVE  /\ Elsewhere("nowhere") /\ Reply = buffer /\ requests # <<>> /\ main = "usb"
         /\ Current \in DOMAIN requests /\ ~requests[Current].done /\ ~setup
         /\ DOMAIN requests = 1 .. Current /\ Current \in Nat
         /\ requests[Current] \in [kind : Kinds, by : SUBSET PcMessages, done : BOOLEAN]
         /\ buffer \in PcMessages /\ OwnReply(buffer)
<1>1. messages \in Seq(Entries) /\ SimInv /\ buffer \in PcMessages
  BY LinkInvParts DEF LinkInv, PcTypeOK, Entries, SimInv, PacketsOK
<1>2. requests # <<>> /\ ~requests[Current].done /\ OwnReply(buffer) /\ ~setup
  BY DEF QuietInv, Served, Asking
<1>3. Elsewhere("nowhere")
  BY <1>1, <1>2, NothingElse DEF QuietInv, Waiting
<1>4. /\ requests[Current] \in [kind : Kinds, by : SUBSET PcMessages, done : BOOLEAN]
      /\ Current \in 1 .. MaxRequests
  BY <1>1, <1>2, CurrentType
<1>5. requests \in Requests
  BY <1>1 DEF SimInv, ControlOK
<1>6. DOMAIN requests = 1 .. Current /\ Current \in DOMAIN requests /\ Current \in Nat
  BY <1>4, <1>5, LenProperties DEF Requests, Current
<1>7. Reply = buffer
  BY <1>3 DEF Elsewhere, Reply
<1>8. main = "usb"
  BY DEF QuietInv, Undisturbed, Asking
<1> QED BY <1>1, <1>2, <1>3, <1>4, <1>6, <1>7, <1>8

LEMMA Used ==
  ASSUME LinkInv, QuietInv, task \in {"decideU", "decideD"}, NEW done \in BOOLEAN, Use(done)
  PROVE  /\ DOMAIN requests' = DOMAIN requests /\ Current' = Current
         /\ requests'[Current].kind = requests[Current].kind
         /\ requests'[Current].by = requests[Current].by \cup {buffer}
         /\ requests'[Current].done = done
         /\ \A r \in DOMAIN requests : r # Current => requests'[r] = requests[r]
<1> DEFINE q == [requests[Current] EXCEPT !.by = @ \cup {buffer}, !.done = done]
<1>1. requests' = [requests EXCEPT ![Current] = q] /\ Current \in DOMAIN requests
  BY ReplyAsItCame DEF Use
<1>2. /\ q.kind = requests[Current].kind /\ q.by = requests[Current].by \cup {buffer}
      /\ q.done = done
  BY ReplyAsItCame
<1> HIDE DEF q
<1>3. /\ DOMAIN requests' = DOMAIN requests /\ requests'[Current] = q
      /\ \A r \in DOMAIN requests : r # Current => requests'[r] = requests[r]
  BY <1>1
<1>4. Current' = Current
  BY ReplyAsItCame, UseType, LinkInvParts DEF Current
<1> QED BY <1>2, <1>3, <1>4

LEMMA QuietDecided ==
  ASSUME LinkInv, QuietInv, task \in {"decideU", "decideD"}, Use(TRUE), Return, UNCHANGED pcVars,
         UNCHANGED <<rx, buffer, setup, attached, toSim, toPC>>
  PROVE  QuietInv'
<1>1. /\ task' = "idle" /\ UNCHANGED <<messages, replying, attaches>>
  BY ReplyAsItCame DEF Return, pcVars
<1>2. Elsewhere("nowhere")' /\ OneOnItsWay'
  <2>1. Elsewhere("nowhere")'
    BY <1>1, ReplyAsItCame DEF Elsewhere, NoQuestion, NoneReady
  <2> QED BY <2>1, NowhereIsOne, PTL
<1>3. Served'
  <2>1. \A r \in DOMAIN requests' : r < Current' => requests'[r].done
    BY Used DEF QuietInv, Served
  <2>2. requests'[Current'].done /\ ~setup
    BY Used, ReplyAsItCame
  <2> QED BY <1>1, <2>1, <2>2 DEF Served, Asking
<1>4. Undisturbed'
  <2>1. attaches # 0
    BY ReplyAsItCame DEF QuietInv, Undisturbed
  <2> QED BY <1>1, <2>1 DEF QuietInv, Undisturbed, Asking
<1> QED BY <1>2, <1>3, <1>4 DEF QuietInv

LEMMA QuietAskDescriptor ==
  ASSUME LinkInv, QuietInv, DecideControl, Use(FALSE), requests[Current].kind = "descriptor",
         Reply.byte3 \notin {Handle, Stall},
         StartSend(Ask("D", Current, "descriptor"), "sendD"), main' = main, UNCHANGED pcVars
  PROVE  QuietInv'
<1>1. /\ task = "decideU" /\ task' = "sendD" /\ tx' = Ask("D", Current, "descriptor")
      /\ UNCHANGED <<rx, buffer, setup, attached, toSim, toPC, messages, replying, attaches>>
  BY DEF DecideControl, StartSend, channels, pcVars
<1>2. Elsewhere("nowhere")' /\ OneOnItsWay'
  <2>1. Elsewhere("nowhere")'
    BY <1>1, ReplyAsItCame DEF Elsewhere, NoQuestion, NoneReady
  <2> QED BY <2>1, NowhereIsOne, PTL
<1>3. buffer = PcMessage("U", Ignore, Current)
  <2>1. buffer.cmd = "U" /\ OwnReply(buffer) /\ buffer \in PcMessages /\ Reply = buffer
    BY <1>1, ReplyAsItCame DEF QuietInv, Served
  <2>2. buffer.id = Current /\ buffer.byte3 = Ignore
    BY <2>1 DEF OwnReply, Verdicts
  <2> QED BY <2>1, <2>2 DEF PcMessages, PcMessage
<1>4. Served'
  <2>1. requests[Current].by = {}
    BY <1>1, ReplyAsItCame DEF QuietInv, Served
  <2>2. /\ \A r \in DOMAIN requests' : r < Current' => requests'[r].done
        /\ requests' # <<>> /\ ~requests'[Current'].done
    <3>1. DOMAIN requests' = DOMAIN requests /\ Current \in DOMAIN requests
      BY <1>1, Used, ReplyAsItCame
    <3>2. /\ Current' = Current /\ requests'[Current].done = FALSE
          /\ \A r \in DOMAIN requests : r # Current => requests'[r] = requests[r]
      BY <1>1, Used
    <3>3. \A r \in DOMAIN requests : r < Current => r # Current /\ requests[r].done
      BY <1>1, ReplyAsItCame DEF QuietInv, Served
    <3> QED BY <3>1, <3>2, <3>3
  <2>3. requests'[Current'].kind = "descriptor" /\ Current' = Current
        /\ requests'[Current'].by = {PcMessage("U", Ignore, Current)}
    BY <1>1, <1>3, <2>1, Used
  <2>4. ~setup
    BY <1>1, ReplyAsItCame
  <2> QED BY <1>1, <2>2, <2>3, <2>4 DEF Served, Asking
<1>5. Undisturbed'
  <2>1. attaches # 0 /\ main = "usb"
    BY <1>1, ReplyAsItCame DEF QuietInv, Undisturbed
  <2>2. tx'.cmd = "D" /\ OwnQuestion(tx)'
    <3>1. requests'[Current'].kind = "descriptor" /\ Current' = Current
      BY <1>1, Used
    <3> QED BY <1>1, <3>1 DEF OwnQuestion, Ask
  <2> QED BY <1>1, <2>1, <2>2 DEF QuietInv, Undisturbed, Asking
<1> QED BY <1>2, <1>4, <1>5 DEF QuietInv

(* A request decided by its own reply never hangs in the library.          *)
LEMMA OwnReplyEnds ==
  ASSUME LinkInv, QuietInv, DecideControl
  PROVE  \/ EndRequest /\ requests[Current].kind # "descriptor"
         \/ AskDescriptor /\ Reply.byte3 \notin {Handle, Stall}
<1> DEFINE kind == requests[Current].kind
<1>1. task = "decideU" /\ (HangInRequest \/ EndRequest \/ AskDescriptor)
  BY DEF DecideControl
<1>2. /\ Reply = buffer /\ kind \in Kinds /\ Elsewhere("nowhere")
      /\ Current \in DOMAIN requests /\ DOMAIN requests = 1 .. Current
  BY <1>1, ReplyAsItCame
<1>3. buffer.cmd = "U" /\ buffer.id = Current /\ buffer.byte3 \in Verdicts(kind)
  <2>1. OwnReply(buffer) /\ buffer.cmd = "U"
    BY <1>1, ReplyAsItCame DEF QuietInv, Served
  <2> QED BY <2>1 DEF OwnReply
<1>4. rx # "partial" /\ Current # Mixed
  BY <1>2 DEF Elsewhere, Mixed
<1>5. Lengths = {Long(buffer)}
  BY <1>3, <1>4 DEF Lengths
<1>6. Long(buffer) <=> buffer.byte3 = Handle /\ kind = "read"
  BY <1>2, <1>3 DEF Long
<1>7. Handled => buffer.byte3 = Handle /\ kind \in {"read", "command", "output"}
  BY <1>2, <1>3 DEF Handled, Verdicts, Kinds, Ignore, Handle, Stall
<1> HIDE DEF kind
<1>8. Handled => ~Hangs(Long(buffer))
  BY <1>6, <1>7 DEF Hangs, kind
<1>9. ~HangInRequest
  BY <1>5, <1>8, Zenon DEF HangInRequest
<1>10. Handled => kind # "descriptor"
  BY <1>7
<1>11. EndRequest => kind # "descriptor"
  BY <1>10 DEF EndRequest, kind
<1>12. AskDescriptor => Reply.byte3 \notin {Handle, Stall}
  <2> SUFFICES ASSUME AskDescriptor PROVE Reply.byte3 = Ignore
    BY DEF Ignore, Handle, Stall
  <2>1. kind = "descriptor"
    BY DEF AskDescriptor, kind
  <2> QED BY <1>2, <1>3, <2>1 DEF Verdicts
<1> QED BY <1>1, <1>9, <1>11, <1>12 DEF kind

LEMMA OwnDescriptorEnds ==
  ASSUME QuietInv, DecideDescriptor
  PROVE  Use(TRUE) /\ Return
<1>1. requests[Current].by = {PcMessage("U", Ignore, Current)}
  <2>1. task = "decideD"
    BY DEF DecideDescriptor
  <2> QED BY <2>1 DEF QuietInv, Served, Asking
<1>2. ~Stalled
  BY <1>1 DEF Stalled, PcMessage, Ignore, Stall
<1> QED BY <1>2 DEF DecideDescriptor

LEMMA QuietHost ==
  ASSUME LinkInv, QuietInv, Host, UNCHANGED <<pcVars, channels>>
  PROVE  QuietInv'
<1>1. /\ messages \in Seq(Entries) /\ SimInv
      /\ UNCHANGED <<main, task, tx, rx, buffer, toSim, toPC, messages, replying, attaches>>
  BY LinkInvParts DEF LinkInv, PcTypeOK, Entries, Host, HostResets, HostRequest, HostReadsIn,
     HostSendsOut, pcVars, channels
<1>2. CASE ~HostRequest
  <2>1. /\ requests' = requests /\ (setup' => setup)
        /\ attached' = attached \/ attached \notin {"no"}
    BY <1>2 DEF Host, HostResets, HostReadsIn, HostSendsOut
  <2>2. OneOnItsWay' /\ (Elsewhere("nowhere") => Elsewhere("nowhere")')
    BY <1>1, <2>1, QuietSame DEF QuietInv
  <2>3. Served'
    BY <1>1, <2>1 DEF QuietInv, Served, OwnReply, Current
  <2>4. Undisturbed'
    BY <1>1, <2>1, <2>2 DEF QuietInv, Undisturbed, OwnQuestion, Current
  <2> QED BY <2>2, <2>3, <2>4 DEF QuietInv
<1>3. CASE HostRequest
  <2>1. PICK k \in Kinds : requests' = Append(requests, [kind |-> k, by |-> {}, done |-> FALSE])
    BY <1>3, LinkAssumption DEF HostRequest
  <2> DEFINE q == [kind |-> k, by |-> {}, done |-> FALSE]
  <2>2. /\ requests \in Requests /\ q \in [kind : Kinds, by : SUBSET PcMessages, done : BOOLEAN]
        /\ attached = "yes" /\ attached' = attached /\ \A r \in DOMAIN requests : requests[r].done
    BY <1>1, <1>3 DEF SimInv, ControlOK, HostRequest
  <2>3. q.by = {} /\ q.done = FALSE /\ requests' = Append(requests, q)
    BY <2>1
  <2> HIDE DEF q
  <2>4. /\ Len(requests) \in Nat /\ DOMAIN requests = 1 .. Len(requests)
        /\ DOMAIN requests' = 1 .. Len(requests) + 1 /\ requests'[Len(requests) + 1] = q
        /\ \A r \in 1 .. Len(requests) : requests'[r] = requests[r]
        /\ Len(requests') = Len(requests) + 1
    BY <2>2, <2>3, Pushed, AppendProperties DEF Requests
  <2>5. task \notin Asking
    <3>1. requests # <<>> => Current \in DOMAIN requests
      BY <2>2, <2>4, EmptySeq, LenProperties DEF Current, Requests
    <3> QED BY <2>2, <3>1 DEF QuietInv, Served
  <2>6. Elsewhere("nowhere")' /\ OneOnItsWay'
    <3>1. Elsewhere("nowhere")
      BY <1>1, <2>2, <2>5, NothingElse DEF QuietInv, Waiting, Asking
    <3>2. Elsewhere("nowhere")'
      BY <1>1, <3>1 DEF Elsewhere, NoQuestion, NoneReady
    <3> QED BY <3>2, NowhereIsOne, PTL
  <2>7. Served'
    <3>1. Current' = Len(requests) + 1
      BY <2>4 DEF Current
    <3>2. \A r \in DOMAIN requests' : r < Current' => requests'[r].done
      BY <2>2, <2>4, <3>1
    <3>3. requests' # <<>> /\ requests'[Current'] = q
      BY <2>4, <3>1
    <3> QED BY <1>1, <2>3, <2>5, <3>2, <3>3 DEF Served, Asking
  <2>8. Undisturbed'
    <3>1. attaches # 0
      BY <2>2 DEF QuietInv, Undisturbed
    <3> QED BY <1>1, <2>5, <3>1 DEF QuietInv, Undisturbed, Asking
  <2> QED BY <2>6, <2>7, <2>8 DEF QuietInv
<1> QED BY <1>2, <1>3

LEMMA QuietStep == LinkInv /\ Quiet /\ QuietInv /\ [Next]_vars => QuietInv'
<1> SUFFICES ASSUME LinkInv, Quiet, QuietInv, [Next]_vars PROVE QuietInv'
  OBVIOUS
<1>1. CASE PcStep
  BY <1>1, QuietPcStep
<1>2. CASE SimStep
  <2>1. SimNext /\ UNCHANGED pcVars
    BY <1>2 DEF SimStep
  <2>2. CASE DecideControl
    <3>1. /\ task = "decideU" /\ UNCHANGED <<rx, buffer, setup, attached, toSim, toPC>>
      BY <2>2 DEF DecideControl, channels
    <3>2. \/ Use(TRUE) /\ Return
          \/ /\ Use(FALSE) /\ requests[Current].kind = "descriptor"
             /\ Reply.byte3 \notin {Handle, Stall} /\ main' = main
             /\ StartSend(Ask("D", Current, "descriptor"), "sendD")
      BY <2>2, OwnReplyEnds DEF EndRequest, AskDescriptor
    <3> QED BY <2>1, <2>2, <3>1, <3>2, QuietDecided, QuietAskDescriptor
  <2>3. CASE DecideDescriptor
    <3>1. Use(TRUE) /\ Return
      BY <2>3, OwnDescriptorEnds
    <3> QED BY <2>1, <2>3, <3>1, QuietDecided DEF DecideDescriptor, channels
  <2> QED BY <2>1, <2>2, <2>3, QuietReceive, QuietFinishSend, QuietWaitForPacket, QuietHandle, QuietLoop
     DEF SimNext, SimLoop
<1>3. CASE HostStep
  BY <1>3, QuietHost DEF HostStep
<1>4. CASE Reset
  BY <1>4, Bounds DEF Reset, Quiet, LinkInv, ResetsOK
<1>5. CASE UNCHANGED vars
  BY <1>5 DEF vars, simVars, pcVars, channels, QuietInv, OneOnItsWay, AtQuestion, AtReplying, AtQueue,
     AtChannel, AtBuffer, Elsewhere, NoQuestion, NoneReady, Expected, OwnReply, Awaited, OwnQuestion,
     Current, Served, Undisturbed
<1> QED BY <1>1, <1>2, <1>3, <1>4, <1>5 DEF Next

LEMMA QuietInit == Init => QuietInv
<1> SUFFICES ASSUME Init PROVE QuietInv
  OBVIOUS
<1>1. Elsewhere("nowhere")
  BY DEF Init, PcInit, SimInit, Elsewhere, NoQuestion, NoneReady
<1> QED BY <1>1, NowhereIsOne DEF Init, PcInit, SimInit, QuietInv, Served, Undisturbed, Asking

-----------------------------------------------------------------------------
(* The steps of the requests are those of the service.                     *)
LEMMA ServiceSame ==
  ASSUME requests' = requests
  PROVE  UNCHANGED <<KindsAsked, Outcomes>>
BY DEF KindsAsked, Outcomes, Completed

(* The requests that are done, and what they were decided by.              *)
DoneSoFar == IF requests # <<>> /\ ~requests[Current].done THEN Current - 1 ELSE Current
Decisions == [of : SUBSET Nat, verdict : SUBSET Nat]
Decision(by) == [of |-> {m.id : m \in by}, verdict |-> {m.byte3 : m \in by}]
OutcomesOK ==
  /\ Current \in Nat /\ DOMAIN requests = 1 .. Current
  /\ DoneSoFar \in Nat /\ Completed = 1 .. DoneSoFar
  /\ KindsAsked \in Seq(Kinds) /\ Len(KindsAsked) = Current
  /\ \A r \in 1 .. Current : KindsAsked[r] = requests[r].kind
  /\ Outcomes \in Seq(Decisions) /\ Len(Outcomes) = DoneSoFar
  /\ \A r \in 1 .. DoneSoFar : Outcomes[r] = Decision(requests[r].by)

LEMMA OutcomesAre == LinkInv /\ Served => OutcomesOK
<1> SUFFICES ASSUME LinkInv, Served PROVE OutcomesOK
  OBVIOUS
<1>0. requests \in Requests
  BY LinkInvParts DEF SimInv, ControlOK
<1>1. /\ DOMAIN requests = 1 .. Len(requests) /\ Len(requests) \in Nat
      /\ \A r \in DOMAIN requests :
           requests[r] \in [kind : Kinds, by : SUBSET PcMessages, done : BOOLEAN]
  BY <1>0, LenProperties, ElementOfSeq DEF Requests
<1>2. requests # <<>> => Current >= 1
  BY <1>0, <1>1, EmptySeq DEF Requests, Current
<1> DEFINE n == DoneSoFar
<1>3. n \in Nat /\ n <= Len(requests)
  BY <1>1, <1>2 DEF DoneSoFar, Current
<1>4. Completed = 1 .. n
  BY <1>1, <1>2 DEF Completed, Served, DoneSoFar, Current
<1> HIDE DEF n
<1>5. KindsAsked = [r \in 1 .. Len(requests) |-> requests[r].kind]
  BY <1>1 DEF KindsAsked
<1>6. KindsAsked \in [1 .. Len(requests) -> Kinds]
  BY <1>1, <1>5
<1>7. KindsAsked \in Seq(Kinds) /\ Len(KindsAsked) = Len(requests)
  BY <1>1, <1>6
<1> DEFINE O(r) == Decision(requests[r].by)
<1>8. ASSUME NEW r \in 1 .. n PROVE O(r) \in Decisions
  <2>1. r \in DOMAIN requests
    BY <1>1, <1>3
  <2>2. \A m \in requests[r].by : m \in PcMessages
    BY <1>1, <2>1
  <2>3. \A m \in requests[r].by : m.id \in Nat /\ m.byte3 \in Nat
    BY <2>2, Bounds DEF PcMessages
  <2> QED BY <2>3 DEF Decisions, Decision
<1>9. Outcomes = [r \in 1 .. n |-> O(r)]
  BY <1>4 DEF Outcomes, Decision
<1> HIDE DEF O
<1>10. Outcomes \in [1 .. n -> Decisions] /\ \A r \in 1 .. n : Outcomes[r] = O(r)
  BY <1>8, <1>9
<1>11. Outcomes \in Seq(Decisions) /\ Len(Outcomes) = n
  BY <1>3, <1>10
<1> QED BY <1>1, <1>3, <1>4, <1>5, <1>7, <1>10, <1>11 DEF OutcomesOK, Current, n, O

LEMMA IsAppend ==
  ASSUME NEW S, NEW s \in Seq(S), NEW t \in Seq(S), NEW e \in S, Len(t) = Len(s) + 1,
         \A i \in 1 .. Len(s) : t[i] = s[i], t[Len(s) + 1] = e
  PROVE  t = Append(s, e)
<1>1. /\ Append(s, e) \in Seq(S) /\ DOMAIN Append(s, e) = 1 .. Len(s) + 1 /\ Len(s) \in Nat
      /\ \A i \in 1 .. Len(s) : Append(s, e)[i] = s[i]
      /\ Append(s, e)[Len(s) + 1] = e
  BY Pushed
<1>2. DOMAIN t = 1 .. Len(s) + 1
  BY LenProperties
<1>3. \A i \in 1 .. Len(s) + 1 : t[i] = Append(s, e)[i]
  BY <1>1
<1>4. Len(Append(s, e)) = Len(t)
  BY <1>1, AppendProperties
<1> QED BY <1>1, <1>2, <1>3, <1>4, SeqEqual

LEMMA RequestMade ==
  ASSUME LinkInv, OutcomesOK, OutcomesOK', HostRequest
  PROVE  Service!Ask
<1>1. PICK k \in Kinds : requests' = Append(requests, [kind |-> k, by |-> {}, done |-> FALSE])
  BY LinkAssumption DEF HostRequest
<1> DEFINE q == [kind |-> k, by |-> {}, done |-> FALSE]
<1>2. /\ requests \in Requests
      /\ q \in [kind : Kinds, by : SUBSET PcMessages, done : BOOLEAN] /\ q.done = FALSE
      /\ q.kind = k /\ requests' = Append(requests, q)
      /\ Len(requests) < MaxRequests /\ \A r \in DOMAIN requests : requests[r].done
  BY <1>1, LinkInvParts DEF SimInv, ControlOK, HostRequest
<1> HIDE DEF q
<1>3. /\ Current' = Current + 1 /\ requests'[Current + 1] = q /\ requests' # <<>>
      /\ \A r \in 1 .. Current : requests'[r] = requests[r]
  <2>1. /\ DOMAIN requests' = 1 .. Len(requests) + 1 /\ requests'[Len(requests) + 1] = q
        /\ \A r \in 1 .. Len(requests) : requests'[r] = requests[r]
        /\ Len(requests') = Len(requests) + 1
    BY <1>2, Pushed, AppendProperties DEF Requests
  <2>2. requests' # <<>>
    BY <2>1, <1>2, LenProperties DEF Requests
  <2> QED BY <2>1, <2>2 DEF Current
<1>4. DoneSoFar = Current
  <2>1. CASE requests = <<>>
    BY <2>1 DEF DoneSoFar
  <2>2. CASE requests # <<>>
    <3>1. Len(requests) \in Nat /\ Len(requests) # 0 /\ DOMAIN requests = 1 .. Len(requests)
      BY <1>2, <2>2, EmptySeq, LenProperties DEF Requests
    <3>2. requests[Current].done
      BY <1>2, <3>1 DEF Current
    <3> QED BY <3>2 DEF DoneSoFar
  <2> QED BY <2>1, <2>2
<1>5. DoneSoFar' = Current
  <2>1. ~requests'[Current'].done /\ Current \in Nat
    BY <1>2, <1>3 DEF OutcomesOK
  <2> QED BY <1>3, <2>1 DEF DoneSoFar
<1>6. Len(KindsAsked) = Current /\ Len(Outcomes) = Current /\ Current < MaxRequests
  BY <1>2, <1>4 DEF OutcomesOK, Current
<1>7. Outcomes' = Outcomes
  <2>1. /\ Outcomes \in Seq(Decisions) /\ Outcomes' \in Seq(Decisions)
        /\ Len(Outcomes) = Len(Outcomes')
    BY <1>4, <1>5 DEF OutcomesOK
  <2>2. \A i \in 1 .. Current : Outcomes'[i] = Outcomes[i]
    BY <1>3, <1>4, <1>5 DEF OutcomesOK
  <2> QED BY <1>6, <2>1, <2>2, SeqEqual
<1>8. KindsAsked' = Append(KindsAsked, k)
  <2>1. /\ KindsAsked \in Seq(Kinds) /\ KindsAsked' \in Seq(Kinds)
        /\ Len(KindsAsked') = Len(KindsAsked) + 1 /\ Current \in Nat
    BY <1>3 DEF OutcomesOK
  <2>2. \A i \in 1 .. Len(KindsAsked) : KindsAsked'[i] = KindsAsked[i]
    BY <1>3, <1>6, <2>1 DEF OutcomesOK
  <2>3. KindsAsked'[Len(KindsAsked) + 1] = k
    BY <1>2, <1>3, <1>6, <2>1 DEF OutcomesOK
  <2> QED BY <2>1, <2>2, <2>3, IsAppend
<1> QED BY <1>6, <1>7, <1>8 DEF Service!Ask, Kinds

(* Replies used, but not the last. *)
LEMMA RequestGoesOn ==
  ASSUME LinkInv, QuietInv, OutcomesOK, OutcomesOK', task \in {"decideU", "decideD"}, Use(FALSE)
  PROVE  UNCHANGED <<KindsAsked, Outcomes>>
<1>1. /\ Current' = Current /\ requests # <<>> /\ ~requests[Current].done /\ Current \in Nat
      /\ requests'[Current].kind = requests[Current].kind
      /\ requests'[Current].done = FALSE /\ DOMAIN requests = 1 .. Current
      /\ \A r \in 1 .. Current : r # Current => requests'[r] = requests[r]
      /\ DOMAIN requests' = DOMAIN requests /\ Current \in DOMAIN requests
  BY ReplyAsItCame, Used
<1>2. requests' # <<>>
  BY <1>1
<1>3. DoneSoFar = Current - 1 /\ DoneSoFar' = Current - 1
  BY <1>1, <1>2 DEF DoneSoFar
<1>4. Outcomes' = Outcomes
  <2>1. /\ Outcomes \in Seq(Decisions) /\ Outcomes' \in Seq(Decisions)
        /\ Len(Outcomes) = Current - 1 /\ Len(Outcomes') = Current - 1
    BY <1>3 DEF OutcomesOK
  <2>2. \A i \in 1 .. Current - 1 : requests'[i] = requests[i]
    BY <1>1
  <2>3. \A i \in 1 .. Current - 1 : Outcomes'[i] = Outcomes[i]
    BY <1>3, <2>2 DEF OutcomesOK
  <2> QED BY <2>1, <2>3, SeqEqual
<1>5. KindsAsked' = KindsAsked
  <2>1. /\ KindsAsked \in Seq(Kinds) /\ KindsAsked' \in Seq(Kinds)
        /\ Len(KindsAsked) = Current /\ Len(KindsAsked') = Current
    BY <1>1 DEF OutcomesOK
  <2>2. \A i \in 1 .. Current : KindsAsked'[i] = KindsAsked[i]
    BY <1>1 DEF OutcomesOK
  <2> QED BY <2>1, <2>2, SeqEqual
<1> QED BY <1>4, <1>5

(* The last reply makes the decision, with those before it.                *)
LEMMA RequestDone ==
  ASSUME LinkInv, QuietInv, OutcomesOK, OutcomesOK', task \in {"decideU", "decideD"}, Use(TRUE),
         task = "decideU" => requests[Current].kind # "descriptor"
  PROVE  Service!Complete
<1>1. /\ Current' = Current /\ requests # <<>> /\ ~requests[Current].done /\ Current \in Nat
      /\ requests'[Current].kind = requests[Current].kind
      /\ requests'[Current].by = requests[Current].by \cup {buffer}
      /\ requests'[Current].done = TRUE /\ DOMAIN requests = 1 .. Current
      /\ \A r \in 1 .. Current : r # Current => requests'[r] = requests[r]
      /\ Current \in 1 .. Current
  BY ReplyAsItCame, Used
<1>2. DoneSoFar = Current - 1 /\ DoneSoFar' = Current
  BY <1>1 DEF DoneSoFar
<1>3. KindsAsked' = KindsAsked
  <2>1. /\ KindsAsked \in Seq(Kinds) /\ KindsAsked' \in Seq(Kinds)
        /\ Len(KindsAsked) = Current /\ Len(KindsAsked') = Current
    BY <1>1 DEF OutcomesOK
  <2>2. ASSUME NEW i \in 1 .. Current PROVE KindsAsked'[i] = KindsAsked[i]
    <3>1. KindsAsked[i] = requests[i].kind
      BY DEF OutcomesOK
    <3>2. i \in 1 .. Current'
      BY <1>1
    <3>3. KindsAsked'[i] = requests'[i].kind
      BY <3>2 DEF OutcomesOK
    <3>4. requests'[i].kind = requests[i].kind
      BY <1>1
    <3> QED BY <3>1, <3>3, <3>4
  <2> QED BY <2>1, <2>2, SeqEqual
<1> DEFINE v == {m.byte3 : m \in requests'[Current].by}
<1>4. {m.id : m \in requests'[Current].by} = {Current} /\ v \in Service!Verdicts(requests[Current].kind)
  <2>1. OwnReply(buffer) /\ requests[Current].kind \in Kinds
    BY ReplyAsItCame
  <2>2. CASE task = "decideU"
    <3>1. requests'[Current].by = {buffer} /\ buffer.cmd = "U"
      BY <1>1, <2>2 DEF QuietInv, Served
    <3>2. buffer.id = Current /\ buffer.byte3 \in Verdicts(requests[Current].kind)
      BY <2>1, <3>1 DEF OwnReply
    <3>3. v = {buffer.byte3} /\ {m.id : m \in requests'[Current].by} = {Current}
      BY <3>1, <3>2
    <3>4. {buffer.byte3} \in Service!Verdicts(requests[Current].kind)
      BY <2>1, <2>2, <3>2 DEF Verdicts, Service!Verdicts, Ignore, Handle, Stall, Kinds
    <3> QED BY <3>3, <3>4
  <2>3. CASE task = "decideD"
    <3>1. /\ requests'[Current].by = {PcMessage("U", Ignore, Current), buffer}
          /\ buffer.cmd = "D" /\ requests[Current].kind = "descriptor"
      BY <1>1, <2>3 DEF QuietInv, Served
    <3>2. buffer.id = Current /\ buffer.byte3 = 3
      BY <2>1, <3>1 DEF OwnReply, NotAVerdict
    <3>3. PcMessage("U", Ignore, Current).id = Current /\ PcMessage("U", Ignore, Current).byte3 = 0
      BY DEF PcMessage, Ignore
    <3>4. v = {0, 3} /\ {m.id : m \in requests'[Current].by} = {Current}
      BY <3>1, <3>2, <3>3
    <3> QED BY <3>1, <3>4 DEF Service!Verdicts
  <2> QED BY <2>2, <2>3
<1> DEFINE e == [of |-> {Current}, verdict |-> v]
<1>5. Outcomes'[Current] = e
  <2>1. Outcomes'[Current] = Decision(requests'[Current].by)
    BY <1>1, <1>2 DEF OutcomesOK
  <2> QED BY <1>4, <2>1 DEF Decision
<1> HIDE DEF v
<1>6. Outcomes' = Append(Outcomes, e)
  <2>1. /\ Outcomes \in Seq(Decisions) /\ Outcomes' \in Seq(Decisions)
        /\ Len(Outcomes) = Current - 1 /\ Len(Outcomes') = Current
    BY <1>2 DEF OutcomesOK
  <2>2. \A i \in 1 .. Current - 1 : requests'[i] = requests[i]
    BY <1>1
  <2>3. \A i \in 1 .. Current - 1 : Outcomes'[i] = Outcomes[i]
    BY <1>1, <1>2, <2>2 DEF OutcomesOK
  <2>4. e \in Decisions
    <3>1. Current \in 1 .. Len(Outcomes')
      BY <1>1, <2>1
    <3> QED BY <1>5, <2>1, <3>1, ElementOfSeq
  <2>5. Current - 1 + 1 = Current
    BY <1>1
  <2> HIDE DEF e
  <2> QED BY <1>5, <2>1, <2>3, <2>4, <2>5, IsAppend
<1>7. /\ Len(KindsAsked) = Current /\ Len(Outcomes) < Current
      /\ KindsAsked[Current] = requests[Current].kind
  BY <1>1, <1>2 DEF OutcomesOK
<1> QED BY <1>3, <1>4, <1>6, <1>7 DEF Service!Complete

LEMMA ServiceStep ==
  ASSUME LinkInv, Quiet, QuietInv, OutcomesOK, OutcomesOK', [Next]_vars
  PROVE  [Service!Next]_<<KindsAsked, Outcomes>>
<1>1. CASE requests' = requests
  BY <1>1, ServiceSame
<1>2. CASE HostRequest
  BY <1>2, RequestMade DEF Service!Next
<1>3. CASE DecideControl
  <2>1. task = "decideU" /\ Reply = buffer /\ OwnReply(buffer) /\ buffer.cmd = "U"
    BY <1>3, ReplyAsItCame DEF DecideControl, QuietInv, Served
  <2>2. CASE Use(FALSE)
    BY <2>1, <2>2, RequestGoesOn
  <2>3. CASE Use(TRUE) /\ ~Use(FALSE)
    <3>1. requests[Current].kind # "descriptor"
      BY <1>3, <2>3, OwnReplyEnds DEF AskDescriptor
    <3> QED BY <2>1, <2>3, <3>1, RequestDone DEF Service!Next
  <2> QED BY <1>3, <2>2, <2>3, OwnReplyEnds DEF EndRequest, AskDescriptor
<1>4. CASE DecideDescriptor
  <2>1. task = "decideD" /\ Use(TRUE)
    BY <1>4, OwnDescriptorEnds DEF DecideDescriptor
  <2> QED BY <2>1, RequestDone DEF Service!Next
<1>5. CASE Reset
  BY <1>5, Bounds DEF Reset, Quiet, LinkInv, ResetsOK
<1>6. requests' = requests \/ HostRequest \/ DecideControl \/ DecideDescriptor \/ Reset
  BY DEF Next, PcStep, SimStep, HostStep, SimNext, SimLoop, Host, HostResets, HostReadsIn,
     HostSendsOut, FinishSend, WaitForPacket, EndReceive, HandleNothing, HandleReceivedPacket,
     UsbTask, WriteStream, USBIO_Task, Receive, simVars, vars
<1> QED BY <1>1, <1>2, <1>3, <1>4, <1>5, <1>6

(* With no endpoint data, no reset and at most one S packet, for any number*)
(* of requests, OUT packets and failed writes: requests are asked and      *)
(* decided one at a time, each by the replies to it (simulator.c:317-470,  *)
(* USBSimulatorDevice.cs:236-330).                                         *)
THEOREM ServiceImplemented ==
  ASSUME MaxData = 0, MaxResets = 0, MaxAttach <= 1
  PROVE  Spec => Service!Init /\ [][Service!Next]_<<KindsAsked, Outcomes>>
<1>1. Init => Service!Init
  BY DEF Init, SimInit, Service!Init, KindsAsked, Outcomes, Completed
<1>2. LinkInv /\ QuietInv /\ [Next]_vars => QuietInv'
  BY QuietStep DEF Quiet
<1>3. LinkInv /\ QuietInv => OutcomesOK
  BY OutcomesAre DEF QuietInv
<1>4. LinkInv /\ QuietInv /\ OutcomesOK /\ OutcomesOK' /\ [Next]_vars
        => [Service!Next]_<<KindsAsked, Outcomes>>
  BY ServiceStep DEF Quiet
<1> QED BY <1>1, <1>2, <1>3, <1>4, QuietInit, LinkInvariant, PTL DEF Spec

-----------------------------------------------------------------------------
(* How many elements of s are in T. *)
Members(s, T) == {i \in DOMAIN s : s[i] \in T}
Count(s, T) == Cardinality(Members(s, T))
One(b) == IF b THEN 1 ELSE 0

(* What may still become an acknowledgement of data is charged for: the    *)
(* refusals, questions and such acknowledgements under way to the PC, the  *)
(* replies, what is in the channel or receiveBuffer, the echo and the data *)
(* being written.  The S packet, before there are requests, is not.        *)
Charged      == {m \in SimMessages : m.cmd \in {"E", "U", "D"} \/ (m.cmd = "A" /\ m.got = "O")}
ReplyReady   == {e \in Entries : e.status = "ReadyToSend" /\ e.data.cmd \notin {"O", "S"}}
NoAttachment == {m \in PcMessages : m.cmd # "S"}
AttachInBuffer == rx = "full" /\ buffer.cmd = "S" /\ requests = <<>>

RepliesBuilt == Len(replying)
RepliesReady == Count(messages, ReplyReady)
ChargesToPC  == Count(toPC, Charged)
ChargesToSim == Count(toSim, NoAttachment)
SendCharge   == One(task \in Sending /\ tx \in Charged)
BufferCharge == One(rx = "full" /\ ~AttachInBuffer)
WorkCharge   == One(task = "sendC" \/ Writing)

(* Each is paid for by data that has been sent and not acknowledged, or by *)
(* the request whose reply is waited for.                                  *)
DataSent    == {e \in Entries : e.status = "PendingResponse" /\ e.data.cmd = "O"}
BeforeReply == {"sendU", "waitU", "nackU", "sendD", "waitD", "nackD"}
DataPays    == Count(messages, DataSent)
RequestPays == One(task \in BeforeReply)
PaidFor ==
  resets = 0 /\ attaches <= 1 =>
    RepliesBuilt + RepliesReady + ChargesToPC + ChargesToSim + SendCharge + BufferCharge + WorkCharge
      <= DataPays + RequestPays

(* Each S packet is in one place, and not there any more once it is known. *)
AttachReady   == {e \in Entries : e.status = "ReadyToSend" /\ e.data.cmd = "S"}
Attachments   == {m \in PcMessages : m.cmd = "S"}
AttachesReady == Count(messages, AttachReady)
AttachesToSim == Count(toSim, Attachments)
AttachWaits   == One(AttachInBuffer)
AttachKnown   == One(attached # "no" \/ requests # <<>>)
AttachedOnce  == AttachesReady + AttachesToSim + AttachWaits + AttachKnown <= attaches

(* Data is written for a configured endpoint only. *)
Begun == bank # "none" \/ task \in {"nested", "write"} \/ rx = "shifted" => requests # <<>>

(* Behind an acknowledgement there is a question, while it is open.        *)
QuestionLast ==
  task \in Waits =>
    \A i \in DOMAIN toPC : toPC[i].cmd = "A" =>
      \E j \in DOMAIN toPC : j > i /\ toPC[j].cmd \in {"U", "D"}

(* Data is in the queue in its order, and what is sent is before the rest. *)
SentFirst ==
  \A i, j \in DOMAIN messages :
    i < j /\ messages[i].data.cmd = "O" /\ messages[j].data.cmd = "O" =>
      /\ messages[i].data.id < messages[j].data.id
      /\ messages[i].status = "ReadyToSend" => messages[j].status = "ReadyToSend"

KeptInv == PaidFor /\ AttachedOnce /\ Begun /\ QuestionLast /\ SentFirst

-----------------------------------------------------------------------------
(* Counting. *)
LEMMA MembersFinite ==
  ASSUME NEW S, NEW s \in Seq(S), NEW T
  PROVE  /\ IsFiniteSet(Members(s, T)) /\ Count(s, T) \in Nat
         /\ Members(s, T) \subseteq 1 .. Len(s)
         /\ DOMAIN s = 1 .. Len(s) /\ Len(s) \in Nat
<1>1. DOMAIN s = 1 .. Len(s) /\ Len(s) \in Nat
  BY LenProperties
<1>2. IsFiniteSet(1 .. Len(s)) /\ Members(s, T) \in SUBSET (1 .. Len(s))
  BY <1>1, FS_Interval DEF Members
<1>3. IsFiniteSet(Members(s, T))
  BY <1>2, FS_Subset
<1> QED BY <1>1, <1>2, <1>3, FS_CardinalityType DEF Count

LEMMA CountEmpty == \A T : Count(<<>>, T) = 0
<1>1. \A T : Members(<<>>, T) = {}
  BY DEF Members
<1> QED BY <1>1, FS_EmptySet DEF Count

LEMMA CountAppend ==
  ASSUME NEW S, NEW s \in Seq(S), NEW e \in S, NEW T
  PROVE  Count(Append(s, e), T) = Count(s, T) + One(e \in T)
<1> DEFINE n == Len(s)
           t == Append(s, e)
<1>1. /\ DOMAIN s = 1 .. n /\ n \in Nat /\ DOMAIN t = 1 .. n + 1
      /\ \A i \in 1 .. n : t[i] = s[i]
      /\ t[n + 1] = e
  BY Pushed
<1>2. IsFiniteSet(Members(s, T)) /\ Count(s, T) \in Nat
  BY MembersFinite
<1> HIDE DEF t, n
<1>3. CASE e \in T
  <2>1. Members(t, T) = Members(s, T) \cup {n + 1} /\ n + 1 \notin Members(s, T)
    BY <1>1, <1>3 DEF Members
  <2>2. Count(t, T) = Count(s, T) + 1
    BY <1>2, <2>1, FS_AddElement DEF Count
  <2> QED BY <1>3, <2>2 DEF One, t
<1>4. CASE e \notin T
  <2>1. Members(t, T) = Members(s, T)
    BY <1>1, <1>4 DEF Members
  <2> QED BY <1>2, <1>4, <2>1 DEF One, Count, t
<1> QED BY <1>3, <1>4

(* t is s with its element i replaced. *)
LEMMA CountReplaced ==
  ASSUME NEW S, NEW s \in Seq(S), NEW t \in Seq(S), Len(t) = Len(s), NEW i \in 1 .. Len(s), NEW T,
         \A j \in 1 .. Len(s) : j # i => t[j] = s[j]
  PROVE  Count(t, T) + One(s[i] \in T) = Count(s, T) + One(t[i] \in T)
<1>1. /\ IsFiniteSet(Members(s, T)) /\ Count(s, T) \in Nat
      /\ IsFiniteSet(Members(t, T)) /\ Count(t, T) \in Nat
      /\ DOMAIN s = 1 .. Len(s) /\ DOMAIN t = 1 .. Len(s)
  BY MembersFinite
<1>2. Members(s, T) \ {i} = Members(t, T) \ {i}
  BY <1>1 DEF Members
<1>3. /\ i \in Members(s, T) <=> s[i] \in T
      /\ i \in Members(t, T) <=> t[i] \in T
  BY <1>1 DEF Members
<1> DEFINE c == Cardinality(Members(s, T) \ {i})
<1>4. /\ c = IF i \in Members(s, T) THEN Count(s, T) - 1 ELSE Count(s, T)
      /\ c = IF i \in Members(t, T) THEN Count(t, T) - 1 ELSE Count(t, T)
  BY <1>1, <1>2, FS_RemoveElement DEF Count
<1> HIDE DEF c
<1> QED BY <1>1, <1>3, <1>4 DEF One

(* t is s without its element i. *)
LEMMA CountOneLess ==
  ASSUME NEW S, NEW s \in Seq(S), NEW i \in 1 .. Len(s), NEW t, NEW T,
         DOMAIN t = 1 .. Len(s) - 1,
         \A j \in 1 .. Len(s) - 1 : t[j] = IF j < i THEN s[j] ELSE s[j + 1]
  PROVE  Count(s, T) = Count(t, T) + One(s[i] \in T) /\ Count(t, T) \in Nat
<1> DEFINE A == Members(s, T) \ {i}
           B == Members(t, T)
           f == [k \in A |-> IF k < i THEN k ELSE k - 1]
<1>1. /\ IsFiniteSet(Members(s, T)) /\ Count(s, T) \in Nat
      /\ DOMAIN s = 1 .. Len(s) /\ Len(s) \in Nat
  BY MembersFinite
<1>2. A = {k \in 1 .. Len(s) : s[k] \in T /\ k # i} /\ B = {j \in 1 .. Len(s) - 1 : t[j] \in T}
  BY <1>1 DEF Members
<1>3. f \in [A -> B]
  <2> SUFFICES ASSUME NEW k \in A PROVE f[k] \in B
    OBVIOUS
  <2>1. k \in 1 .. Len(s) /\ s[k] \in T /\ k # i
    BY <1>2
  <2>2. CASE k < i
    BY <1>1, <1>2, <2>1, <2>2
  <2>3. CASE k > i
    <3>1. k - 1 \in 1 .. Len(s) - 1 /\ ~(k - 1 < i) /\ k - 1 + 1 = k
      BY <1>1, <2>1, <2>3
    <3>2. t[k - 1] = s[k]
      BY <3>1
    <3> QED BY <1>1, <1>2, <2>1, <2>3, <3>1, <3>2
  <2> QED BY <1>1, <2>1, <2>2, <2>3
<1>4. \A k, l \in A : f[k] = f[l] => k = l
  <2> SUFFICES ASSUME NEW k \in A, NEW l \in A, f[k] = f[l] PROVE k = l
    OBVIOUS
  <2>1. k \in Int /\ l \in Int /\ i \in Int /\ k # i /\ l # i
    BY <1>1, <1>2
  <2>2. (IF k < i THEN k ELSE k - 1) = (IF l < i THEN l ELSE l - 1)
    OBVIOUS
  <2> QED BY <2>1, <2>2
<1>5. \A j \in B : \E k \in A : f[k] = j
  <2> SUFFICES ASSUME NEW j \in B PROVE \E k \in A : f[k] = j
    OBVIOUS
  <2>1. j \in 1 .. Len(s) - 1 /\ t[j] \in T
    BY <1>2
  <2>2. CASE j < i
    <3>1. j \in A
      BY <1>1, <1>2, <2>1, <2>2
    <3> QED BY <2>2, <3>1
  <2>3. CASE ~(j < i)
    <3>1. j + 1 \in 1 .. Len(s) /\ j + 1 # i /\ ~(j + 1 < i) /\ j + 1 - 1 = j
      BY <1>1, <2>1, <2>3
    <3>2. j + 1 \in A
      BY <1>2, <2>1, <2>3, <3>1
    <3>3. PICK k \in A : k = j + 1
      BY <3>2
    <3>4. f[k] = k - 1
      BY <3>1, <3>3
    <3>5. f[k] = j
      <4> HIDE DEF f
      <4> QED BY <3>1, <3>3, <3>4
    <3> QED BY <3>5
  <2> QED BY <2>2, <2>3
<1>6. IsFiniteSet(A) /\ Cardinality(A) = IF i \in Members(s, T) THEN Count(s, T) - 1 ELSE Count(s, T)
  BY <1>1, FS_RemoveElement DEF Count
<1>7. IsFiniteSet(B) /\ Cardinality(B) = Cardinality(A)
  <2> HIDE DEF f, A, B
  <2>1. f \in Bijection(A, B)
    BY <1>3, <1>4, <1>5 DEF Bijection, Injection, Surjection, IsInjective
  <2>2. ExistsBijection(A, B)
    BY <2>1 DEF ExistsBijection
  <2> QED BY <1>6, <2>2, FS_Bijection
<1>8. Count(t, T) \in Nat /\ Count(t, T) = Cardinality(A)
  <2>1. Count(t, T) = Cardinality(B)
    BY DEF Count
  <2> HIDE DEF A, B
  <2> QED BY <1>7, <2>1, FS_CardinalityType
<1>9. i \in Members(s, T) <=> s[i] \in T
  BY <1>1 DEF Members
<1> HIDE DEF A
<1> QED BY <1>1, <1>6, <1>8, <1>9 DEF One

LEMMA CountTail ==
  ASSUME NEW S, NEW s \in Seq(S), s # <<>>, NEW T
  PROVE  Count(s, T) = Count(Tail(s), T) + One(Head(s) \in T) /\ Count(Tail(s), T) \in Nat
<1> DEFINE t == Tail(s)
<1>1. /\ Len(s) \in Nat /\ Len(s) >= 1 /\ DOMAIN t = 1 .. Len(s) - 1 /\ Head(s) = s[1]
      /\ \A i \in 1 .. Len(s) - 1 : t[i] = s[i + 1]
  BY Popped
<1> HIDE DEF t
<1>2. 1 \in 1 .. Len(s) /\ \A j \in 1 .. Len(s) - 1 : ~(j < 1)
  BY <1>1
<1>3. \A j \in 1 .. Len(s) - 1 : t[j] = IF j < 1 THEN s[j] ELSE s[j + 1]
  BY <1>1, <1>2
<1>4. Count(s, T) = Count(t, T) + One(s[1] \in T) /\ Count(t, T) \in Nat
  BY <1>1, <1>2, <1>3, CountOneLess
<1> QED BY <1>1, <1>4 DEF t

LEMMA CountRemoved ==
  ASSUME NEW S, NEW s \in Seq(S), NEW i \in 1 .. Len(s), NEW T
  PROVE  /\ Count(s, T) = Count(RemoveAt(s, i), T) + One(s[i] \in T)
         /\ Count(RemoveAt(s, i), T) \in Nat
<1> DEFINE t == RemoveAt(s, i)
<1>1. /\ DOMAIN t = 1 .. Len(s) - 1
      /\ \A j \in 1 .. Len(s) - 1 : t[j] = IF j < i THEN s[j] ELSE s[j + 1]
  BY Removed
<1> HIDE DEF t
<1>2. Count(s, T) = Count(t, T) + One(s[i] \in T) /\ Count(t, T) \in Nat
  BY <1>1, CountOneLess
<1> QED BY <1>2 DEF t

LEMMA CountSome ==
  ASSUME NEW S, NEW s \in Seq(S), NEW T
  PROVE  /\ Count(s, T) # 0 => \E i \in 1 .. Len(s) : s[i] \in T
         /\ \A i \in 1 .. Len(s) : s[i] \in T => Count(s, T) >= 1
         /\ \A i, j \in 1 .. Len(s) : i # j /\ s[i] \in T /\ s[j] \in T => Count(s, T) >= 2
<1>1. IsFiniteSet(Members(s, T)) /\ Count(s, T) \in Nat /\ DOMAIN s = 1 .. Len(s)
  BY MembersFinite
<1>2. Count(s, T) = 0 <=> Members(s, T) = {}
  BY <1>1, FS_EmptySet DEF Count
<1>3. \A i \in 1 .. Len(s) : s[i] \in T <=> i \in Members(s, T)
  BY <1>1 DEF Members
<1>4. Members(s, T) \subseteq 1 .. Len(s)
  BY MembersFinite
<1>5. ASSUME NEW i \in Members(s, T), NEW j \in Members(s, T), i # j PROVE Count(s, T) # 1
  <2>1. Count(s, T) = 1 => \E x : Members(s, T) = {x}
    BY <1>1, FS_Singleton DEF Count
  <2> QED BY <1>5, <2>1
<1>6. Count(s, T) \in Nat
  BY <1>1
<1>7. \A i \in 1 .. Len(s) : s[i] \in T => Count(s, T) # 0
  BY <1>2, <1>3
<1>8. \A i, j \in 1 .. Len(s) : i # j /\ s[i] \in T /\ s[j] \in T => Count(s, T) # 0 /\ Count(s, T) # 1
  BY <1>3, <1>5, <1>7
<1>9. Count(s, T) # 0 => \E i \in 1 .. Len(s) : s[i] \in T
  BY <1>2, <1>3, <1>4
<1>10. /\ Count(s, T) # 0 => Count(s, T) >= 1
       /\ Count(s, T) # 0 /\ Count(s, T) # 1 => Count(s, T) >= 2
  BY <1>6
<1> QED BY <1>7, <1>8, <1>9, <1>10

(* The counts as numbers. *)
Counted ==
  /\ RepliesBuilt \in Nat /\ RepliesReady \in Nat /\ DataPays \in Nat /\ AttachesReady \in Nat
  /\ ChargesToPC \in Nat /\ ChargesToSim \in Nat /\ AttachesToSim \in Nat
  /\ attaches \in Nat

LEMMA CountTypes == ChannelsOK /\ PcTypeOK => Counted
<1> SUFFICES ASSUME ChannelsOK, PcTypeOK PROVE Counted
  OBVIOUS
<1>1. /\ messages \in Seq(Entries) /\ replying \in Seq(PcMessages) /\ attaches \in Nat
      /\ toPC \in Seq(SimMessages) /\ toSim \in Seq(PcMessages)
  BY PcTypes, Bounds DEF ChannelsOK
<1>2. Len(replying) \in Nat
  BY <1>1, LenProperties
<1>3. \A T : Count(messages, T) \in Nat /\ Count(toPC, T) \in Nat /\ Count(toSim, T) \in Nat
  BY <1>1, MembersFinite
<1> QED BY <1>1, <1>2, <1>3 DEF Counted, RepliesBuilt, RepliesReady, DataPays, AttachesReady,
      ChargesToPC, ChargesToSim, AttachesToSim

-----------------------------------------------------------------------------
(* What each step of the PC adds to the charges, data pays for.            *)
PcBalance ==
  /\ RepliesBuilt' + RepliesReady' + ChargesToPC' + ChargesToSim' + DataPays
       <= RepliesBuilt + RepliesReady + ChargesToPC + ChargesToSim + DataPays'
  /\ AttachesReady' + AttachesToSim' + attaches <= AttachesReady + AttachesToSim + attaches'
  /\ attaches <= attaches'

LEMMA SameChannels ==
  /\ toPC' = toPC => ChargesToPC' = ChargesToPC
  /\ toSim' = toSim => ChargesToSim' = ChargesToSim /\ AttachesToSim' = AttachesToSim
  /\ messages' = messages =>
       RepliesReady' = RepliesReady /\ DataPays' = DataPays /\ AttachesReady' = AttachesReady
  /\ replying' = replying => RepliesBuilt' = RepliesBuilt
BY DEF ChargesToPC, ChargesToSim, AttachesToSim, RepliesReady, DataPays, AttachesReady, RepliesBuilt

LEMMA WriteCounts ==
  ASSUME messages \in Seq(Entries), NEW m \in PcMessages, Write(m)
  PROVE  /\ RepliesReady' = IF m.cmd \notin {"O", "S"} THEN RepliesReady + 1 ELSE RepliesReady
         /\ DataPays' = DataPays
         /\ AttachesReady' = IF m.cmd = "S" THEN AttachesReady + 1 ELSE AttachesReady
<1> DEFINE e == [data |-> m, status |-> "ReadyToSend"]
<1>1. e \in Entries /\ messages' = Append(messages, e) /\ e.data = m /\ e.status = "ReadyToSend"
  BY DEF Entries, Write
<1> HIDE DEF e
<1>2. /\ e \in ReplyReady <=> m.cmd \notin {"O", "S"}
      /\ e \notin DataSent
      /\ e \in AttachReady <=> m.cmd = "S"
  BY <1>1 DEF ReplyReady, DataSent, AttachReady
<1>3. \A T : Count(messages', T) = Count(messages, T) + One(e \in T) /\ Count(messages, T) \in Nat
  BY <1>1, CountAppend, MembersFinite
<1> QED BY <1>2, <1>3 DEF One, RepliesReady, DataPays, AttachesReady

LEMMA WriteBalance ==
  ASSUME ChannelsOK, PcTypeOK, NEW m \in PcMessages, Write(m), UNCHANGED channels,
         \/ replying' = replying /\ m.cmd = "O" /\ attaches' = attaches
         \/ replying' = replying /\ m.cmd = "S" /\ attaches' = attaches + 1
         \/ Len(replying) = 1 /\ Len(replying') = 0 /\ m.cmd \in {"U", "D"} /\ attaches' = attaches
  PROVE  PcBalance
<1>1. /\ RepliesReady' = IF m.cmd \notin {"O", "S"} THEN RepliesReady + 1 ELSE RepliesReady
      /\ DataPays' = DataPays
      /\ AttachesReady' = IF m.cmd = "S" THEN AttachesReady + 1 ELSE AttachesReady
  BY WriteCounts, PcTypes
<1>2. ChargesToPC' = ChargesToPC /\ ChargesToSim' = ChargesToSim /\ AttachesToSim' = AttachesToSim
  BY SameChannels DEF channels
<1>3. Counted
  BY CountTypes
<1>4. CASE replying' = replying /\ m.cmd = "O" /\ attaches' = attaches
  <2>1. RepliesReady' = RepliesReady /\ AttachesReady' = AttachesReady /\ RepliesBuilt' = RepliesBuilt
    BY <1>1, <1>4, SameChannels
  <2> QED BY <1>1, <1>2, <1>3, <1>4, <2>1 DEF PcBalance, Counted
<1>5. CASE replying' = replying /\ m.cmd = "S" /\ attaches' = attaches + 1
  <2>1. RepliesReady' = RepliesReady /\ AttachesReady' = AttachesReady + 1 /\ RepliesBuilt' = RepliesBuilt
    BY <1>1, <1>5, SameChannels
  <2> QED BY <1>1, <1>2, <1>3, <1>5, <2>1 DEF PcBalance, Counted
<1>6. CASE Len(replying) = 1 /\ Len(replying') = 0 /\ m.cmd \in {"U", "D"} /\ attaches' = attaches
  <2>1. RepliesReady' = RepliesReady + 1 /\ AttachesReady' = AttachesReady
    BY <1>1, <1>6
  <2>2. RepliesBuilt = 1 /\ RepliesBuilt' = 0
    BY <1>6 DEF RepliesBuilt
  <2> QED BY <1>1, <1>2, <1>3, <1>6, <2>1, <2>2 DEF PcBalance, Counted
<1> QED BY <1>4, <1>5, <1>6

(* An entry whose status changes.                                          *)
LEMMA RemarkCounts ==
  ASSUME messages \in Seq(Entries), NEW i \in 1 .. Len(messages),
         NEW st \in {"ReadyToSend", "PendingResponse"},
         messages' = [messages EXCEPT ![i].status = st], NEW T
  PROVE  /\ Count(messages', T) = Count(messages, T) - One(messages[i] \in T) + One(messages'[i] \in T)
         /\ Count(messages, T) \in Nat /\ Count(messages', T) \in Nat
         /\ messages[i] \in Entries /\ messages'[i] \in Entries
         /\ messages'[i].data = messages[i].data /\ messages'[i].status = st
<1>1. messages' \in Seq(Entries)
  BY RemarkType
<1>2. Len(messages') = Len(messages)
  OBVIOUS
<1>3. \A j \in 1 .. Len(messages) : j # i => messages'[j] = messages[j]
  BY LenProperties
<1>4. messages'[i].data = messages[i].data /\ messages'[i].status = st
  BY Remarked
<1>5. messages[i] \in Entries /\ messages'[i] \in Entries
  BY <1>1, <1>2, ElementOfSeq
<1>6. Count(messages', T) = Count(messages, T) - One(messages[i] \in T) + One(messages'[i] \in T)
  <2> DEFINE t == messages'
  <2>1. /\ t \in Seq(Entries) /\ Len(t) = Len(messages)
        /\ \A j \in 1 .. Len(messages) : j # i => t[j] = messages[j]
    BY <1>1, <1>2, <1>3
  <2> HIDE DEF t
  <2>2. /\ Count(t, T) + One(messages[i] \in T) = Count(messages, T) + One(t[i] \in T)
        /\ Count(t, T) \in Nat /\ Count(messages, T) \in Nat
    BY <2>1, CountReplaced, MembersFinite
  <2>3. Count(t, T) = Count(messages, T) - One(messages[i] \in T) + One(t[i] \in T)
    BY <2>2 DEF One
  <2> QED BY <2>3 DEF t
<1>7. Count(messages, T) \in Nat /\ Count(messages', T) \in Nat
  BY <1>1, MembersFinite
<1> QED BY <1>4, <1>5, <1>6, <1>7, Zenon

LEMMA SendBalance ==
  ASSUME ChannelsOK, PcTypeOK, SendMessages
  PROVE  PcBalance
<1> DEFINE i == FirstReady
<1>1. messages \in Seq(Entries) /\ toSim \in Seq(PcMessages) /\ Counted
  BY PcTypes, CountTypes DEF ChannelsOK
<1>2. /\ i \in 1 .. Len(messages) /\ messages[i].status = "ReadyToSend"
      /\ messages' = [messages EXCEPT ![i].status = "PendingResponse"]
      /\ toSim' = toSim \/ toSim' = Append(toSim, messages[i].data)
      /\ UNCHANGED <<replying, attaches, toPC>>
  BY <1>1, FirstReadyFirst DEF SendMessages
<1> HIDE DEF i
<1> DEFINE e == messages[i]
           f == messages'[i]
           d == e.data
<1>3. /\ \A T : /\ Count(messages', T) = Count(messages, T) - One(e \in T) + One(f \in T)
                /\ Count(messages, T) \in Nat /\ Count(messages', T) \in Nat
      /\ e \in Entries /\ f \in Entries /\ f.data = e.data /\ f.status = "PendingResponse"
  BY <1>1, <1>2, RemarkCounts
<1>4. d \in PcMessages
  BY <1>3 DEF Entries
<1>5. /\ e \in ReplyReady <=> d.cmd \notin {"O", "S"}
      /\ e \in AttachReady <=> d.cmd = "S"
      /\ e \notin DataSent /\ f \notin ReplyReady /\ f \notin AttachReady
      /\ f \in DataSent <=> d.cmd = "O"
      /\ d \in NoAttachment <=> d.cmd # "S"
      /\ d \in Attachments <=> d.cmd = "S"
  BY <1>2, <1>3, <1>4 DEF ReplyReady, AttachReady, DataSent, NoAttachment, Attachments
<1>6. \/ \A T : Count(toSim', T) = Count(toSim, T)
      \/ \A T : Count(toSim', T) = Count(toSim, T) + One(d \in T)
  <2>1. CASE toSim' = toSim
    BY <2>1
  <2>2. CASE toSim' = Append(toSim, d)
    <3> HIDE DEF d
    <3>1. \A T : Count(Append(toSim, d), T) = Count(toSim, T) + One(d \in T)
      BY <1>1, <1>4, CountAppend
    <3> QED BY <2>2, <3>1
  <2> QED BY <1>2, <2>1, <2>2
<1> HIDE DEF d, e, f
<1>7. /\ RepliesReady' = IF d.cmd \notin {"O", "S"} THEN RepliesReady - 1 ELSE RepliesReady
      /\ AttachesReady' = IF d.cmd = "S" THEN AttachesReady - 1 ELSE AttachesReady
      /\ DataPays' = IF d.cmd = "O" THEN DataPays + 1 ELSE DataPays
  <2>1. /\ RepliesReady' = RepliesReady - One(e \in ReplyReady) + One(f \in ReplyReady)
        /\ AttachesReady' = AttachesReady - One(e \in AttachReady) + One(f \in AttachReady)
        /\ DataPays' = DataPays - One(e \in DataSent) + One(f \in DataSent)
    BY <1>3 DEF RepliesReady, AttachesReady, DataPays
  <2> QED BY <1>1, <1>5, <2>1 DEF One, Counted
<1>8. \/ ChargesToSim' = ChargesToSim /\ AttachesToSim' = AttachesToSim
      \/ /\ ChargesToSim' = ChargesToSim + (IF d.cmd # "S" THEN 1 ELSE 0)
         /\ AttachesToSim' = AttachesToSim + (IF d.cmd = "S" THEN 1 ELSE 0)
  BY <1>5, <1>6 DEF One, ChargesToSim, AttachesToSim
<1>9. RepliesBuilt' = RepliesBuilt /\ ChargesToPC' = ChargesToPC /\ attaches' = attaches
  BY <1>2, SameChannels
<1>10. Counted
  BY <1>1
<1>11. CASE d.cmd = "S"
  <2>1. RepliesReady' = RepliesReady /\ AttachesReady' = AttachesReady - 1 /\ DataPays' = DataPays
    BY <1>7, <1>11
  <2>2. CASE ChargesToSim' = ChargesToSim /\ AttachesToSim' = AttachesToSim
    BY <1>9, <1>10, <2>1, <2>2 DEF PcBalance, Counted
  <2>3. CASE ChargesToSim' = ChargesToSim /\ AttachesToSim' = AttachesToSim + 1
    BY <1>9, <1>10, <2>1, <2>3 DEF PcBalance, Counted
  <2>4. ChargesToSim + 0 = ChargesToSim /\ AttachesToSim + 0 = AttachesToSim
    BY <1>10 DEF Counted
  <2> QED BY <1>8, <1>11, <2>2, <2>3, <2>4
<1>12. CASE d.cmd = "O"
  <2>1. RepliesReady' = RepliesReady /\ AttachesReady' = AttachesReady /\ DataPays' = DataPays + 1
    BY <1>7, <1>12
  <2>2. CASE ChargesToSim' = ChargesToSim /\ AttachesToSim' = AttachesToSim
    BY <1>9, <1>10, <2>1, <2>2 DEF PcBalance, Counted
  <2>3. CASE ChargesToSim' = ChargesToSim + 1 /\ AttachesToSim' = AttachesToSim
    BY <1>9, <1>10, <2>1, <2>3 DEF PcBalance, Counted
  <2>4. ChargesToSim + 0 = ChargesToSim /\ AttachesToSim + 0 = AttachesToSim
    BY <1>10 DEF Counted
  <2> QED BY <1>8, <1>12, <2>2, <2>3, <2>4
<1>13. CASE d.cmd \notin {"O", "S"}
  <2>1. RepliesReady' = RepliesReady - 1 /\ AttachesReady' = AttachesReady /\ DataPays' = DataPays
    BY <1>7, <1>13
  <2>2. CASE ChargesToSim' = ChargesToSim /\ AttachesToSim' = AttachesToSim
    BY <1>9, <1>10, <2>1, <2>2 DEF PcBalance, Counted
  <2>3. CASE ChargesToSim' = ChargesToSim + 1 /\ AttachesToSim' = AttachesToSim
    BY <1>9, <1>10, <2>1, <2>3 DEF PcBalance, Counted
  <2>4. ChargesToSim + 0 = ChargesToSim /\ AttachesToSim + 0 = AttachesToSim
    BY <1>10 DEF Counted
  <2> QED BY <1>8, <1>13, <2>2, <2>3, <2>4
<1> QED BY <1>11, <1>12, <1>13

LEMMA TakenCounts ==
  ASSUME ChannelsOK, NEW cmds, Received(cmds)
  PROVE  /\ ChargesToPC' = IF Head(toPC) \in Charged THEN ChargesToPC - 1 ELSE ChargesToPC
         /\ ChargesToSim' = ChargesToSim /\ AttachesToSim' = AttachesToSim /\ attaches' = attaches
         /\ Head(toPC) \in SimMessages /\ Head(toPC).cmd \in cmds
<1>1. /\ toPC \in Seq(SimMessages) /\ toPC # <<>> /\ toPC' = Tail(toPC)
      /\ UNCHANGED <<toSim, attaches>> /\ Head(toPC).cmd \in cmds
  BY DEF ChannelsOK, Received
<1>2. /\ Count(toPC, Charged) = Count(Tail(toPC), Charged) + One(Head(toPC) \in Charged)
      /\ Count(Tail(toPC), Charged) \in Nat
  BY <1>1, CountTail
<1>3. Count(Tail(toPC), Charged) =
        IF Head(toPC) \in Charged THEN Count(toPC, Charged) - 1 ELSE Count(toPC, Charged)
  BY <1>2 DEF One
<1>4. Head(toPC) \in SimMessages
  BY <1>1, HeadTailProperties
<1>5. ChargesToPC' = Count(Tail(toPC), Charged) /\ ChargesToPC = Count(toPC, Charged)
  BY <1>1 DEF ChargesToPC
<1>6. ChargesToPC' = IF Head(toPC) \in Charged THEN ChargesToPC - 1 ELSE ChargesToPC
  BY <1>3, <1>5
<1> QED BY <1>1, <1>4, <1>6, SameChannels

LEMMA NackBalance ==
  ASSUME ChannelsOK, PcTypeOK, RefusalsOK, ReceiveNack
  PROVE  PcBalance
<1> DEFINE q == Head(toPC)
           i == OldestWith(q.want)
<1>1. messages \in Seq(Entries) /\ Counted
  BY PcTypes, CountTypes
<1>2. /\ Received({"E"}) /\ UNCHANGED replying
      /\ messages' = IF i = 0 THEN messages ELSE [messages EXCEPT ![i].status = "ReadyToSend"]
  BY DEF ReceiveNack
<1>3. /\ ChargesToPC' = IF q \in Charged THEN ChargesToPC - 1 ELSE ChargesToPC
      /\ ChargesToSim' = ChargesToSim /\ AttachesToSim' = AttachesToSim /\ attaches' = attaches
      /\ q \in SimMessages /\ q.cmd = "E" /\ RepliesBuilt' = RepliesBuilt
  BY <1>2, TakenCounts, SameChannels
<1>4. ChargesToPC' = ChargesToPC - 1
  BY <1>3 DEF Charged
<1>5. q.want \in {"U", "D"}
  <2>1. 1 \in DOMAIN toPC /\ q = toPC[1]
    BY <1>2, Popped DEF Received, ChannelsOK
  <2> QED BY <1>3, <2>1 DEF RefusalsOK
<1>6. CASE i = 0
  <2>1. RepliesReady' = RepliesReady /\ AttachesReady' = AttachesReady /\ DataPays' = DataPays
    BY <1>2, <1>6, SameChannels
  <2> QED BY <1>1, <1>3, <1>4, <2>1 DEF PcBalance, Counted
<1>7. CASE i # 0
  <2>1. /\ i \in 1 .. Len(messages) /\ messages[i].data.cmd = q.want
        /\ messages' = [messages EXCEPT ![i].status = "ReadyToSend"]
    BY <1>1, <1>2, <1>7, OldestWithFirst
  <2> HIDE DEF i, q
  <2> DEFINE e == messages[i]
             f == messages'[i]
  <2>2. /\ \A T : Count(messages', T) = Count(messages, T) - One(e \in T) + One(f \in T)
        /\ f.data = e.data
    BY <1>1, <2>1, RemarkCounts
  <2>3. e \notin DataSent /\ f \notin DataSent /\ e \notin AttachReady /\ f \notin AttachReady
    BY <1>5, <2>1, <2>2 DEF DataSent, AttachReady
  <2> HIDE DEF e, f
  <2>4. /\ RepliesReady' = RepliesReady - One(e \in ReplyReady) + One(f \in ReplyReady)
        /\ AttachesReady' = AttachesReady - One(e \in AttachReady) + One(f \in AttachReady)
        /\ DataPays' = DataPays - One(e \in DataSent) + One(f \in DataSent)
    BY <2>2 DEF RepliesReady, AttachesReady, DataPays
  <2>5. AttachesReady' = AttachesReady /\ DataPays' = DataPays
    BY <1>1, <2>3, <2>4 DEF One, Counted
  <2>6. \/ RepliesReady' = RepliesReady \/ RepliesReady' = RepliesReady + 1
        \/ RepliesReady' = RepliesReady - 1
    BY <1>1, <2>4 DEF One, Counted
  <2>7. CASE RepliesReady' = RepliesReady
    BY <1>1, <1>3, <1>4, <2>5, <2>7 DEF PcBalance, Counted
  <2>8. CASE RepliesReady' = RepliesReady + 1
    BY <1>1, <1>3, <1>4, <2>5, <2>8 DEF PcBalance, Counted
  <2>9. CASE RepliesReady' = RepliesReady - 1
    BY <1>1, <1>3, <1>4, <2>5, <2>9 DEF PcBalance, Counted
  <2> QED BY <2>6, <2>7, <2>8, <2>9
<1> QED BY <1>6, <1>7

LEMMA AckBalance ==
  ASSUME ChannelsOK, PcTypeOK, ReceiveAck
  PROVE  PcBalance
<1> DEFINE q == Head(toPC)
           i == OldestWith(q.got)
<1>1. messages \in Seq(Entries) /\ Counted
  BY PcTypes, CountTypes
<1>2. /\ Received({"A"}) /\ UNCHANGED replying
      /\ messages' = IF i = 0 THEN messages ELSE RemoveAt(messages, i)
  BY DEF ReceiveAck
<1>3. /\ ChargesToPC' = IF q \in Charged THEN ChargesToPC - 1 ELSE ChargesToPC
      /\ ChargesToSim' = ChargesToSim /\ AttachesToSim' = AttachesToSim /\ attaches' = attaches
      /\ q \in SimMessages /\ q.cmd = "A" /\ RepliesBuilt' = RepliesBuilt
  BY <1>2, TakenCounts, SameChannels
<1>4. q \in Charged <=> q.got = "O"
  BY <1>3 DEF Charged
<1>5. \/ ChargesToPC' = ChargesToPC - 1
      \/ ChargesToPC' = ChargesToPC /\ q.got # "O"
  BY <1>3, <1>4
<1>6. CASE i = 0
  <2>1. RepliesReady' = RepliesReady /\ AttachesReady' = AttachesReady /\ DataPays' = DataPays
    BY <1>2, <1>6, SameChannels
  <2>2. CASE ChargesToPC' = ChargesToPC - 1
    BY <1>1, <1>3, <2>1, <2>2 DEF PcBalance, Counted
  <2>3. CASE ChargesToPC' = ChargesToPC
    BY <1>1, <1>3, <2>1, <2>3 DEF PcBalance, Counted
  <2> QED BY <1>5, <2>2, <2>3
<1>7. CASE i # 0
  <2>1. /\ i \in 1 .. Len(messages) /\ messages[i].data.cmd = q.got
        /\ messages' = RemoveAt(messages, i)
    BY <1>1, <1>2, <1>7, OldestWithFirst
  <2> HIDE DEF i, q
  <2> DEFINE e == messages[i]
  <2>2. \A T : Count(messages', T) = Count(messages, T) - One(e \in T)
    <3> SUFFICES ASSUME NEW T PROVE Count(messages', T) = Count(messages, T) - One(e \in T)
      OBVIOUS
    <3> DEFINE t == RemoveAt(messages, i)
    <3>1. Count(messages, T) = Count(t, T) + One(e \in T) /\ Count(t, T) \in Nat
      BY <1>1, <2>1, CountRemoved
    <3> HIDE DEF t
    <3>2. Count(t, T) = Count(messages, T) - One(e \in T)
      BY <3>1 DEF One
    <3> QED BY <2>1, <3>2 DEF t
  <2>3. /\ RepliesReady' = RepliesReady - One(e \in ReplyReady)
        /\ AttachesReady' = AttachesReady - One(e \in AttachReady)
        /\ DataPays' = DataPays - One(e \in DataSent)
    BY <2>2 DEF RepliesReady, AttachesReady, DataPays
  <2>4. /\ e \in ReplyReady => q.got # "O"
        /\ e \in DataSent => q.got = "O"
    BY <2>1 DEF ReplyReady, DataSent
  <2> HIDE DEF e
  <2>5. AttachesReady' = AttachesReady \/ AttachesReady' = AttachesReady - 1
    BY <1>1, <2>3 DEF One, Counted
  <2>6. CASE q.got = "O"
    <3>1. RepliesReady' = RepliesReady /\ ChargesToPC' = ChargesToPC - 1
      BY <1>1, <1>5, <2>3, <2>4, <2>6 DEF One, Counted
    <3>2. DataPays' = DataPays \/ DataPays' = DataPays - 1
      BY <1>1, <2>3 DEF One, Counted
    <3>3. RepliesBuilt' + RepliesReady' + ChargesToPC' + ChargesToSim' + DataPays
            <= RepliesBuilt + RepliesReady + ChargesToPC + ChargesToSim + DataPays'
      <4>1. CASE DataPays' = DataPays
        BY <1>1, <1>3, <3>1, <4>1 DEF Counted
      <4>2. CASE DataPays' = DataPays - 1
        BY <1>1, <1>3, <3>1, <4>2 DEF Counted
      <4> QED BY <3>2, <4>1, <4>2
    <3>4. CASE AttachesReady' = AttachesReady
      BY <1>1, <1>3, <3>3, <3>4 DEF PcBalance, Counted
    <3>5. CASE AttachesReady' = AttachesReady - 1
      BY <1>1, <1>3, <3>3, <3>5 DEF PcBalance, Counted
    <3> QED BY <2>5, <3>4, <3>5
  <2>7. CASE q.got # "O"
    <3>1. DataPays' = DataPays /\ ChargesToPC' = ChargesToPC
      BY <1>1, <1>3, <1>4, <2>3, <2>4, <2>7 DEF One, Counted
    <3>2. RepliesReady' = RepliesReady \/ RepliesReady' = RepliesReady - 1
      BY <1>1, <2>3 DEF One, Counted
    <3>3. RepliesBuilt' + RepliesReady' + ChargesToPC' + ChargesToSim' + DataPays
            <= RepliesBuilt + RepliesReady + ChargesToPC + ChargesToSim + DataPays'
      <4>1. CASE RepliesReady' = RepliesReady
        BY <1>1, <1>3, <3>1, <4>1 DEF Counted
      <4>2. CASE RepliesReady' = RepliesReady - 1
        BY <1>1, <1>3, <3>1, <4>2 DEF Counted
      <4> QED BY <3>2, <4>1, <4>2
    <3>4. CASE AttachesReady' = AttachesReady
      BY <1>1, <1>3, <3>3, <3>4 DEF PcBalance, Counted
    <3>5. CASE AttachesReady' = AttachesReady - 1
      BY <1>1, <1>3, <3>3, <3>5 DEF PcBalance, Counted
    <3> QED BY <2>5, <3>4, <3>5
  <2> QED BY <2>6, <2>7
<1> QED BY <1>6, <1>7

LEMMA PcBalances ==
  ASSUME ChannelsOK, PcTypeOK, RefusalsOK, PcNext
  PROVE  PcBalance
<1>1. Counted
  BY CountTypes
<1>2. CASE AttachDevice \/ DetachDevice
  <2>1. /\ UNCHANGED channels /\ replying' = replying /\ attaches' = attaches + 1
        /\ \E b \in {0, 1} : Write(PcMessage("S", b, 0))
    BY <1>2 DEF AttachDevice, DetachDevice
  <2>2. PICK b \in {0, 1} : Write(PcMessage("S", b, 0))
    BY <2>1
  <2>3. PcMessage("S", b, 0) \in PcMessages /\ PcMessage("S", b, 0).cmd = "S"
    BY Bounds DEF PcMessage, PcMessages, PcCommands
  <2> QED BY <2>1, <2>2, <2>3, WriteBalance
<1>3. CASE WriteOutgoingData
  <2>1. /\ UNCHANGED channels /\ replying' = replying /\ attaches' = attaches
        /\ Write(PcMessage("O", 1, written + 1)) /\ written < MaxData
    BY <1>3 DEF WriteOutgoingData
  <2>2. PcMessage("O", 1, written + 1) \in PcMessages /\ PcMessage("O", 1, written + 1).cmd = "O"
    <3>1. written + 1 \in 0 .. MaxRequests + MaxData
      BY <2>1, Bounds, PcTypes
    <3> QED BY <3>1 DEF PcMessage, PcMessages, PcCommands
  <2> QED BY <2>1, <2>2, WriteBalance
<1>4. CASE SendMessages
  BY <1>4, SendBalance
<1>5. CASE QueueReply
  <2>1. /\ UNCHANGED channels /\ replying # <<>> /\ replying' = <<>> /\ attaches' = attaches
        /\ Write(Head(replying))
    BY <1>5 DEF QueueReply
  <2>2. Len(replying) = 1 /\ Len(replying') = 0 /\ Head(replying) \in PcMessages
    <3>1. replying \in Seq(PcMessages) /\ Len(replying) <= 1
      BY PcTypes
    <3>2. Len(replying) \in Nat /\ Len(replying) >= 1 /\ Head(replying) \in PcMessages
      BY <2>1, <3>1, Popped
    <3>3. Len(replying) \in Nat /\ Len(replying) >= 1 /\ Len(replying) <= 1
      BY <3>1, <3>2
    <3>4. \A n \in Nat : n >= 1 /\ n <= 1 => n = 1
      OBVIOUS
    <3>5. Len(replying) = 1
      BY <3>3, <3>4, Zenon
    <3> QED BY <2>1, <3>2, <3>5
  <2> QED BY <2>1, <2>2, WriteBalance DEF RefusalsOK
<1>6. CASE ReceiveNack
  BY <1>6, NackBalance
<1>7. CASE ReceiveAck
  BY <1>7, AckBalance
<1>8. CASE ReceiveOther \/ ReceiveControlRequest \/ ReceiveDescriptorRequest
  <2>1. PICK cmds : Received(cmds) /\ messages' = messages
                    /\ \/ cmds = {"I", "C"} /\ replying' = replying
                       \/ cmds \in {{"U"}, {"D"}} /\ Len(replying') = 1
    BY <1>8 DEF ReceiveOther, ReceiveControlRequest, ReceiveDescriptorRequest
  <2>2. /\ ChargesToPC' = IF Head(toPC) \in Charged THEN ChargesToPC - 1 ELSE ChargesToPC
        /\ ChargesToSim' = ChargesToSim /\ AttachesToSim' = AttachesToSim /\ attaches' = attaches
        /\ Head(toPC) \in SimMessages /\ Head(toPC).cmd \in cmds
        /\ RepliesReady' = RepliesReady /\ AttachesReady' = AttachesReady /\ DataPays' = DataPays
    BY <2>1, TakenCounts, SameChannels
  <2>3. CASE cmds = {"I", "C"} /\ replying' = replying
    <3>1. ChargesToPC' = ChargesToPC /\ RepliesBuilt' = RepliesBuilt
      BY <2>2, <2>3, SameChannels DEF Charged
    <3> QED BY <1>1, <2>2, <3>1 DEF PcBalance, Counted
  <2>4. CASE cmds \in {{"U"}, {"D"}} /\ Len(replying') = 1
    <3>1. ChargesToPC' = ChargesToPC - 1
      BY <2>2, <2>4 DEF Charged
    <3>2. RepliesBuilt' = RepliesBuilt + 1
      <4>1. replying = <<>>
        BY <2>1 DEF Received
      <4> QED BY <2>4, <4>1 DEF RepliesBuilt
    <3> QED BY <1>1, <2>2, <3>1, <3>2 DEF PcBalance, Counted
  <2> QED BY <2>1, <2>3, <2>4
<1> QED BY <1>2, <1>3, <1>4, <1>5, <1>6, <1>7, <1>8 DEF PcNext, Reader

-----------------------------------------------------------------------------
(* The same for the steps of the simulator.                                *)
WorkBalance ==
  SendCharge' + BufferCharge' + WorkCharge' + RequestPays
    <= SendCharge + BufferCharge + WorkCharge + RequestPays'
KnownBalance == AttachWaits' + AttachKnown' <= AttachWaits + AttachKnown
ChargeBalance ==
  ChargesToPC' + ChargesToSim' + SendCharge' + BufferCharge' + WorkCharge' + RequestPays
    <= ChargesToPC + ChargesToSim + SendCharge + BufferCharge + WorkCharge + RequestPays'
AttachBalance ==
  AttachesToSim' + AttachWaits' + AttachKnown' <= AttachesToSim + AttachWaits + AttachKnown

LEMMA OneTypes ==
  /\ SendCharge \in Nat /\ BufferCharge \in Nat /\ WorkCharge \in Nat /\ RequestPays \in Nat
  /\ AttachWaits \in Nat /\ AttachKnown \in Nat
BY DEF SendCharge, BufferCharge, WorkCharge, RequestPays, AttachWaits, AttachKnown, One

LEMMA OneTypesNext ==
  /\ SendCharge' \in Nat /\ BufferCharge' \in Nat /\ WorkCharge' \in Nat /\ RequestPays' \in Nat
  /\ AttachWaits' \in Nat /\ AttachKnown' \in Nat
BY DEF SendCharge, BufferCharge, WorkCharge, RequestPays, AttachWaits, AttachKnown, One

LEMMA ChannelsSame ==
  ASSUME Counted, UNCHANGED channels
  PROVE  (WorkBalance => ChargeBalance) /\ (KnownBalance => AttachBalance)
<1>1. ChargesToPC' = ChargesToPC /\ ChargesToSim' = ChargesToSim /\ AttachesToSim' = AttachesToSim
  BY SameChannels DEF channels
<1>2. ChargesToPC \in Nat /\ ChargesToSim \in Nat /\ AttachesToSim \in Nat
  BY DEF Counted
<1>3. WorkBalance =>
        ChargesToPC + ChargesToSim + SendCharge' + BufferCharge' + WorkCharge' + RequestPays
          <= ChargesToPC + ChargesToSim + SendCharge + BufferCharge + WorkCharge + RequestPays'
  BY <1>2 DEF WorkBalance, SendCharge, BufferCharge, WorkCharge, RequestPays, One
<1>4. KnownBalance => AttachesToSim + AttachWaits' + AttachKnown' <= AttachesToSim + AttachWaits + AttachKnown
  BY <1>2 DEF KnownBalance, AttachWaits, AttachKnown, One
<1> QED BY <1>1, <1>3, <1>4 DEF ChargeBalance, AttachBalance

LEMMA SameBuffer ==
  UNCHANGED <<rx, buffer, requests, attached>> =>
    BufferCharge' = BufferCharge /\ AttachWaits' = AttachWaits /\ AttachKnown' = AttachKnown
BY DEF BufferCharge, AttachWaits, AttachKnown, AttachInBuffer

(* With the buffer left alone.                                             *)
LEMMA WorkOnly ==
  ASSUME UNCHANGED <<rx, buffer, requests, attached>>,
         SendCharge' + WorkCharge' + RequestPays <= SendCharge + WorkCharge + RequestPays'
  PROVE  WorkBalance /\ KnownBalance
<1>1. BufferCharge' = BufferCharge /\ AttachWaits' = AttachWaits /\ AttachKnown' = AttachKnown
  BY SameBuffer
<1>2. SendCharge' + BufferCharge + WorkCharge' + RequestPays
        <= SendCharge + BufferCharge + WorkCharge + RequestPays'
  BY DEF SendCharge, BufferCharge, WorkCharge, RequestPays, One
<1>3. AttachWaits + AttachKnown <= AttachWaits + AttachKnown
  BY DEF AttachWaits, AttachKnown, One
<1> QED BY <1>1, <1>2, <1>3 DEF WorkBalance, KnownBalance

LEMMA LoopBalance ==
  ASSUME EndReceive \/ HandleNothing \/ USBIO_Task
  PROVE  UNCHANGED channels /\ WorkBalance /\ KnownBalance
<1>1. /\ UNCHANGED <<rx, buffer, requests, attached, channels>>
      /\ \/ UNCHANGED <<task, tx>> /\ main # "usb"
         \/ UNCHANGED <<task, tx>> /\ task = "idle"
         \/ task = "idle" /\ task' = "sendI" /\ tx' = Ask("I", outs, "data")
  BY DEF EndReceive, HandleNothing, USBIO_Task, StartSend
<1>2. Ask("I", outs, "data") \notin Charged
  BY DEF Ask, Charged
<1>3. (UNCHANGED <<task, tx>> /\ main # "usb") \/ (UNCHANGED <<task, tx>> /\ task = "idle")
        => SendCharge' = SendCharge /\ RequestPays' = RequestPays
  BY DEF SendCharge, RequestPays
<1>4. SendCharge' + WorkCharge' + RequestPays <= SendCharge + WorkCharge + RequestPays'
  <2>1. CASE UNCHANGED <<task, tx>>
    <3>1. WorkCharge' = WorkCharge
      BY <2>1 DEF EndReceive, HandleNothing, USBIO_Task, StartSend, WorkCharge, Writing, Asking
    <3> QED BY <1>1, <1>3, <2>1, <3>1, OneTypes
  <2>2. CASE task = "idle" /\ task' = "sendI" /\ tx' = Ask("I", outs, "data")
    BY <1>2, <2>2 DEF SendCharge, WorkCharge, RequestPays, One, Sending, Writing, Asking, BeforeReply
  <2> QED BY <1>1, <2>1, <2>2
<1> QED BY <1>1, <1>4, WorkOnly

LEMMA UsbBalance ==
  ASSUME UsbTask
  PROVE  UNCHANGED channels /\ WorkBalance /\ KnownBalance
<1>1. /\ UNCHANGED <<rx, buffer, requests, attached, channels>>
      /\ (main = "usb" /\ task = "idle") \/ task = "nested"
      /\ \/ task' = "sendU" /\ main' = main
         \/ main = "usb" /\ task' = "idle"
         \/ main # "usb" /\ task' = "write"
  BY DEF UsbTask, StartSend
<1>2. SendCharge' + WorkCharge' + RequestPays <= SendCharge + WorkCharge + RequestPays'
  <2>1. CASE task' = "sendU" /\ main' = main
    <3>1. WorkCharge' <= WorkCharge
      BY <1>1, <2>1 DEF WorkCharge, One, Writing, Asking
    <3>2. SendCharge' <= RequestPays' /\ SendCharge = RequestPays
      BY <1>1, <2>1 DEF SendCharge, RequestPays, One, Sending, BeforeReply
    <3> QED BY <3>1, <3>2 DEF SendCharge, WorkCharge, RequestPays, One
  <2>2. CASE main = "usb" /\ task' = "idle"
    BY <1>1, <2>2 DEF SendCharge, WorkCharge, RequestPays, One, Sending, Writing, Asking, BeforeReply
  <2>3. CASE main # "usb" /\ task' = "write"
    BY <1>1, <2>3 DEF SendCharge, WorkCharge, RequestPays, One, Sending, Writing, Asking, BeforeReply
  <2> QED BY <1>1, <2>1, <2>2, <2>3
<1> QED BY <1>1, <1>2, WorkOnly

LEMMA WaitBalance ==
  ASSUME LinkInv, WaitForPacket
  PROVE  UNCHANGED channels /\ WorkBalance /\ KnownBalance
<1>1. requests # <<>>
  BY DEF WaitForPacket, Waiting, Asking, LinkInv, RequestsKnown
<1>2. /\ UNCHANGED <<main, buffer, requests, attached, channels>> /\ rx = "full" /\ rx' = "empty"
      /\ task \in {"waitU", "waitD"}
      /\ \/ task' \in {"ackU", "ackD"} /\ \E c \in {"U", "D"} : tx' = Answer("A", c, c)
         \/ task' \in {"nackU", "nackD"}
  BY DEF WaitForPacket, StartSend, Waiting
<1>3. \A c \in {"U", "D"} : Answer("A", c, c) \notin Charged
  BY DEF Answer, Charged
<1>4. WorkCharge' <= WorkCharge
  BY <1>2 DEF WorkCharge, One, Writing, Asking
<1>5. SendCharge' + BufferCharge' + RequestPays <= SendCharge + BufferCharge + RequestPays'
  <2>1. BufferCharge' = SendCharge
    BY <1>2 DEF BufferCharge, SendCharge, One, Sending
  <2>2. BufferCharge = RequestPays
    BY <1>1, <1>2 DEF BufferCharge, RequestPays, AttachInBuffer, One, BeforeReply
  <2>3. SendCharge' <= RequestPays'
    <3>1. CASE task' \in {"ackU", "ackD"} /\ \E c \in {"U", "D"} : tx' = Answer("A", c, c)
      <4>1. tx' \notin Charged
        BY <1>3, <3>1
      <4> QED BY <4>1 DEF SendCharge, RequestPays, One
    <3>2. CASE task' \in {"nackU", "nackD"}
      BY <3>2 DEF SendCharge, RequestPays, One, BeforeReply
    <3> QED BY <1>2, <3>1, <3>2
  <2> QED BY <2>1, <2>2, <2>3 DEF SendCharge, BufferCharge, RequestPays, One
<1>6. WorkBalance
  BY <1>4, <1>5 DEF WorkBalance, SendCharge, BufferCharge, WorkCharge, RequestPays, One
<1>7. KnownBalance
  <2>1. AttachWaits' = AttachWaits /\ AttachKnown' = AttachKnown
    BY <1>1, <1>2 DEF AttachWaits, AttachKnown, AttachInBuffer
  <2> QED BY <2>1, OneTypes DEF KnownBalance
<1> QED BY <1>2, <1>6, <1>7

LEMMA HandleBalance ==
  ASSUME HandleReceivedPacket
  PROVE  UNCHANGED channels /\ WorkBalance /\ KnownBalance
<1>1. /\ UNCHANGED <<main, buffer, requests, channels>> /\ rx = "full" /\ rx' = "empty"
      /\ main = "handle" /\ task = "idle"
      /\ \/ task' = "sendAck" /\ tx' = Answer("A", buffer.cmd, "?")
         \/ task' = "nested" /\ buffer.cmd = "O"
         \/ task' = "sendC" /\ tx' = Answer("C", buffer.cmd, "?") /\ buffer.cmd # "S"
      /\ attached' = attached \/ buffer.cmd = "S"
  BY DEF HandleReceivedPacket, AckBuffer, StartSend
<1>2. Answer("C", buffer.cmd, "?") \notin Charged
  BY DEF Answer, Charged
<1>3. buffer.cmd # "O" => Answer("A", buffer.cmd, "?") \notin Charged
  BY DEF Answer, Charged
<1>4. WorkBalance
  <2>1. BufferCharge' = SendCharge /\ SendCharge = WorkCharge /\ RequestPays = RequestPays'
    BY <1>1 DEF SendCharge, BufferCharge, WorkCharge, RequestPays, One, Sending, Writing, Asking,
       BeforeReply
  <2>2. SendCharge' + WorkCharge' <= BufferCharge
    <3>1. CASE task' = "sendAck" /\ tx' = Answer("A", buffer.cmd, "?")
      <4>1. tx' \in Charged => buffer.cmd = "O"
        BY <1>3, <3>1
      <4> QED BY <1>1, <3>1, <4>1
             DEF SendCharge, BufferCharge, WorkCharge, AttachInBuffer, One, Sending, Writing, Asking
    <3>2. CASE task' = "nested" /\ buffer.cmd = "O"
      BY <1>1, <3>2
         DEF SendCharge, BufferCharge, WorkCharge, AttachInBuffer, One, Sending, Writing, Asking
    <3>3. CASE task' = "sendC" /\ tx' = Answer("C", buffer.cmd, "?") /\ buffer.cmd # "S"
      <4>1. tx' \notin Charged
        BY <1>2, <3>3
      <4> QED BY <1>1, <3>3, <4>1
             DEF SendCharge, BufferCharge, WorkCharge, AttachInBuffer, One, Sending, Writing, Asking
    <3> QED BY <1>1, <3>1, <3>2, <3>3
  <2> QED BY <2>1, <2>2 DEF WorkBalance, SendCharge, BufferCharge, WorkCharge, RequestPays, One
<1>5. KnownBalance
  BY <1>1 DEF KnownBalance, AttachWaits, AttachKnown, AttachInBuffer, One
<1> QED BY <1>1, <1>4, <1>5

LEMMA WriteStreamBalance ==
  ASSUME WriteStream
  PROVE  UNCHANGED channels /\ WorkBalance /\ KnownBalance
<1>1. /\ UNCHANGED <<main, buffer, requests, attached, channels>> /\ task = "write"
      /\ task' = "sendAck" \/ (task' = "nested")
      /\ rx' = "full" => rx = "full"
  BY DEF WriteStream, AckBuffer, StartSend, RestartCount
<1>2. BufferCharge' <= BufferCharge
  BY <1>1 DEF BufferCharge, AttachInBuffer, One
<1>3. SendCharge' + WorkCharge' + RequestPays <= SendCharge + WorkCharge + RequestPays'
  BY <1>1 DEF SendCharge, WorkCharge, RequestPays, One, Sending, Writing, Asking, BeforeReply
<1>4. WorkBalance
  BY <1>2, <1>3 DEF WorkBalance, SendCharge, BufferCharge, WorkCharge, RequestPays, One
<1>5. KnownBalance
  BY <1>1 DEF KnownBalance, AttachWaits, AttachKnown, AttachInBuffer, One
<1> QED BY <1>1, <1>4, <1>5

LEMMA RequestsStay ==
  ASSUME LinkInv, DecideControl \/ DecideDescriptor
  PROVE  requests # <<>> /\ requests' # <<>>
<1>1. requests # <<>> /\ requests \in Requests
  BY DEF DecideControl, DecideDescriptor, Asking, LinkInv, RequestsKnown, SimTypeOK, Requests
<1>2. Use(TRUE) \/ Use(FALSE)
  BY DEF DecideControl, HangInRequest, EndRequest, AskDescriptor, DecideDescriptor
<1>3. DOMAIN requests' = DOMAIN requests
  BY <1>2 DEF Use
<1>4. 1 \in DOMAIN requests
  <2>1. DOMAIN requests = 1 .. Len(requests) /\ Len(requests) \in Nat \ {0}
    BY <1>1, EmptySeq, LenProperties DEF Requests
  <2>2. \A n \in Nat \ {0} : 1 \in 1 .. n
    OBVIOUS
  <2> QED BY <2>1, <2>2, Zenon
<1> QED BY <1>1, <1>3, <1>4

LEMMA DecideBalance ==
  ASSUME LinkInv, DecideControl \/ DecideDescriptor
  PROVE  UNCHANGED channels /\ WorkBalance /\ KnownBalance
<1>1. /\ UNCHANGED <<rx, buffer, attached, channels>> /\ task \in {"decideU", "decideD"}
      /\ \/ main = "usb" /\ task' = "idle"
         \/ main # "usb" /\ task' = "write" /\ main' = main
         \/ task' \in {"sendD", "stuck"} /\ main' = main
  BY DEF DecideControl, HangInRequest, EndRequest, AskDescriptor, DecideDescriptor, StartSend, Return
<1>2. requests # <<>> /\ requests' # <<>>
  BY RequestsStay
<1>3. BufferCharge' = BufferCharge /\ AttachWaits' = AttachWaits /\ AttachKnown' = AttachKnown
  BY <1>1, <1>2 DEF BufferCharge, AttachWaits, AttachKnown, AttachInBuffer
<1>4. WorkCharge' <= WorkCharge
  BY <1>1 DEF WorkCharge, One, Writing, Asking
<1>5. SendCharge' <= RequestPays' /\ SendCharge = RequestPays
  BY <1>1 DEF SendCharge, RequestPays, One, Sending, BeforeReply
<1>6. SendCharge' + BufferCharge + WorkCharge' + RequestPays
        <= SendCharge + BufferCharge + WorkCharge + RequestPays'
  BY <1>4, <1>5 DEF SendCharge, BufferCharge, WorkCharge, RequestPays, One
<1>7. AttachWaits + AttachKnown <= AttachWaits + AttachKnown
  BY DEF AttachWaits, AttachKnown, One
<1> QED BY <1>1, <1>3, <1>6, <1>7 DEF WorkBalance, KnownBalance

LEMMA ReceiveBalance ==
  ASSUME ChannelsOK, Counted, AttachedOnce, Begun, Receive
  PROVE  (attaches <= 1 => ChargeBalance) /\ AttachBalance
<1>1. /\ UNCHANGED <<main, task, tx, requests, attached, toPC>>
      /\ toSim # <<>> /\ toSim \in Seq(PcMessages)
      /\ \/ UNCHANGED toSim /\ rx # "full" /\ rx' # "full"
         \/ rx = "partial" /\ rx' = "full" /\ buffer' = Head(toSim) /\ toSim' = Tail(toSim)
         \/ rx = "shifted" /\ rx' = "full" /\ toSim' = Tail(toSim)
  BY DEF Receive, ReceiveLength, ReceiveSome, ReceiveRest, ReceiveShifted, ChannelsOK
<1>2. ChargesToPC' = ChargesToPC /\ ChargesToPC \in Nat /\ ChargesToSim \in Nat /\ AttachesToSim \in Nat
  BY <1>1, SameChannels DEF Counted
<1>3. /\ SendCharge' = SendCharge /\ WorkCharge' = WorkCharge /\ RequestPays' = RequestPays
      /\ AttachKnown' = AttachKnown
  BY <1>1 DEF SendCharge, WorkCharge, RequestPays, AttachKnown, Writing
<1>4. BufferCharge = 0 /\ AttachWaits = 0
  BY <1>1 DEF BufferCharge, AttachWaits, AttachInBuffer, One
<1>5. CASE UNCHANGED toSim /\ rx # "full" /\ rx' # "full"
  <2>1. BufferCharge' = BufferCharge /\ AttachWaits' = AttachWaits
    BY <1>5 DEF BufferCharge, AttachWaits, AttachInBuffer
  <2>2. ChargesToSim' = ChargesToSim /\ AttachesToSim' = AttachesToSim
    BY <1>5, SameChannels
  <2>3. /\ ChargesToPC + ChargesToSim + SendCharge + BufferCharge + WorkCharge + RequestPays
             <= ChargesToPC + ChargesToSim + SendCharge + BufferCharge + WorkCharge + RequestPays
        /\ AttachesToSim + AttachWaits + AttachKnown <= AttachesToSim + AttachWaits + AttachKnown
    BY <1>2 DEF SendCharge, BufferCharge, WorkCharge, RequestPays, AttachWaits, AttachKnown, One
  <2> QED BY <1>2, <1>3, <2>1, <2>2, <2>3 DEF ChargeBalance, AttachBalance
<1>6. CASE toSim' = Tail(toSim) /\ rx' = "full"
  <2> DEFINE h == Head(toSim)
  <2>1. /\ ChargesToSim = Count(Tail(toSim), NoAttachment) + One(h \in NoAttachment)
        /\ AttachesToSim = Count(Tail(toSim), Attachments) + One(h \in Attachments)
        /\ Count(Tail(toSim), NoAttachment) \in Nat /\ Count(Tail(toSim), Attachments) \in Nat
    BY <1>1, CountTail DEF ChargesToSim, AttachesToSim
  <2>2. h \in PcMessages /\ (h \in NoAttachment <=> h.cmd # "S") /\ (h \in Attachments <=> h.cmd = "S")
    BY <1>1, Popped DEF NoAttachment, Attachments
  <2> DEFINE c == Count(Tail(toSim), NoAttachment)
             a == Count(Tail(toSim), Attachments)
  <2>3. ChargesToSim' = c /\ AttachesToSim' = a
    BY <1>6 DEF ChargesToSim, AttachesToSim
  <2>4. rx = "shifted" => requests # <<>>
    BY DEF Begun
  <2>5. AttachWaits' = 1 => h.cmd = "S" /\ requests = <<>>
    BY <1>1, <1>6, <2>4 DEF AttachWaits, AttachInBuffer, One
  <2>6. h.cmd = "S" /\ attaches <= 1 => requests = <<>> /\ rx = "partial"
    <3> SUFFICES ASSUME h.cmd = "S", attaches <= 1, requests # <<>> PROVE FALSE
      BY <1>1, <1>6, <2>4
    <3>1. AttachKnown = 1
      BY DEF AttachKnown, One
    <3>2. AttachesToSim = a + 1
      BY <2>1, <2>2 DEF One
    <3>3. AttachesReady \in Nat /\ attaches \in Nat
      BY DEF Counted
    <3> HIDE DEF a, h
    <3> QED BY <1>4, <2>1, <3>1, <3>2, <3>3 DEF AttachedOnce, a
  <2>7. attaches <= 1 /\ h.cmd = "S" => BufferCharge' = 0
    BY <1>1, <1>6, <2>6 DEF BufferCharge, AttachInBuffer, One
  <2>8. c \in Nat /\ a \in Nat /\ (BufferCharge' = 0 \/ BufferCharge' = 1)
        /\ (AttachWaits' = 0 \/ AttachWaits' = 1)
    BY <2>1 DEF BufferCharge, AttachWaits, One
  <2>9. AttachBalance
    <3>1. AttachesToSim = a + One(h \in Attachments)
      BY <2>1
    <3>2. CASE AttachWaits' = 0
      <4>1. a + 0 + AttachKnown <= AttachesToSim + 0 + AttachKnown
        <5> HIDE DEF a, h
        <5> QED BY <2>8, <3>1 DEF One, AttachKnown
      <4> QED BY <1>3, <1>4, <2>3, <3>2, <4>1 DEF AttachBalance
    <3>3. CASE AttachWaits' = 1
      <4>1. h \in Attachments
        BY <2>2, <2>5, <3>3
      <4>2. a + 1 + AttachKnown <= AttachesToSim + 0 + AttachKnown
        <5> HIDE DEF a, h
        <5> QED BY <2>8, <3>1, <4>1 DEF One, AttachKnown
      <4> QED BY <1>3, <1>4, <2>3, <3>3, <4>2 DEF AttachBalance
    <3> QED BY <2>8, <3>2, <3>3
  <2>10. ASSUME attaches <= 1 PROVE ChargeBalance
    <3>1. ChargesToSim = c + One(h \in NoAttachment)
      BY <2>1
    <3>2. CASE BufferCharge' = 0
      <4>1. ChargesToPC + c + SendCharge + 0 + WorkCharge + RequestPays
              <= ChargesToPC + ChargesToSim + SendCharge + 0 + WorkCharge + RequestPays
        <5> HIDE DEF c, h
        <5> QED BY <1>2, <2>8, <3>1 DEF One, SendCharge, WorkCharge, RequestPays
      <4> QED BY <1>2, <1>3, <1>4, <2>3, <3>2, <4>1 DEF ChargeBalance
    <3>3. CASE BufferCharge' = 1
      <4>1. h \in NoAttachment
        BY <2>2, <2>7, <2>10, <3>3
      <4>2. ChargesToPC + c + SendCharge + 1 + WorkCharge + RequestPays
              <= ChargesToPC + ChargesToSim + SendCharge + 0 + WorkCharge + RequestPays
        <5> HIDE DEF c, h
        <5> QED BY <1>2, <2>8, <3>1, <4>1 DEF One, SendCharge, WorkCharge, RequestPays
      <4> QED BY <1>2, <1>3, <1>4, <2>3, <3>3, <4>2 DEF ChargeBalance
    <3> QED BY <2>8, <3>2, <3>3
  <2> QED BY <2>9, <2>10
<1> QED BY <1>1, <1>5, <1>6

LEMMA FinishSendBalance ==
  ASSUME ChannelsOK, Counted, tx \in SimMessages, FinishSend
  PROVE  ChargeBalance /\ AttachBalance
<1>1. /\ task \in Sending /\ toPC \in Seq(SimMessages) /\ toPC' = Append(toPC, tx)
      /\ UNCHANGED <<rx, buffer, requests, attached, toSim>>
  BY DEF FinishSend, ChannelsOK
<1>2. ChargesToPC \in Nat /\ ChargesToSim \in Nat /\ AttachesToSim \in Nat
  BY DEF Counted
<1>3. ChargesToPC' = ChargesToPC + One(tx \in Charged)
  BY <1>1, CountAppend DEF ChargesToPC
<1>4. /\ ChargesToSim' = ChargesToSim /\ AttachesToSim' = AttachesToSim /\ BufferCharge' = BufferCharge
      /\ AttachWaits' = AttachWaits /\ AttachKnown' = AttachKnown
  BY <1>1, SameChannels, SameBuffer
<1>5. SendCharge = One(tx \in Charged)
  BY <1>1 DEF SendCharge
<1>6. SendCharge' + WorkCharge' <= WorkCharge /\ RequestPays' = RequestPays
  <2>1. CASE task = "sendC" /\ task' = "sendAck"
    BY <2>1 DEF SendCharge, WorkCharge, RequestPays, One, Writing, Asking, BeforeReply
  <2>2. CASE task' = "idle" /\ task \in {"sendAck", "sendI"}
    BY <2>2 DEF SendCharge, WorkCharge, RequestPays, One, Writing, Asking, BeforeReply, Sending
  <2>3. CASE /\ main' = main
             /\ \/ task \in {"sendU", "nackU"} /\ task' = "waitU"
                \/ task \in {"sendD", "nackD"} /\ task' = "waitD"
                \/ task = "ackU" /\ task' = "decideU"
                \/ task = "ackD" /\ task' = "decideD"
    BY <2>3 DEF SendCharge, WorkCharge, RequestPays, One, Writing, Asking, BeforeReply, Sending
  <2> QED BY <2>1, <2>2, <2>3 DEF FinishSend, AckBuffer, StartSend
<1>7. ChargesToPC + One(tx \in Charged) + ChargesToSim + SendCharge' + BufferCharge + WorkCharge' + RequestPays
        <= ChargesToPC + ChargesToSim + One(tx \in Charged) + BufferCharge + WorkCharge + RequestPays
  BY <1>2, <1>6 DEF SendCharge, BufferCharge, WorkCharge, RequestPays, One
<1>8. AttachesToSim + AttachWaits + AttachKnown <= AttachesToSim + AttachWaits + AttachKnown
  BY <1>2 DEF AttachWaits, AttachKnown, One
<1>9. RequestPays' = RequestPays
  BY <1>6
<1> QED BY <1>3, <1>4, <1>5, <1>7, <1>8, <1>9 DEF ChargeBalance, AttachBalance

LEMMA SimBalances ==
  ASSUME LinkInv, Counted, AttachedOnce, Begun, SimNext
  PROVE  (attaches <= 1 => ChargeBalance) /\ AttachBalance
<1>1. CASE Receive
  BY <1>1, ReceiveBalance DEF LinkInv, ChannelsOK
<1>2. CASE FinishSend
  BY <1>2, FinishSendBalance DEF LinkInv, ChannelsOK, SimTypeOK
<1>3. CASE \/ EndReceive \/ HandleNothing \/ USBIO_Task \/ UsbTask \/ WaitForPacket \/ HandleReceivedPacket
           \/ WriteStream \/ DecideControl \/ DecideDescriptor
  BY <1>3, ChannelsSame, LoopBalance, UsbBalance, WaitBalance, HandleBalance, WriteStreamBalance, DecideBalance
<1> QED BY <1>1, <1>2, <1>3 DEF SimNext, SimLoop

LEMMA HostBalance ==
  ASSUME LinkInv, Counted, AttachedOnce, Host, UNCHANGED channels
  PROVE  (attaches <= 1 => ChargeBalance) /\ AttachBalance
<1>1. /\ UNCHANGED <<main, task, rx, buffer, tx>>
      /\ \/ UNCHANGED <<requests, attached>>
         \/ UNCHANGED requests /\ attached = "new" /\ attached' = "yes"
         \/ attached = "yes" /\ UNCHANGED attached
  BY DEF Host, HostResets, HostRequest, HostReadsIn, HostSendsOut
<1>2. SendCharge' = SendCharge /\ WorkCharge' = WorkCharge /\ RequestPays' = RequestPays
  BY <1>1 DEF SendCharge, WorkCharge, RequestPays, Writing
<1>3. KnownBalance
  <2>1. requests' = <<>> => requests = <<>>
    <3>1. CASE UNCHANGED requests
      BY <3>1
    <3>2. CASE HostRequest
      BY <3>2 DEF HostRequest, LinkInv, SimTypeOK
    <3> QED BY <3>1, <3>2 DEF Host, HostResets, HostReadsIn, HostSendsOut
  <2> QED BY <1>1, <2>1 DEF KnownBalance, AttachWaits, AttachKnown, AttachInBuffer, One
<1>4. ASSUME attaches <= 1 PROVE BufferCharge' <= BufferCharge
  <2>1. CASE attached = "yes"
    <3>1. AttachKnown = 1
      BY <2>1 DEF AttachKnown, One
    <3>2. AttachesReady \in Nat /\ AttachesToSim \in Nat /\ attaches \in Nat
      BY DEF Counted
    <3>3. AttachWaits # 1
      BY <1>4, <3>1, <3>2 DEF AttachedOnce
    <3>4. ~AttachInBuffer
      BY <3>3 DEF AttachWaits, One
    <3> QED BY <1>1, <3>4 DEF BufferCharge, One
  <2>2. CASE UNCHANGED requests
    BY <1>1, <2>2 DEF BufferCharge, AttachInBuffer, One
  <2> QED BY <1>1, <2>1, <2>2
<1>5. ASSUME attaches <= 1 PROVE WorkBalance
  <2>1. SendCharge + BufferCharge' + WorkCharge + RequestPays <= SendCharge + BufferCharge + WorkCharge + RequestPays
    BY <1>4, <1>5 DEF SendCharge, BufferCharge, WorkCharge, RequestPays, One
  <2> QED BY <1>2, <2>1 DEF WorkBalance
<1> QED BY <1>3, <1>5, ChannelsSame

-----------------------------------------------------------------------------
(* With what it adds and what it pays for, each step keeps the invariant.  *)
LEMMA SumsOfNats == \A a, b \in Nat : a + b \in Nat
OBVIOUS

LEMMA PcPays ==
  ASSUME LinkInv, RefusalsOK, Counted', PaidFor, AttachedOnce, PcStep
  PROVE  PaidFor' /\ AttachedOnce'
<1> DEFINE s1 == RepliesBuilt + RepliesReady + ChargesToPC + ChargesToSim
           s2 == RepliesBuilt' + RepliesReady' + ChargesToPC' + ChargesToSim'
           d2 == DataPays'
           a1 == AttachesReady + AttachesToSim
           a2 == AttachesReady' + AttachesToSim'
           n2 == attaches'
<1>1. Counted /\ PcBalance
  BY CountTypes, PcBalances DEF LinkInv, ChannelsOK, PcStep
<1>2. /\ SendCharge' = SendCharge /\ BufferCharge' = BufferCharge /\ WorkCharge' = WorkCharge
      /\ RequestPays' = RequestPays /\ AttachWaits' = AttachWaits /\ AttachKnown' = AttachKnown
      /\ resets' = resets
  BY DEF PcStep, simVars, SendCharge, BufferCharge, AttachInBuffer, WorkCharge, Writing, RequestPays,
     AttachWaits, AttachKnown
<1>3. /\ s1 \in Nat /\ a1 \in Nat /\ DataPays \in Nat /\ attaches \in Nat
      /\ s2 \in Nat /\ a2 \in Nat /\ d2 \in Nat /\ n2 \in Nat
  <2>1. s1 \in Nat /\ a1 \in Nat /\ DataPays \in Nat /\ attaches \in Nat
    BY <1>1 DEF Counted
  <2>2. /\ RepliesBuilt' \in Nat /\ RepliesReady' \in Nat /\ ChargesToPC' \in Nat /\ ChargesToSim' \in Nat
        /\ DataPays' \in Nat /\ AttachesReady' \in Nat /\ AttachesToSim' \in Nat /\ attaches' \in Nat
    BY DEF Counted
  <2>3. s2 \in Nat /\ a2 \in Nat
    BY <2>2, SumsOfNats, Zenon
  <2> QED BY <2>1, <2>2, <2>3
<1>4. s2 + DataPays <= s1 + d2 /\ a2 + attaches <= a1 + n2 /\ attaches <= n2
  BY <1>1 DEF PcBalance
<1>5. PaidFor => (resets = 0 /\ attaches <= 1 =>
        s1 + SendCharge + BufferCharge + WorkCharge <= DataPays + RequestPays)
  BY DEF PaidFor
<1>6. AttachedOnce => a1 + AttachWaits + AttachKnown <= attaches
  BY DEF AttachedOnce
<1>7. /\ PaidFor' <=> (resets = 0 /\ n2 <= 1 =>
                        s2 + SendCharge + BufferCharge + WorkCharge <= d2 + RequestPays)
      /\ AttachedOnce' <=> a2 + AttachWaits + AttachKnown <= n2
  BY <1>2 DEF PaidFor, AttachedOnce
<1> HIDE DEF s1, s2, d2, a1, a2, n2
<1>8. resets = 0 /\ n2 <= 1 => s2 + SendCharge + BufferCharge + WorkCharge <= d2 + RequestPays
  BY <1>3, <1>4, <1>5 DEF SendCharge, BufferCharge, WorkCharge, RequestPays, One
<1>9. a2 + AttachWaits + AttachKnown <= n2
  BY <1>3, <1>4, <1>6 DEF AttachWaits, AttachKnown, One
<1> QED BY <1>7, <1>8, <1>9

LEMMA SimPays ==
  ASSUME Counted, Counted', UNCHANGED pcVars, resets' = resets, attaches <= 1 => ChargeBalance, AttachBalance,
         PaidFor, AttachedOnce
  PROVE  PaidFor' /\ AttachedOnce'
<1> DEFINE r1 == RepliesBuilt + RepliesReady
           s1 == ChargesToPC + ChargesToSim + SendCharge + BufferCharge + WorkCharge
           s2 == ChargesToPC' + ChargesToSim' + SendCharge' + BufferCharge' + WorkCharge'
           p2 == RequestPays'
           a1 == AttachesToSim + AttachWaits + AttachKnown
           a2 == AttachesToSim' + AttachWaits' + AttachKnown'
<1>1. /\ RepliesBuilt' = RepliesBuilt /\ RepliesReady' = RepliesReady /\ DataPays' = DataPays
      /\ AttachesReady' = AttachesReady /\ attaches' = attaches
  BY SameChannels DEF pcVars
<1>2. /\ RepliesBuilt \in Nat /\ RepliesReady \in Nat /\ ChargesToPC \in Nat /\ ChargesToSim \in Nat
      /\ DataPays \in Nat /\ AttachesReady \in Nat /\ AttachesToSim \in Nat /\ attaches \in Nat
  BY DEF Counted
<1>3. ChargesToPC' \in Nat /\ ChargesToSim' \in Nat /\ AttachesToSim' \in Nat
  BY DEF Counted
<1>4. /\ r1 \in Nat /\ s1 \in Nat /\ RequestPays \in Nat /\ a1 \in Nat
      /\ s2 \in Nat /\ p2 \in Nat /\ a2 \in Nat
  <2>1. r1 \in Nat /\ s1 \in Nat /\ RequestPays \in Nat /\ a1 \in Nat
    BY <1>2, OneTypes
  <2>2. s2 \in Nat /\ p2 \in Nat /\ a2 \in Nat
    BY <1>3, OneTypesNext, SumsOfNats, Zenon
  <2> QED BY <2>1, <2>2
<1>5. attaches <= 1 => s2 + RequestPays <= s1 + p2
  BY DEF ChargeBalance
<1>6. a2 <= a1
  BY DEF AttachBalance
<1>7. resets = 0 /\ attaches <= 1 => r1 + s1 <= DataPays + RequestPays
  <2>1. r1 + s1 = RepliesBuilt + RepliesReady + ChargesToPC + ChargesToSim + SendCharge + BufferCharge + WorkCharge
    BY <1>2, OneTypes
  <2> QED BY <2>1 DEF PaidFor
<1>8. AttachesReady + a1 <= attaches
  <2>1. AttachesReady + a1 = AttachesReady + AttachesToSim + AttachWaits + AttachKnown
    BY <1>2, OneTypes
  <2> QED BY <2>1 DEF AttachedOnce
<1>9. /\ RepliesBuilt + RepliesReady + ChargesToPC' + ChargesToSim' + SendCharge' + BufferCharge' + WorkCharge'
           = r1 + s2
      /\ AttachesReady + AttachesToSim' + AttachWaits' + AttachKnown' = AttachesReady + a2
  BY <1>2, <1>3, OneTypesNext
<1>10. /\ PaidFor' <=> (resets = 0 /\ attaches <= 1 => r1 + s2 <= DataPays + p2)
       /\ AttachedOnce' <=> AttachesReady + a2 <= attaches
  BY <1>1, <1>9 DEF PaidFor, AttachedOnce
<1> HIDE DEF r1, s1, s2, p2, a1, a2
<1>11. resets = 0 /\ attaches <= 1 => r1 + s2 <= DataPays + p2
  BY <1>2, <1>4, <1>5, <1>7
<1>12. AttachesReady + a2 <= attaches
  BY <1>2, <1>4, <1>6, <1>8
<1> QED BY <1>10, <1>11, <1>12

LEMMA ResetPays ==
  ASSUME LinkInv, AttachedOnce, Reset
  PROVE  PaidFor' /\ AttachedOnce'
<1>1. Counted /\ resets \in Nat
  <2>1. resets \in 0 .. MaxResets /\ MaxResets \in Nat
    BY ResetAssumption, LinkInvParts DEF ResetsOK
  <2> QED BY <2>1, CountTypes, LinkInvParts DEF SimInv
<1>2. resets' # 0
  BY <1>1 DEF Reset
<1>3. AttachesReady' = AttachesReady /\ attaches' = attaches /\ AttachesToSim' = 0 /\ AttachWaits' = 0
  BY CountEmpty, SameChannels DEF Reset, Restart, pcVars, AttachesToSim, AttachWaits, AttachInBuffer, One
<1>4. requests = <<>> => requests' = <<>>
  <2>1. DOMAIN <<>> = {}
    OBVIOUS
  <2>2. [r \in {} |-> [requests[r] EXCEPT !.done = TRUE]] = <<>>
    OBVIOUS
  <2> QED BY <2>1, <2>2 DEF Reset
<1>5. AttachKnown' <= AttachKnown
  BY <1>4 DEF Reset, Restart, AttachKnown, One
<1>6. AttachesReady + 0 + 0 + AttachKnown' <= attaches
  <2>1. AttachesReady \in Nat /\ AttachesToSim \in Nat /\ attaches \in Nat
    BY <1>1 DEF Counted
  <2> QED BY <1>5, <2>1 DEF AttachedOnce, AttachWaits, AttachKnown, One
<1> QED BY <1>2, <1>3, <1>6 DEF PaidFor, AttachedOnce

LEMMA BegunStep == LinkInv /\ Begun /\ [Next]_vars => Begun'
<1> SUFFICES ASSUME LinkInv, Begun, [Next]_vars PROVE Begun'
  OBVIOUS
<1>1. CASE PcStep \/ UNCHANGED vars
  BY <1>1 DEF PcStep, vars, simVars, Begun
<1>2. CASE Reset
  BY <1>2 DEF Reset, Restart, Begun
<1>3. CASE Host
  <2>1. CASE HostRequest
    <3>1. requests' # <<>>
      BY <2>1 DEF HostRequest, LinkInv, SimTypeOK
    <3> QED BY <3>1 DEF Begun
  <2>2. CASE HostResets \/ HostReadsIn \/ HostSendsOut
    BY <2>2 DEF HostResets, HostReadsIn, HostSendsOut, Begun
  <2> QED BY <1>3, <2>1, <2>2 DEF Host
<1>4. CASE DecideControl \/ DecideDescriptor
  BY <1>4, RequestsStay DEF Begun
<1>5. CASE Receive
  BY <1>5 DEF Receive, ReceiveLength, ReceiveSome, ReceiveRest, ReceiveShifted, Begun
<1>6. CASE FinishSend
  BY <1>6 DEF FinishSend, AckBuffer, StartSend, Begun
<1>7. CASE WaitForPacket
  BY <1>7 DEF WaitForPacket, StartSend, Begun
<1>8. CASE EndReceive \/ HandleNothing \/ USBIO_Task
  BY <1>8 DEF EndReceive, HandleNothing, USBIO_Task, StartSend, Begun
<1>9. CASE HandleReceivedPacket
  BY <1>9 DEF HandleReceivedPacket, AckBuffer, StartSend, FillBank, Begun
<1>10. CASE UsbTask
  <2>1. UNCHANGED <<rx, requests, bank>> /\ (task' \in {"nested", "write"} => task' = "write" /\ task = "nested")
    BY <1>10 DEF UsbTask, StartSend, LinkInv, SimTypeOK
  <2> QED BY <2>1 DEF Begun
<1>11. CASE WriteStream
  BY <1>11 DEF WriteStream, Begun
<1> QED BY <1>1, <1>2, <1>3, <1>4, <1>5, <1>6, <1>7, <1>8, <1>9, <1>10, <1>11
   DEF Next, SimStep, SimNext, SimLoop, HostStep

(* The question that began a wait was sent after every acknowledgement.    *)
LEMMA QuestionStep == LinkInv /\ SendsRight /\ QuestionLast /\ [Next]_vars => QuestionLast'
<1> SUFFICES ASSUME LinkInv, SendsRight, QuestionLast, [Next]_vars, task' \in Waits
             PROVE  \A i \in DOMAIN toPC' : toPC'[i].cmd = "A" =>
                      \E j \in DOMAIN toPC' : j > i /\ toPC'[j].cmd \in {"U", "D"}
  BY DEF QuestionLast
<1> DEFINE n == Len(toPC)
<1>1. toPC \in Seq(SimMessages) /\ n \in Nat /\ DOMAIN toPC = 1 .. n
  BY LinkInvParts, LenProperties DEF SimInv, ChannelsOK
<1>2. CASE toPC' = toPC /\ (task \in Waits)
  BY <1>2 DEF QuestionLast
<1>3. CASE \E cmds : Received(cmds) /\ task' = task
  <2>1. /\ toPC # <<>> /\ toPC' = Tail(toPC)
    BY <1>3 DEF Received
  <2>2. /\ n >= 1 /\ DOMAIN toPC' = 1 .. n - 1
        /\ \A i \in 1 .. n - 1 : toPC'[i] = toPC[i + 1]
    BY <1>1, <2>1, Popped
  <2> HIDE DEF n
  <2> SUFFICES ASSUME NEW i \in 1 .. n - 1, toPC'[i].cmd = "A"
               PROVE  \E j \in 1 .. n - 1 : j > i /\ toPC'[j].cmd \in {"U", "D"}
    BY <2>2
  <2>3. i + 1 \in DOMAIN toPC /\ toPC[i + 1].cmd = "A"
    BY <1>1, <2>2
  <2>4. PICK j \in 1 .. n : j > i + 1 /\ toPC[j].cmd \in {"U", "D"}
    BY <1>1, <1>3, <2>3 DEF QuestionLast
  <2>5. j - 1 \in 1 .. n - 1 /\ j - 1 > i /\ toPC'[j - 1] = toPC[j]
    BY <1>1, <2>2, <2>4
  <2> QED BY <2>4, <2>5
<1>4. CASE FinishSend
  <2>1. /\ toPC' = Append(toPC, tx) /\ tx \in SimMessages
        /\ tx.cmd \in {"U", "D"} \/ (tx.cmd = "E" /\ task \in Waits)
    BY <1>4 DEF FinishSend, AckBuffer, StartSend, Waits, SendsRight, LinkInv, SimTypeOK
  <2>2. /\ DOMAIN toPC' = 1 .. n + 1 /\ \A i \in 1 .. n : toPC'[i] = toPC[i]
        /\ toPC'[n + 1] = tx
    BY <1>1, <2>1, Pushed
  <2> HIDE DEF n
  <2> SUFFICES ASSUME NEW i \in 1 .. n + 1, toPC'[i].cmd = "A"
               PROVE  \E j \in 1 .. n + 1 : j > i /\ toPC'[j].cmd \in {"U", "D"}
    BY <2>2
  <2>3. i # n + 1
    BY <2>1, <2>2
  <2>4. i \in 1 .. n /\ toPC[i].cmd = "A"
    BY <1>1, <2>2, <2>3
  <2>5. CASE tx.cmd \in {"U", "D"}
    <3>1. n + 1 \in 1 .. n + 1 /\ n + 1 > i
      BY <1>1, <2>4
    <3> QED BY <2>2, <2>5, <3>1
  <2>6. CASE task \in Waits
    <3>1. PICK j \in 1 .. n : j > i /\ toPC[j].cmd \in {"U", "D"}
      BY <1>1, <2>4, <2>6 DEF QuestionLast
    <3>2. j \in 1 .. n + 1 /\ toPC'[j] = toPC[j]
      BY <1>1, <2>2
    <3> QED BY <3>1, <3>2
  <2> QED BY <2>1, <2>5, <2>6
<1>5. CASE PcStep
  <2>1. PcNext /\ task' = task
    BY <1>5 DEF PcStep, simVars
  <2>2. toPC' = toPC \/ \E cmds : Received(cmds)
    BY <2>1 DEF PcNext, Reader, AttachDevice, DetachDevice, WriteOutgoingData, SendMessages, QueueReply, channels,
       ReceiveNack, ReceiveAck, ReceiveOther, ReceiveControlRequest, ReceiveDescriptorRequest
  <2> QED BY <1>2, <1>3, <2>1, <2>2
<1>6. CASE HostStep \/ UNCHANGED vars
  <2>1. toPC' = toPC /\ task' = task
    BY <1>6 DEF HostStep, Host, HostResets, HostRequest, HostReadsIn, HostSendsOut, channels, vars, simVars
  <2> QED BY <1>2, <2>1
<1>7. CASE Reset
  BY <1>7 DEF Reset, Restart, Waits
<1>8. CASE Receive
  BY <1>2, <1>8 DEF Receive
<1>9. CASE WaitForPacket
  BY <1>2, <1>9 DEF WaitForPacket, Waiting, Waits, channels
<1>10. CASE \/ EndReceive \/ HandleNothing \/ HandleReceivedPacket \/ UsbTask \/ WriteStream
            \/ USBIO_Task \/ DecideControl \/ DecideDescriptor
  BY <1>2, <1>10, OtherTasks DEF channels
<1> QED BY <1>4, <1>5, <1>6, <1>7, <1>8, <1>9, <1>10 DEF Next, SimStep, SimNext, SimLoop

-----------------------------------------------------------------------------
(* The queue of the PC: data keeps its order, what is sent before the rest.*)
LEMMA SentFirstWritten ==
  ASSUME messages \in Seq(Entries), written \in Nat, QueueInOrder, SentFirst, NEW m \in PcMessages, Write(m),
         m.cmd = "O" => m.id = written + 1
  PROVE  SentFirst'
<1> DEFINE n == Len(messages)
<1>1. /\ DOMAIN messages = 1 .. n /\ n \in Nat /\ DOMAIN messages' = 1 .. n + 1
      /\ \A i \in 1 .. n : messages'[i] = messages[i]
      /\ messages'[n + 1].data = m /\ messages'[n + 1].status = "ReadyToSend"
  BY Written
<1> HIDE DEF n
<1> SUFFICES ASSUME NEW i \in 1 .. n + 1, NEW j \in 1 .. n + 1, i < j,
                    messages'[i].data.cmd = "O", messages'[j].data.cmd = "O"
             PROVE  /\ messages'[i].data.id < messages'[j].data.id
                    /\ messages'[i].status = "ReadyToSend" => messages'[j].status = "ReadyToSend"
  BY <1>1 DEF SentFirst
<1>2. i \in 1 .. n /\ messages'[i] = messages[i]
  BY <1>1
<1>3. CASE j = n + 1
  <2>1. messages[i].data.id \in 1 .. written
    BY <1>1, <1>2 DEF QueueInOrder
  <2>2. m.id = written + 1
    BY <1>1, <1>3
  <2>3. messages[i].data.id < written + 1
    BY <2>1
  <2> QED BY <1>1, <1>2, <1>3, <2>2, <2>3
<1>4. CASE j \in 1 .. n
  BY <1>1, <1>2, <1>4 DEF SentFirst
<1> QED BY <1>1, <1>3, <1>4

LEMMA SentFirstRemarked ==
  ASSUME messages \in Seq(Entries), SentFirst, NEW k \in 1 .. Len(messages),
         NEW st, messages' = [messages EXCEPT ![k].status = st],
         \/ st = "PendingResponse" /\ \A j \in 1 .. Len(messages) : messages[j].status = "ReadyToSend" => k <= j
         \/ messages[k].data.cmd # "O"
  PROVE  SentFirst'
<1> DEFINE n == Len(messages)
<1>1. /\ DOMAIN messages' = 1 .. n /\ DOMAIN messages = 1 .. n /\ n \in Nat
      /\ \A j \in 1 .. n : /\ messages'[j].data = messages[j].data
                           /\ messages'[j].status = IF j = k THEN st ELSE messages[j].status
  BY Remarked
<1> HIDE DEF n
<1> SUFFICES ASSUME NEW i \in 1 .. n, NEW j \in 1 .. n, i < j,
                    messages'[i].data.cmd = "O", messages'[j].data.cmd = "O"
             PROVE  /\ messages'[i].data.id < messages'[j].data.id
                    /\ messages'[i].status = "ReadyToSend" => messages'[j].status = "ReadyToSend"
  BY <1>1 DEF SentFirst
<1>2. /\ messages[i].data.id < messages[j].data.id
      /\ messages[i].status = "ReadyToSend" => messages[j].status = "ReadyToSend"
      /\ messages[i].data.cmd = "O" /\ messages[j].data.cmd = "O"
  BY <1>1 DEF SentFirst
<1>3. ASSUME messages'[i].status = "ReadyToSend" PROVE messages'[j].status = "ReadyToSend"
  <2>1. CASE messages[k].data.cmd # "O"
    <3>1. i # k /\ j # k
      BY <1>2, <2>1
    <3> QED BY <1>1, <1>2, <1>3, <3>1
  <2>2. CASE st = "PendingResponse" /\ \A l \in 1 .. Len(messages) : messages[l].status = "ReadyToSend" => k <= l
    <3>1. i # k /\ messages[i].status = "ReadyToSend"
      BY <1>1, <1>3, <2>2
    <3>2. k <= i
      BY <2>2, <3>1 DEF n
    <3>3. j # k
      <4>1. k \in 1 .. n
        BY DEF n
      <4> QED BY <1>1, <3>2, <4>1
    <3> QED BY <1>1, <1>2, <3>1, <3>3
  <2> QED BY <2>1, <2>2
<1> QED BY <1>1, <1>2, <1>3

LEMMA SentFirstRemoved ==
  ASSUME messages \in Seq(Entries), SentFirst, NEW k \in 1 .. Len(messages), messages' = RemoveAt(messages, k)
  PROVE  SentFirst'
<1> DEFINE n == Len(messages)
           Old(j) == IF j < k THEN j ELSE j + 1
<1>1. /\ n \in Nat /\ DOMAIN messages = 1 .. n /\ DOMAIN messages' = 1 .. n - 1
      /\ \A j \in 1 .. n - 1 : messages'[j] = IF j < k THEN messages[j] ELSE messages[j + 1]
  BY Removed
<1> HIDE DEF n
<1>2. \A j \in 1 .. n - 1 : Old(j) \in 1 .. n /\ messages'[j] = messages[Old(j)]
  <2>1. k \in 1 .. n
    BY DEF n
  <2> QED BY <1>1, <2>1
<1>3. \A i, j \in 1 .. n - 1 : i < j => Old(i) < Old(j)
  BY <1>1 DEF n
<1> HIDE DEF Old
<1> QED BY <1>1, <1>2, <1>3 DEF SentFirst

LEMMA SentFirstStep == LinkInv /\ OrderInv /\ SentFirst /\ [Next]_vars => SentFirst'
<1> SUFFICES ASSUME LinkInv, OrderInv, SentFirst, [Next]_vars PROVE SentFirst'
  OBVIOUS
<1>1. ChannelsOK /\ PcTypeOK /\ messages \in Seq(Entries) /\ written \in Nat /\ replying \in Seq(PcMessages)
  BY LinkInvParts, PcTypes, Bounds DEF SimInv
<1>2. QueueInOrder /\ RefusalsOK
  BY DEF OrderInv
<1>3. CASE messages' = messages
  BY <1>3 DEF SentFirst
<1>4. CASE AttachDevice \/ DetachDevice
  <2>1. PICK b \in {0, 1} : Write(PcMessage("S", b, 0))
    BY <1>4 DEF AttachDevice, DetachDevice
  <2>2. PcMessage("S", b, 0) \in PcMessages /\ PcMessage("S", b, 0).cmd = "S"
    BY Bounds DEF PcMessage, PcMessages, PcCommands
  <2> QED BY <1>1, <1>2, <2>1, <2>2, SentFirstWritten
<1>5. CASE WriteOutgoingData
  <2>1. Write(PcMessage("O", 1, written + 1)) /\ written < MaxData
    BY <1>5 DEF WriteOutgoingData
  <2>2. /\ PcMessage("O", 1, written + 1) \in PcMessages
        /\ PcMessage("O", 1, written + 1).cmd = "O" /\ PcMessage("O", 1, written + 1).id = written + 1
    <3>1. written + 1 \in 0 .. MaxRequests + MaxData
      BY <1>1, <2>1, Bounds
    <3> QED BY <3>1 DEF PcMessage, PcMessages, PcCommands
  <2> QED BY <1>1, <1>2, <2>1, <2>2, SentFirstWritten
<1>6. CASE QueueReply
  <2>1. replying # <<>> /\ Write(Head(replying))
    BY <1>6 DEF QueueReply
  <2>2. Head(replying) \in PcMessages /\ Head(replying).cmd # "O"
    BY <1>1, <1>2, <2>1, Popped DEF RefusalsOK
  <2> QED BY <1>1, <1>2, <2>1, <2>2, SentFirstWritten
<1>7. CASE SendMessages
  <2>1. FirstReady # 0 /\ messages' = [messages EXCEPT ![FirstReady].status = "PendingResponse"]
    BY <1>7 DEF SendMessages
  <2>2. /\ FirstReady \in 1 .. Len(messages)
        /\ \A j \in 1 .. Len(messages) : messages[j].status = "ReadyToSend" => FirstReady <= j
    BY <1>1, <2>1, FirstReadyFirst
  <2> QED BY <1>1, <2>1, <2>2, SentFirstRemarked
<1>8. CASE ReceiveNack
  <2> DEFINE q == Head(toPC)
             k == OldestWith(q.want)
  <2>1. Received({"E"}) /\ messages' = IF k = 0 THEN messages ELSE [messages EXCEPT ![k].status = "ReadyToSend"]
    BY <1>8 DEF ReceiveNack
  <2>2. q.want \in {"U", "D"}
    <3>1. 1 \in DOMAIN toPC /\ q = toPC[1] /\ q.cmd = "E"
      BY <1>1, <2>1, Popped DEF Received, ChannelsOK
    <3> QED BY <1>2, <3>1 DEF RefusalsOK
  <2>3. CASE k # 0
    <3>1. k \in 1 .. Len(messages) /\ messages[k].data.cmd = q.want
      BY <1>1, <2>3, OldestWithFirst
    <3> HIDE DEF k, q
    <3>2. messages[k].data.cmd # "O"
      BY <2>2, <3>1
    <3> QED BY <1>1, <2>1, <2>3, <3>1, <3>2, SentFirstRemarked
  <2> QED BY <1>3, <2>1, <2>3
<1>9. CASE ReceiveAck
  <2> DEFINE k == OldestWith(Head(toPC).got)
  <2>1. messages' = IF k = 0 THEN messages ELSE RemoveAt(messages, k)
    BY <1>9 DEF ReceiveAck
  <2>2. CASE k # 0
    <3>1. k \in 1 .. Len(messages)
      BY <1>1, <2>2, OldestWithFirst
    <3> HIDE DEF k
    <3> QED BY <1>1, <2>1, <2>2, <3>1, SentFirstRemoved
  <2> QED BY <1>3, <2>1, <2>2
<1>10. CASE ReceiveOther \/ ReceiveControlRequest \/ ReceiveDescriptorRequest
  BY <1>3, <1>10 DEF ReceiveOther, ReceiveControlRequest, ReceiveDescriptorRequest
<1>11. CASE SimStep \/ HostStep \/ Reset \/ UNCHANGED vars
  BY <1>3, <1>11 DEF SimStep, HostStep, Reset, vars, pcVars
<1> QED BY <1>4, <1>5, <1>6, <1>7, <1>8, <1>9, <1>10, <1>11 DEF Next, PcStep, PcNext, Reader

(* Only an acknowledgement shortens the queue.                             *)
LEMMA Shortened ==
  ASSUME LinkInv, [Next]_vars, NEW i \in DOMAIN messages, messages' = RemoveAt(messages, i)
  PROVE  ReceiveAck
<1>1. messages \in Seq(Entries) /\ PcTypeOK /\ DOMAIN messages = 1 .. Len(messages)
  BY LinkInvParts, PcTypes, LenProperties
<1>2. Len(messages') = Len(messages) - 1 /\ Len(messages) \in Nat
  BY <1>1, Removed
<1>3. Len(messages') # Len(messages) /\ Len(messages') # Len(messages) + 1
  <2>1. \A n \in Nat : n - 1 # n /\ n - 1 # n + 1
    OBVIOUS
  <2> QED BY <1>2, <2>1, Zenon
<1>4. messages' # messages
  BY <1>3
<1>5. ASSUME NEW m, Write(m) PROVE FALSE
  <2>1. messages' = Append(messages, [data |-> m, status |-> "ReadyToSend"])
    BY <1>5 DEF Write
  <2>2. Len(messages') = Len(messages) + 1
    BY <1>1, <2>1
  <2> QED BY <1>3, <2>2
<1>6. ASSUME NEW k, NEW st, messages' = [messages EXCEPT ![k].status = st] PROVE FALSE
  <2>1. DOMAIN messages' = DOMAIN messages
    BY <1>6
  <2>2. Len(messages') = Len(messages)
    BY <1>1, <1>6
  <2> QED BY <1>3, <2>2
<1>7. CASE PcNext
  BY <1>4, <1>5, <1>6, <1>7 DEF PcNext, AttachDevice, DetachDevice, WriteOutgoingData, SendMessages, Reader,
     QueueReply, ReceiveNack, ReceiveOther, ReceiveControlRequest, ReceiveDescriptorRequest
<1>8. CASE SimStep \/ HostStep \/ Reset \/ UNCHANGED vars
  BY <1>4, <1>8 DEF SimStep, HostStep, Reset, vars, pcVars
<1> QED BY <1>7, <1>8 DEF Next, PcStep

(* Data is nowhere twice in the queue, so only one removal has this result.*)
LEMMA OneRemoval ==
  ASSUME messages \in Seq(Entries), SentFirst, NEW i \in 1 .. Len(messages), NEW k \in 1 .. Len(messages),
         messages[i].data \in PcMessages, messages[i].data.cmd = "O", RemoveAt(messages, i) = RemoveAt(messages, k)
  PROVE  i = k
<1> DEFINE n == Len(messages)
           r == RemoveAt(messages, i)
<1>1. /\ n \in Nat /\ DOMAIN messages = 1 .. n
      /\ \A j \in 1 .. n - 1 : r[j] = IF j < i THEN messages[j] ELSE messages[j + 1]
      /\ \A j \in 1 .. n - 1 : r[j] = IF j < k THEN messages[j] ELSE messages[j + 1]
  BY Removed
<1>2. i \in 1 .. n /\ k \in 1 .. n
  OBVIOUS
<1> HIDE DEF n, r
<1>3. messages[i].data.id \in Nat
  BY Bounds DEF PcMessages
<1>4. ASSUME i < k PROVE FALSE
  <2>1. i \in 1 .. n - 1 /\ i + 1 \in 1 .. n /\ i < i + 1
    BY <1>1, <1>2, <1>4
  <2>2. messages[i] = messages[i + 1]
    BY <1>1, <1>2, <1>4, <2>1
  <2> QED BY <1>1, <1>2, <1>3, <2>1, <2>2 DEF SentFirst
<1>5. ASSUME k < i PROVE FALSE
  <2>1. i - 1 \in 1 .. n - 1 /\ i - 1 \in 1 .. n /\ i - 1 < i /\ ~(i - 1 < k) /\ i - 1 + 1 = i
    BY <1>1, <1>2, <1>5
  <2>2. messages[i - 1] = messages[i]
    BY <1>1, <2>1
  <2> QED BY <1>1, <1>2, <1>3, <2>1, <2>2 DEF SentFirst
<1> QED BY <1>2, <1>4, <1>5

(* An acknowledgement of data has been paid for by data that was sent.     *)
LEMMA AckOfSent ==
  ASSUME LinkInv, SendsRight, KeptInv, resets = 0, attaches <= 1, Received({"A"}), Head(toPC).got = "O"
  PROVE  DataPays # 0
<1> DEFINE q == Head(toPC)
<1>1. toPC \in Seq(SimMessages) /\ toPC # <<>> /\ Counted
  BY LinkInvParts, CountTypes DEF SimInv, ChannelsOK, Received
<1>2. 1 \in 1 .. Len(toPC) /\ q = toPC[1] /\ q \in SimMessages /\ q.cmd = "A" /\ DOMAIN toPC = 1 .. Len(toPC)
  BY <1>1, Popped DEF Received
<1>3. toPC[1] \in Charged
  BY <1>2 DEF Charged
<1>4. ChargesToPC >= 1
  BY <1>1, <1>2, <1>3, CountSome DEF ChargesToPC
<1>5. CASE task \in Waits
  <2>1. PICK j \in 1 .. Len(toPC) : j > 1 /\ toPC[j].cmd \in {"U", "D"}
    BY <1>2, <1>5 DEF KeptInv, QuestionLast
  <2>2. toPC[j] \in Charged
    BY <1>1, <2>1, ElementOfSeq DEF Charged
  <2>3. ChargesToPC >= 2
    <3>1. 1 # j
      BY <2>1
    <3> QED BY <1>1, <1>2, <1>3, <2>2, <3>1, CountSome DEF ChargesToPC
  <2> QED BY <1>1, <2>3 DEF KeptInv, PaidFor, Counted, SendCharge, BufferCharge, WorkCharge, RequestPays, One
<1>6. CASE task \in {"sendU", "sendD"}
  <2>1. tx \in Charged
    BY <1>6, LinkInvParts DEF SendsRight, Charged, SimInv, PacketsOK
  <2>2. SendCharge = 1
    BY <1>6, <2>1 DEF SendCharge, One, Sending
  <2> QED BY <1>1, <1>4, <2>2 DEF KeptInv, PaidFor, Counted, BufferCharge, WorkCharge, RequestPays, One
<1>7. CASE task \notin BeforeReply
  <2>1. RequestPays = 0
    BY <1>7 DEF RequestPays, One
  <2> QED BY <1>1, <1>4, <2>1 DEF KeptInv, PaidFor, Counted, SendCharge, BufferCharge, WorkCharge, One
<1> QED BY <1>5, <1>6, <1>7 DEF BeforeReply, Waits

LEMMA KeptBySteps ==
  ASSUME LinkInv, SendsRight, KeptInv, [Next]_vars, resets = 0, attaches <= 1,
         NEW i \in DOMAIN messages, messages[i].data.cmd = "O", messages' = RemoveAt(messages, i)
  PROVE  messages[i].status = "PendingResponse"
<1> DEFINE got == Head(toPC).got
           k == OldestWith(got)
<1>1. /\ messages \in Seq(Entries) /\ DOMAIN messages = 1 .. Len(messages) /\ Len(messages) \in Nat
      /\ \A j \in 1 .. Len(messages) : messages[j] \in Entries
  BY LinkInvParts, PcTypes, LenProperties, ElementOfSeq
<1>2. Received({"A"}) /\ messages' = IF k = 0 THEN messages ELSE RemoveAt(messages, k)
  BY Shortened DEF ReceiveAck
<1>3. k # 0
  <2>1. Len(messages') = Len(messages) - 1
    BY <1>1, Removed
  <2>2. \A n \in Nat : n - 1 # n
    OBVIOUS
  <2>3. messages' # messages
    BY <1>1, <2>1, <2>2, Zenon
  <2> QED BY <1>2, <2>3
<1>4. /\ k \in 1 .. Len(messages) /\ messages[k].data.cmd = got
      /\ \A j \in 1 .. Len(messages) : messages[j].data.cmd = got => k <= j
  BY <1>1, <1>3, OldestWithFirst
<1> HIDE DEF k
<1>5. i = k
  <2>1. messages[i].data \in PcMessages
    BY <1>1 DEF Entries
  <2> QED BY <1>1, <1>2, <1>3, <1>4, <2>1, OneRemoval DEF KeptInv
<1>6. DataPays # 0
  BY <1>2, <1>4, <1>5, AckOfSent
<1>7. PICK j \in 1 .. Len(messages) : messages[j] \in DataSent
  BY <1>1, <1>6, CountSome DEF DataPays
<1>8. messages[j].data.cmd = "O" /\ messages[j].status = "PendingResponse" /\ k <= j
  BY <1>4, <1>5, <1>7 DEF DataSent
<1>9. messages[i].status # "ReadyToSend"
  <2>1. CASE i = j
    BY <1>8, <2>1
  <2>2. CASE i < j
    BY <1>1, <1>8, <2>2 DEF KeptInv, SentFirst
  <2> QED BY <1>1, <1>5, <1>8, <2>1, <2>2
<1> QED BY <1>1, <1>9 DEF Entries

LEMMA LinkCounted == LinkInv => Counted
BY LinkInvParts, CountTypes DEF SimInv

LEMMA KeptStep == LinkInv /\ LinkInv' /\ SendsRight /\ OrderInv /\ KeptInv /\ [Next]_vars => KeptInv'
<1> SUFFICES ASSUME LinkInv, LinkInv', SendsRight, OrderInv, KeptInv, [Next]_vars PROVE KeptInv'
  OBVIOUS
<1>1. Counted /\ Counted' /\ RefusalsOK
  <2>1. LinkInv' => Counted'
    BY LinkCounted, PTL
  <2> QED BY <2>1, LinkCounted DEF OrderInv
<1>2. PaidFor /\ AttachedOnce /\ Begun /\ QuestionLast /\ SentFirst
  BY DEF KeptInv
<1>3. PaidFor' /\ AttachedOnce'
  <2>1. CASE PcStep
    BY <1>1, <1>2, <2>1, PcPays
  <2>2. CASE SimStep
    BY <1>1, <1>2, <2>2, SimBalances, SimPays DEF SimStep
  <2>3. CASE HostStep
    BY <1>1, <1>2, <2>3, HostBalance, SimPays DEF HostStep
  <2>4. CASE Reset
    BY <1>1, <1>2, <2>4, ResetPays
  <2>5. CASE UNCHANGED vars
    <3>1. /\ UNCHANGED pcVars /\ resets' = resets /\ UNCHANGED channels
          /\ UNCHANGED <<task, main, tx, rx, buffer, requests, attached>>
      BY <2>5 DEF vars, simVars
    <3>2. WorkBalance /\ KnownBalance
      BY <3>1, WorkOnly DEF SendCharge, WorkCharge, RequestPays, Writing, One
    <3> QED BY <1>1, <1>2, <3>1, <3>2, ChannelsSame, SimPays
  <2> QED BY <2>1, <2>2, <2>3, <2>4, <2>5 DEF Next
<1>4. Begun' /\ QuestionLast' /\ SentFirst'
  BY <1>2, BegunStep, QuestionStep, SentFirstStep
<1> QED BY <1>3, <1>4 DEF KeptInv

LEMMA KeptInit == Init => KeptInv
<1> SUFFICES ASSUME Init PROVE KeptInv
  OBVIOUS
<1>1. /\ toSim = <<>> /\ toPC = <<>> /\ messages = <<>> /\ replying = <<>> /\ attaches = 0
      /\ task = "idle" /\ rx = "empty" /\ attached = "no" /\ requests = <<>> /\ bank = "none"
  BY DEF Init, PcInit, SimInit
<1>2. /\ RepliesBuilt = 0 /\ RepliesReady = 0 /\ ChargesToPC = 0 /\ ChargesToSim = 0 /\ DataPays = 0
      /\ AttachesReady = 0 /\ AttachesToSim = 0
  BY <1>1, CountEmpty DEF RepliesBuilt, RepliesReady, ChargesToPC, ChargesToSim, DataPays, AttachesReady, AttachesToSim
<1>3. SendCharge = 0 /\ BufferCharge = 0 /\ WorkCharge = 0 /\ RequestPays = 0 /\ AttachWaits = 0 /\ AttachKnown = 0
  BY <1>1 DEF SendCharge, BufferCharge, WorkCharge, RequestPays, AttachWaits, AttachKnown, AttachInBuffer,
     One, Sending, Writing, Asking, BeforeReply
<1>4. PaidFor /\ AttachedOnce
  BY <1>1, <1>2, <1>3 DEF PaidFor, AttachedOnce
<1>5. Begun /\ QuestionLast /\ SentFirst
  BY <1>1 DEF Begun, QuestionLast, SentFirst, Waits
<1> QED BY <1>4, <1>5 DEF KeptInv

(* An acknowledgement never makes the PC forget data it has not sent, for  *)
(* any data, requests, failed writes and banks (USBSimulatorDevice.cs:     *)
(* 215-330, case 'A'; simulator.c).                                        *)
THEOREM DataIsKept == Spec => UnsentDataKept
<1> DEFINE Kept == resets = 0 /\ attaches <= 1 =>
                     \A i \in DOMAIN messages :
                       messages[i].data.cmd = "O" /\ messages' = RemoveAt(messages, i)
                         => messages[i].status = "PendingResponse"
<1>1. Init => SendsRight /\ OrderInv /\ KeptInv
  BY KeptInit, OrderInit DEF Init, SimInit, SendsRight
<1>2. LinkInv /\ SendsRight /\ KeptInv /\ [Next]_vars => [Kept]_vars
  <2> SUFFICES ASSUME LinkInv, SendsRight, KeptInv, [Next]_vars, resets = 0, attaches <= 1,
                      NEW i \in DOMAIN messages, messages[i].data.cmd = "O", messages' = RemoveAt(messages, i)
               PROVE  messages[i].status = "PendingResponse"
    OBVIOUS
  <2> QED BY KeptBySteps
<1>3. Spec => [][Kept]_vars
  BY <1>1, <1>2, LinkInvariant, SendsRightStep, OrderStep, KeptStep, PTL DEF Spec
<1> QED BY <1>3 DEF UnsentDataKept
=============================================================================
