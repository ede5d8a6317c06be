----------------------------- MODULE LinkProofs -----------------------------
(***************************************************************************)
(* Proofs about Link for every number of requests, pieces of data, OUT     *)
(* packets, attachments, failed writes, resets and banks.                  *)
(***************************************************************************)
EXTENDS Link, TLAPS, WellFoundedInduction, SequenceTheorems

(* An entry of the PC's _messages. *)
Entries == [data : PcMessages, status : {"ReadyToSend", "PendingResponse"}]

(* The steps of a control request: from the question to the use of its     *)
(* reply.                                                                  *)
Asking == {"sendU", "waitU", "nackU", "ackU", "decideU",
           "sendD", "waitD", "nackD", "ackD", "decideD"}

(* Requests are bounded by the host, and one exists while it is asked about.*)
RequestsKnown ==
  /\ Len(requests) <= MaxRequests
  /\ setup \/ task \in Asking => requests # <<>>

(* While a packet of data is being written, also across a control request  *)
(* answered in the middle of it, some bank of it is left to write.         *)
BanksLeft ==
  /\ main # "usb" /\ task \in Asking \cup {"nested", "write"} => part < Banks
  /\ main = "usb" => task \notin {"nested", "write"}

ChannelsOK == toSim \in Seq(PcMessages) /\ toPC \in Seq(SimMessages)

ResetsOK == resets \in 0 .. MaxResets

LinkInv ==
  ChannelsOK /\ PcTypeOK /\ SimTypeOK /\ RequestsKnown /\ BanksLeft /\ ResetsOK

LEMMA Bounds ==
  /\ MaxRequests \in Nat /\ MaxData \in Nat /\ MaxOut \in Nat
  /\ MaxAttach \in Nat /\ MaxLost \in Nat /\ Banks \in Nat /\ Banks >= 1
  /\ MaxResets \in Nat
BY LinkAssumption, ResetAssumption

-----------------------------------------------------------------------------
(* Searching and changing sequences.                                       *)
LEMMA MinOfNats ==
  ASSUME NEW T, T \subseteq Nat, T # {}
  PROVE  Min(T) \in T /\ \A y \in T : Min(T) <= y
<1>1. PICK x \in T : \A y \in T : ~(<<y, x>> \in OpToRel(<, Nat))
  BY WFMin, NatLessThanWellFounded
<1>2. \A y \in T : ~(y < x)
  BY <1>1, Zenon DEF OpToRel
<1>3. \A y \in T : x <= y
  BY <1>2
<1> QED BY <1>3 DEF Min

(* OldestWith is the first entry with the command, or 0 for none. *)
LEMMA OldestWithFirst ==
  ASSUME messages \in Seq(Entries), NEW cmd
  PROVE  /\ OldestWith(cmd) \in 0 .. Len(messages) /\ Len(messages) \in Nat
         /\ OldestWith(cmd) # 0 => messages[OldestWith(cmd)].data.cmd = cmd
         /\ \A j \in 1 .. Len(messages) :
              messages[j].data.cmd = cmd => OldestWith(cmd) # 0 /\ OldestWith(cmd) <= j
<1> DEFINE I == {i \in 1 .. Len(messages) : messages[i].data.cmd = cmd}
<1>1. OldestWith(cmd) = IF I # {} THEN Min(I) ELSE 0
  BY DEF OldestWith, SelectInSeq
<1>2. I \subseteq Nat /\ Len(messages) \in Nat
  OBVIOUS
<1>3. CASE I = {}
  BY <1>1, <1>2, <1>3
<1>4. CASE I # {}
  <2>1. Min(I) \in I /\ \A j \in I : Min(I) <= j
    BY <1>2, <1>4, MinOfNats
  <2>2. OldestWith(cmd) \in I /\ \A j \in I : OldestWith(cmd) <= j
    BY <1>1, <1>4, <2>1
  <2>3. /\ OldestWith(cmd) \in 1 .. Len(messages)
        /\ messages[OldestWith(cmd)].data.cmd = cmd
    BY <2>2
  <2>4. \A j \in 1 .. Len(messages) :
          messages[j].data.cmd = cmd => OldestWith(cmd) <= j
    BY <2>2
  <2> QED BY <1>2, <2>3, <2>4
<1> QED BY <1>3, <1>4

(* So is FirstReady for the status ReadyToSend. *)
LEMMA FirstReadyInRange ==
  ASSUME messages \in Seq(Entries)
  PROVE  FirstReady \in 0 .. Len(messages) /\ Len(messages) \in Nat
<1> DEFINE I == {i \in 1 .. Len(messages) : messages[i].status = "ReadyToSend"}
<1>1. FirstReady = IF I # {} THEN Min(I) ELSE 0
  BY DEF FirstReady, SelectInSeq
<1>2. I \subseteq Nat /\ Len(messages) \in Nat
  OBVIOUS
<1>3. CASE I = {}
  BY <1>1, <1>2, <1>3
<1>4. CASE I # {}
  <2>1. Min(I) \in I
    BY <1>2, <1>4, MinOfNats
  <2> QED BY <1>1, <1>2, <1>4, <2>1
<1> QED BY <1>3, <1>4

LEMMA RemarkType ==
  ASSUME messages \in Seq(Entries), NEW i \in 1 .. Len(messages),
         NEW s \in {"ReadyToSend", "PendingResponse"}
  PROVE  [messages EXCEPT ![i].status = s] \in Seq(Entries)
<1>1. messages[i] \in Entries
  BY ElementOfSeq
<1>2. [messages[i] EXCEPT !.status = s] \in Entries
  BY <1>1 DEF Entries
<1> HIDE DEF Entries
<1> QED BY <1>2, ExceptSeq

LEMMA RemoveType ==
  ASSUME messages \in Seq(Entries), NEW i \in 1 .. Len(messages)
  PROVE  RemoveAt(messages, i) \in Seq(Entries)
<1>1. Len(messages) \in Nat /\ \A j \in 1 .. Len(messages) : messages[j] \in Entries
  BY ElementOfSeq
<1>2. SubSeq(messages, 1, i - 1) \in Seq(Entries)
  BY <1>1, SubSeqProperties
<1>3. SubSeq(messages, i + 1, Len(messages)) \in Seq(Entries)
  BY <1>1, SubSeqProperties
<1> QED BY <1>2, <1>3, ConcatProperties DEF RemoveAt

LEMMA WriteType ==
  ASSUME messages \in Seq(Entries), NEW m \in PcMessages, Write(m)
  PROVE  messages' \in Seq(Entries)
<1>1. [data |-> m, status |-> "ReadyToSend"] \in Entries
  BY DEF Entries
<1> HIDE DEF Entries
<1> QED BY <1>1, AppendProperties DEF Write

-----------------------------------------------------------------------------
(* The PC: every case leaves well-formed packets and entries.              *)
LEMMA PcTypes ==
  ASSUME PcTypeOK
  PROVE  /\ messages \in Seq(Entries) /\ replying \in Seq(PcMessages)
         /\ Len(replying) <= 1 /\ written \in 0 .. MaxData
         /\ configured \in BOOLEAN /\ attaches \in 0 .. MaxAttach
         /\ lost \in 0 .. MaxLost
BY DEF PcTypeOK, Entries

LEMMA PcTypesBack ==
  ASSUME messages' \in Seq(Entries), replying' \in Seq(PcMessages),
         Len(replying') <= 1, written' \in 0 .. MaxData,
         configured' \in BOOLEAN, attaches' \in 0 .. MaxAttach,
         lost' \in 0 .. MaxLost
  PROVE  PcTypeOK'
BY DEF PcTypeOK, Entries

LEMMA ReceivedTypes ==
  ASSUME ChannelsOK, NEW cmds, Received(cmds)
  PROVE  /\ ChannelsOK' /\ Head(toPC) \in SimMessages /\ Head(toPC).cmd \in cmds
         /\ written' = written /\ attaches' = attaches /\ lost' = lost
<1>1. toPC \in Seq(SimMessages) /\ toPC # <<>> /\ toPC' = Tail(toPC) /\ toSim' = toSim
  BY DEF ChannelsOK, Received
<1>2. Head(toPC) \in SimMessages /\ Tail(toPC) \in Seq(SimMessages)
  BY <1>1, HeadTailProperties
<1> QED BY <1>1, <1>2 DEF ChannelsOK, Received

LEMMA AttachInv ==
  ChannelsOK /\ PcTypeOK /\ (AttachDevice \/ DetachDevice) => ChannelsOK' /\ PcTypeOK'
<1> SUFFICES ASSUME ChannelsOK, PcTypeOK, AttachDevice \/ DetachDevice
             PROVE  ChannelsOK' /\ PcTypeOK'
  OBVIOUS
<1>1. PcMessage("S", 1, 0) \in PcMessages /\ PcMessage("S", 0, 0) \in PcMessages
  BY Bounds DEF PcMessage, PcMessages, PcCommands
<1>2. messages' \in Seq(Entries)
  BY <1>1, PcTypes, WriteType DEF AttachDevice, DetachDevice
<1>3. /\ attaches < MaxAttach /\ attaches' = attaches + 1 /\ replying' = replying
      /\ written' = written /\ configured' = configured /\ lost' = lost
      /\ toSim' = toSim /\ toPC' = toPC
  BY DEF AttachDevice, DetachDevice, channels
<1>4. attaches' \in 0 .. MaxAttach
  BY <1>3, PcTypes, Bounds
<1>5. PcTypeOK'
  BY <1>2, <1>3, <1>4, PcTypes, PcTypesBack
<1> QED BY <1>3, <1>5 DEF ChannelsOK

LEMMA DataWrittenInv ==
  ChannelsOK /\ PcTypeOK /\ WriteOutgoingData => ChannelsOK' /\ PcTypeOK'
<1> SUFFICES ASSUME ChannelsOK, PcTypeOK, WriteOutgoingData
             PROVE  ChannelsOK' /\ PcTypeOK'
  OBVIOUS
<1>1. /\ written < MaxData /\ written' = written + 1 /\ replying' = replying
      /\ attaches' = attaches /\ configured' = configured /\ lost' = lost
      /\ toSim' = toSim /\ toPC' = toPC
  BY DEF WriteOutgoingData, channels
<1>2. written' \in 0 .. MaxData /\ written + 1 \in 0 .. MaxRequests + MaxData
  BY <1>1, PcTypes, Bounds
<1>3. PcMessage("O", 1, written + 1) \in PcMessages
  BY <1>2 DEF PcMessage, PcMessages, PcCommands
<1>4. messages' \in Seq(Entries)
  BY <1>3, PcTypes, WriteType DEF WriteOutgoingData
<1>5. PcTypeOK'
  BY <1>1, <1>2, <1>4, PcTypes, PcTypesBack
<1> QED BY <1>1, <1>5 DEF ChannelsOK

LEMMA SendInv == ChannelsOK /\ PcTypeOK /\ SendMessages => ChannelsOK' /\ PcTypeOK'
<1> SUFFICES ASSUME ChannelsOK, PcTypeOK, SendMessages PROVE ChannelsOK' /\ PcTypeOK'
  OBVIOUS
<1>1. /\ messages' = [messages EXCEPT ![FirstReady].status = "PendingResponse"]
      /\ replying' = replying /\ written' = written /\ configured' = configured
      /\ attaches' = attaches /\ toPC' = toPC
      /\ \/ toSim' = Append(toSim, messages[FirstReady].data) /\ lost' = lost
         \/ lost < MaxLost /\ lost' = lost + 1 /\ toSim' = toSim
  BY DEF SendMessages
<1>2. FirstReady \in 1 .. Len(messages) /\ messages \in Seq(Entries)
  BY PcTypes, FirstReadyInRange DEF SendMessages
<1>3. messages' \in Seq(Entries)
  BY <1>1, <1>2, RemarkType
<1>4. messages[FirstReady].data \in PcMessages
  <2>1. messages[FirstReady] \in Entries
    BY <1>2, ElementOfSeq
  <2> QED BY <2>1 DEF Entries
<1>5. toSim' \in Seq(PcMessages)
  BY <1>1, <1>4, AppendProperties DEF ChannelsOK
<1>6. lost' \in 0 .. MaxLost
  BY <1>1, PcTypes, Bounds
<1>7. PcTypeOK'
  BY <1>1, <1>3, <1>6, PcTypes, PcTypesBack
<1> QED BY <1>1, <1>5, <1>7 DEF ChannelsOK

LEMMA AckInv ==
  ChannelsOK /\ PcTypeOK /\ (ReceiveNack \/ ReceiveAck \/ ReceiveOther)
    => ChannelsOK' /\ PcTypeOK'
<1> SUFFICES ASSUME ChannelsOK, PcTypeOK, ReceiveNack \/ ReceiveAck \/ ReceiveOther
             PROVE  ChannelsOK' /\ PcTypeOK'
  OBVIOUS
<1>1. messages \in Seq(Entries)
  BY PcTypes
<1>2. replying' = replying /\ configured' = configured
  BY DEF ReceiveNack, ReceiveAck, ReceiveOther
<1>3. /\ ChannelsOK' /\ written' = written /\ attaches' = attaches /\ lost' = lost
  BY ReceivedTypes DEF ReceiveNack, ReceiveAck, ReceiveOther
<1>4. messages' \in Seq(Entries)
  <2>1. CASE ReceiveNack
    <3> DEFINE i == OldestWith(Head(toPC).want)
    <3>1. i \in 0 .. Len(messages) /\ Len(messages) \in Nat
      BY <1>1, OldestWithFirst
    <3>2. \/ i = 0 /\ messages' = messages
          \/ i # 0 /\ messages' = [messages EXCEPT ![i].status = "ReadyToSend"]
      BY <2>1 DEF ReceiveNack
    <3> HIDE DEF i
    <3>3. i # 0 => [messages EXCEPT ![i].status = "ReadyToSend"] \in Seq(Entries)
      <4>1. i # 0 => i \in 1 .. Len(messages)
        BY <3>1
      <4> QED BY <1>1, <4>1, RemarkType
    <3> QED BY <1>1, <3>2, <3>3
  <2>2. CASE ReceiveAck
    <3> DEFINE i == OldestWith(Head(toPC).got)
    <3>1. i \in 0 .. Len(messages) /\ Len(messages) \in Nat
      BY <1>1, OldestWithFirst
    <3>2. \/ i = 0 /\ messages' = messages
          \/ i # 0 /\ messages' = RemoveAt(messages, i)
      BY <2>2 DEF ReceiveAck
    <3> HIDE DEF i
    <3> QED BY <1>1, <3>1, <3>2, RemoveType
  <2>3. CASE ReceiveOther
    BY <2>3, <1>1 DEF ReceiveOther
  <2> QED BY <2>1, <2>2, <2>3
<1>5. PcTypeOK'
  BY <1>2, <1>3, <1>4, PcTypes, PcTypesBack
<1> QED BY <1>3, <1>5

(* A question names a request, so the reply's id is one.                   *)
LEMMA ReplyInv ==
  ChannelsOK /\ PcTypeOK /\ (ReceiveControlRequest \/ ReceiveDescriptorRequest)
    => ChannelsOK' /\ PcTypeOK'
<1> SUFFICES ASSUME ChannelsOK, PcTypeOK,
                    ReceiveControlRequest \/ ReceiveDescriptorRequest
             PROVE  ChannelsOK' /\ PcTypeOK'
  OBVIOUS
<1>1. /\ ChannelsOK' /\ written' = written /\ attaches' = attaches /\ lost' = lost
      /\ Head(toPC) \in SimMessages /\ Head(toPC).cmd \in {"U", "D"}
      /\ messages' = messages
  BY ReceivedTypes DEF ReceiveControlRequest, ReceiveDescriptorRequest
<1>2. Head(toPC).id \in 1 .. MaxRequests /\ Head(toPC).kind \in Kinds
  BY <1>1 DEF SimMessages
<1>3. Head(toPC).id \in 0 .. MaxRequests + MaxData
  BY <1>2, Bounds
<1>4. \E m \in PcMessages : replying' = <<m>>
  <2>1. CASE ReceiveControlRequest
    <3>1. PICK v \in Verdicts(Head(toPC).kind) :
            replying' = <<PcMessage("U", v, Head(toPC).id)>>
      BY <2>1 DEF ReceiveControlRequest
    <3>2. v \in 0 .. 3
      BY <1>2, <3>1 DEF Verdicts, Kinds, Ignore, Handle, Stall
    <3>3. PcMessage("U", v, Head(toPC).id) \in PcMessages
      BY <1>3, <3>2 DEF PcMessage, PcMessages, PcCommands
    <3> QED BY <3>1, <3>3
  <2>2. CASE ReceiveDescriptorRequest
    <3>1. PcMessage("D", NotAVerdict, Head(toPC).id) \in PcMessages
      BY <1>3 DEF PcMessage, PcMessages, PcCommands, NotAVerdict
    <3> QED BY <2>2, <3>1 DEF ReceiveDescriptorRequest
  <2> QED BY <2>1, <2>2
<1>5. replying' \in Seq(PcMessages) /\ Len(replying') <= 1
  BY <1>4
<1>6. configured' \in BOOLEAN
  BY PcTypes DEF ReceiveControlRequest, ReceiveDescriptorRequest
<1>7. PcTypeOK'
  BY <1>1, <1>5, <1>6, PcTypes, PcTypesBack
<1> QED BY <1>1, <1>7

LEMMA QueueReplyInv == ChannelsOK /\ PcTypeOK /\ QueueReply => ChannelsOK' /\ PcTypeOK'
<1> SUFFICES ASSUME ChannelsOK, PcTypeOK, QueueReply PROVE ChannelsOK' /\ PcTypeOK'
  OBVIOUS
<1>1. /\ replying # <<>> /\ Write(Head(replying)) /\ replying' = <<>>
      /\ written' = written /\ configured' = configured /\ attaches' = attaches
      /\ lost' = lost /\ toSim' = toSim /\ toPC' = toPC
  BY DEF QueueReply, channels
<1>2. Head(replying) \in PcMessages
  BY <1>1, PcTypes, HeadTailProperties
<1>3. messages' \in Seq(Entries)
  BY <1>1, <1>2, PcTypes, WriteType
<1>4. replying' \in Seq(PcMessages) /\ Len(replying') <= 1
  BY <1>1
<1>5. PcTypeOK'
  BY <1>1, <1>3, <1>4, PcTypes, PcTypesBack
<1> QED BY <1>1, <1>5 DEF ChannelsOK

LEMMA PcInv == ChannelsOK /\ PcTypeOK /\ PcNext => ChannelsOK' /\ PcTypeOK'
BY AttachInv, DataWrittenInv, SendInv, AckInv, ReplyInv, QueueReplyInv
   DEF PcNext, Reader

-----------------------------------------------------------------------------
(* The simulator.                                                          *)
PlaceOK == main \in {"receive", "handle", "usb", "io"} /\ task \in Tasks
PacketsOK ==
  /\ rx \in {"empty", "partial", "full", "shifted", "dead"}
  /\ buffer \in PcMessages /\ tx \in SimMessages
Requests == Seq([kind : Kinds, by : SUBSET PcMessages, done : BOOLEAN])
ControlOK ==
  /\ setup \in BOOLEAN /\ attached \in {"no", "new", "yes"} /\ table \in BOOLEAN
  /\ requests \in Requests
DataOK ==
  /\ bank \in {"none", "free", "busy"}
  /\ inBank \in Seq(Chunks) /\ hostData \in Seq(Chunks)
  /\ part \in 0 .. Banks /\ outBank \in BOOLEAN /\ outs \in 0 .. MaxOut

LEMMA SimTypes == SimTypeOK <=> PlaceOK /\ PacketsOK /\ ControlOK /\ DataOK
BY DEF SimTypeOK, PlaceOK, PacketsOK, ControlOK, DataOK, Requests

SimInv ==
  ChannelsOK /\ PlaceOK /\ PacketsOK /\ ControlOK /\ DataOK /\ RequestsKnown /\ BanksLeft

LEMMA StepParts ==
  ASSUME SimInv
  PROVE  /\ UNCHANGED <<main, task>> => PlaceOK'
         /\ UNCHANGED <<rx, buffer, tx>> => PacketsOK'
         /\ UNCHANGED <<setup, attached, table, requests>> => ControlOK'
         /\ UNCHANGED <<bank, inBank, hostData, part, outBank, outs>> => DataOK'
         /\ UNCHANGED channels => ChannelsOK'
         /\ UNCHANGED <<setup, task, requests>> => RequestsKnown'
         /\ UNCHANGED <<main, task, part>> => BanksLeft'
<1>1. UNCHANGED <<main, task>> => PlaceOK'
  BY DEF SimInv, PlaceOK
<1>2. UNCHANGED <<rx, buffer, tx>> => PacketsOK'
  BY DEF SimInv, PacketsOK
<1>3. UNCHANGED <<setup, attached, table, requests>> => ControlOK'
  BY DEF SimInv, ControlOK
<1>4. UNCHANGED <<bank, inBank, hostData, part, outBank, outs>> => DataOK'
  BY DEF SimInv, DataOK
<1>5. UNCHANGED channels => ChannelsOK'
  BY DEF SimInv, ChannelsOK, channels
<1>6. UNCHANGED <<setup, task, requests>> => RequestsKnown'
  BY DEF SimInv, RequestsKnown
<1>7. UNCHANGED <<main, task, part>> => BanksLeft'
  BY DEF SimInv, BanksLeft
<1> QED BY <1>1, <1>2, <1>3, <1>4, <1>5, <1>6, <1>7

LEMMA HostInv == SimInv /\ Host /\ UNCHANGED channels => SimInv'
<1> SUFFICES ASSUME SimInv, Host, UNCHANGED channels PROVE SimInv'
  OBVIOUS
<1>1. CASE HostRequest
  <2>1. UNCHANGED <<main, task>> /\ UNCHANGED <<rx, buffer, tx>>
        /\ UNCHANGED <<bank, inBank, hostData, part, outBank, outs>>
        /\ UNCHANGED <<main, task, part>>
    BY <1>1 DEF HostRequest
  <2>2. PICK k \in Kinds :
          requests' = Append(requests, [kind |-> k, by |-> {}, done |-> FALSE])
    BY <1>1, LinkAssumption DEF HostRequest
  <2>3. [kind |-> k, by |-> {}, done |-> FALSE]
          \in [kind : Kinds, by : SUBSET PcMessages, done : BOOLEAN]
    OBVIOUS
  <2>4. /\ requests \in Requests /\ Len(requests) < MaxRequests
        /\ Len(requests) \in Nat
    BY <1>1 DEF SimInv, ControlOK, Requests, HostRequest
  <2>5. requests' \in Requests /\ Len(requests') = Len(requests) + 1 /\ requests' # <<>>
    BY <2>2, <2>3, <2>4, AppendProperties DEF Requests
  <2>6. ControlOK'
    BY <2>5, <1>1 DEF SimInv, ControlOK, HostRequest
  <2>7. RequestsKnown'
    BY <2>4, <2>5, Bounds DEF RequestsKnown
  <2> QED BY <2>1, <2>6, <2>7, StepParts DEF SimInv
<1>2. CASE HostReadsIn
  <2>1. UNCHANGED <<main, task>> /\ UNCHANGED <<rx, buffer, tx>>
        /\ UNCHANGED <<setup, attached, table, requests>>
        /\ UNCHANGED <<main, task, part>> /\ UNCHANGED <<setup, task, requests>>
    BY <1>2 DEF HostReadsIn
  <2>2. hostData' \in Seq(Chunks)
    BY <1>2, ConcatProperties DEF HostReadsIn, SimInv, DataOK
  <2>3. DataOK'
    BY <1>2, <2>2 DEF HostReadsIn, SimInv, DataOK
  <2> QED BY <2>1, <2>3, StepParts DEF SimInv
<1>3. CASE HostSendsOut
  <2>1. UNCHANGED <<main, task>> /\ UNCHANGED <<rx, buffer, tx>>
        /\ UNCHANGED <<setup, attached, table, requests>>
        /\ UNCHANGED <<main, task, part>> /\ UNCHANGED <<setup, task, requests>>
    BY <1>3 DEF HostSendsOut
  <2>2. outs' \in 0 .. MaxOut
    BY <1>3, Bounds DEF HostSendsOut, SimInv, DataOK
  <2>3. DataOK'
    BY <1>3, <2>2 DEF HostSendsOut, SimInv, DataOK
  <2> QED BY <2>1, <2>3, StepParts DEF SimInv
<1>4. CASE HostResets
  <2>1. /\ UNCHANGED <<main, task>> /\ UNCHANGED <<rx, buffer, tx>>
        /\ UNCHANGED <<main, task, part>> /\ task' = task
        /\ requests' = requests /\ table' = table /\ part' = part
        /\ hostData' = hostData /\ outs' = outs
        /\ attached' = "yes" /\ setup' = FALSE
        /\ bank' = "none" /\ inBank' = <<>> /\ outBank' = FALSE
    BY <1>4 DEF HostResets
  <2>2. ControlOK' /\ RequestsKnown'
    BY <2>1 DEF SimInv, ControlOK, RequestsKnown
  <2>3. DataOK'
    <3>1. inBank' \in Seq(Chunks)
      BY <2>1, EmptySeq
    <3> QED BY <2>1, <3>1 DEF SimInv, DataOK
  <2> QED BY <2>1, <2>2, <2>3, StepParts DEF SimInv
<1> QED BY <1>1, <1>2, <1>3, <1>4 DEF Host

LEMMA ReceiveInv == SimInv /\ Receive => SimInv'
<1> SUFFICES ASSUME SimInv, Receive PROVE SimInv'
  OBVIOUS
<1>1. UNCHANGED <<main, task>> /\ UNCHANGED <<setup, attached, table, requests>>
      /\ UNCHANGED <<bank, inBank, hostData, part, outBank, outs>>
      /\ UNCHANGED <<main, task, part>> /\ UNCHANGED <<setup, task, requests>>
      /\ tx' = tx /\ toPC' = toPC
  BY DEF Receive
<1>2. /\ toSim \in Seq(PcMessages) /\ toSim # <<>>
      /\ Head(toSim) \in PcMessages /\ Tail(toSim) \in Seq(PcMessages)
  BY HeadTailProperties DEF Receive, SimInv, ChannelsOK
<1>3. /\ buffer \in PcMessages /\ tx \in SimMessages
      /\ rx \in {"empty", "partial", "full", "shifted", "dead"}
  BY DEF SimInv, PacketsOK
<1>4. toSim' \in Seq(PcMessages)
  BY <1>2 DEF Receive, ReceiveLength, ReceiveSome, ReceiveRest, ReceiveShifted
<1>5. rx' \in {"empty", "partial", "full", "shifted", "dead"}
  BY <1>3 DEF Receive, ReceiveLength, ReceiveSome, ReceiveRest, ReceiveShifted
<1>6. Mixed \in 0 .. MaxRequests + MaxData
  BY Bounds DEF Mixed
<1>7. buffer' \in PcMessages
  <2>1. CASE ReceiveLength
    BY <2>1, <1>3 DEF ReceiveLength
  <2>2. CASE ReceiveSome
    <3>1. PICK b \in {buffer.byte3, Head(toSim).byte3} :
            buffer' = PcMessage(Head(toSim).cmd, b, Mixed)
      BY <2>2 DEF ReceiveSome
    <3>2. b \in 0 .. 3 /\ Head(toSim).cmd \in PcCommands \cup {"?"}
      BY <1>2, <1>3, <3>1 DEF PcMessages
    <3> QED BY <3>1, <3>2, <1>6 DEF PcMessage, PcMessages
  <2>3. CASE ReceiveRest
    BY <2>3, <1>2 DEF ReceiveRest
  <2>4. CASE ReceiveShifted
    BY <2>4, <1>6 DEF ReceiveShifted, PcMessage, PcMessages
  <2> QED BY <2>1, <2>2, <2>3, <2>4 DEF Receive
<1>8. PacketsOK'
  BY <1>1, <1>3, <1>5, <1>7 DEF PacketsOK
<1>9. ChannelsOK'
  BY <1>1, <1>4 DEF SimInv, ChannelsOK
<1> QED BY <1>1, <1>8, <1>9, StepParts DEF SimInv

LEMMA AnswerType ==
  ASSUME NEW cmd \in {"A", "E", "C"}, NEW got \in PcCommands \cup {"?"},
         NEW want \in PcCommands \cup {"?"}
  PROVE  Answer(cmd, got, want) \in SimMessages
BY DEF Answer, SimMessages

LEMMA FinishSendInv == SimInv /\ FinishSend => SimInv'
<1> SUFFICES ASSUME SimInv, FinishSend PROVE SimInv'
  OBVIOUS
<1>1. /\ UNCHANGED <<setup, attached, table, requests>>
      /\ UNCHANGED <<bank, inBank, hostData, part, outBank, outs>>
      /\ rx' = rx /\ buffer' = buffer /\ toSim' = toSim
      /\ setup' = setup /\ requests' = requests /\ part' = part
      /\ toPC' = Append(toPC, tx)
  BY DEF FinishSend
<1>2. PacketsOK /\ ChannelsOK /\ PlaceOK /\ RequestsKnown /\ BanksLeft
  BY DEF SimInv
<1>3. ChannelsOK'
  BY <1>1, <1>2, AppendProperties DEF ChannelsOK, PacketsOK
<1>4. \/ tx' = tx \/ tx' = Answer("A", buffer.cmd, "?")
  BY DEF FinishSend, AckBuffer, StartSend
<1>5. Answer("A", buffer.cmd, "?") \in SimMessages
  <2>1. buffer.cmd \in PcCommands \cup {"?"}
    BY <1>2 DEF PacketsOK, PcMessages
  <2> QED BY <2>1, AnswerType
<1>6. PacketsOK'
  BY <1>1, <1>2, <1>4, <1>5 DEF PacketsOK
<1>7. \/ task = "sendC" /\ task' = "sendAck" /\ main' = main
      \/ task = "sendAck" /\ task' = "idle" /\ main' = "usb"
      \/ task \in {"sendU", "nackU"} /\ task' = "waitU" /\ main' = main
      \/ task \in {"sendD", "nackD"} /\ task' = "waitD" /\ main' = main
      \/ task = "ackU" /\ task' = "decideU" /\ main' = main
      \/ task = "ackD" /\ task' = "decideD" /\ main' = main
      \/ task = "sendI" /\ task' = "idle" /\ main' = "receive"
  BY DEF FinishSend, AckBuffer, StartSend
<1>8. PlaceOK'
  BY <1>2, <1>7 DEF PlaceOK, Tasks, Sending, Waiting
<1>9. RequestsKnown'
  BY <1>1, <1>2, <1>7 DEF RequestsKnown, Asking
<1>10. BanksLeft'
  BY <1>1, <1>2, <1>7 DEF BanksLeft, Asking
<1> QED BY <1>1, <1>3, <1>6, <1>8, <1>9, <1>10, StepParts DEF SimInv

LEMMA WaitForPacketInv == SimInv /\ WaitForPacket => SimInv'
<1> SUFFICES ASSUME SimInv, WaitForPacket PROVE SimInv'
  OBVIOUS
<1>1. /\ UNCHANGED <<setup, attached, table, requests>> /\ UNCHANGED channels
      /\ UNCHANGED <<bank, inBank, hostData, part, outBank, outs>>
      /\ rx' = "empty" /\ buffer' = buffer /\ main' = main
      /\ setup' = setup /\ requests' = requests /\ part' = part
  BY DEF WaitForPacket
<1>2. PacketsOK /\ PlaceOK /\ RequestsKnown /\ BanksLeft
  BY DEF SimInv
<1>3. \E cmd \in {"U", "D"} :
        \/ tx' = Answer("A", cmd, cmd) \/ tx' = Answer("E", buffer.cmd, cmd)
  BY DEF WaitForPacket, StartSend
<1>4. task \in {"waitU", "waitD"} /\ task' \in {"ackU", "ackD", "nackU", "nackD"}
  BY DEF WaitForPacket, StartSend, Waiting
<1>5. tx' \in SimMessages
  <2>1. buffer.cmd \in PcCommands \cup {"?"} /\ {"U", "D"} \subseteq PcCommands
    BY <1>2 DEF PacketsOK, PcMessages, PcCommands
  <2> QED BY <2>1, <1>3, AnswerType
<1>6. PacketsOK'
  BY <1>1, <1>2, <1>5 DEF PacketsOK
<1>7. PlaceOK'
  BY <1>1, <1>2, <1>4 DEF PlaceOK, Tasks, Sending
<1>8. RequestsKnown'
  BY <1>1, <1>2, <1>4 DEF RequestsKnown, Asking
<1>9. BanksLeft'
  BY <1>1, <1>2, <1>4 DEF BanksLeft, Asking
<1> QED BY <1>1, <1>6, <1>7, <1>8, <1>9, StepParts DEF SimInv

LEMMA LoopInv == SimInv /\ (EndReceive \/ HandleNothing) => SimInv'
<1> SUFFICES ASSUME SimInv, EndReceive \/ HandleNothing PROVE SimInv'
  OBVIOUS
<1>1. /\ UNCHANGED <<setup, attached, table, requests>> /\ UNCHANGED channels
      /\ UNCHANGED <<bank, inBank, hostData, part, outBank, outs>>
      /\ UNCHANGED <<rx, buffer, tx>> /\ UNCHANGED <<setup, task, requests>>
      /\ task' = task /\ part' = part
  BY DEF EndReceive, HandleNothing
<1>2. \/ main = "receive" /\ main' = "handle"
      \/ task = "idle" /\ main' = "usb"
  BY DEF EndReceive, HandleNothing
<1>3. PlaceOK'
  BY <1>1, <1>2 DEF SimInv, PlaceOK
<1>4. BanksLeft'
  BY <1>1, <1>2 DEF SimInv, BanksLeft, Asking
<1> QED BY <1>1, <1>3, <1>4, StepParts DEF SimInv

(* Bank p of the packet in the buffer is a chunk. *)
LEMMA ChunkType ==
  ASSUME SimInv, NEW p \in 1 .. Banks
  PROVE  <<[msg |-> buffer, part |-> p]>> \in Seq(Chunks)
<1>1. [msg |-> buffer, part |-> p] \in Chunks
  BY DEF SimInv, PacketsOK, Chunks
<1> HIDE DEF Chunks
<1> QED BY <1>1

LEMMA HandlePacketInv == SimInv /\ HandleReceivedPacket => SimInv'
<1> SUFFICES ASSUME SimInv, HandleReceivedPacket PROVE SimInv'
  OBVIOUS
<1>1. /\ setup' = setup /\ requests' = requests /\ table' = table
      /\ UNCHANGED channels /\ rx' = "empty" /\ buffer' = buffer
      /\ main = "handle" /\ main' = main /\ task = "idle"
      /\ hostData' = hostData /\ outBank' = outBank /\ outs' = outs
  BY DEF HandleReceivedPacket
<1>2. PacketsOK /\ PlaceOK /\ ControlOK /\ DataOK /\ RequestsKnown /\ BanksLeft
  BY DEF SimInv
<1>3. /\ tx' \in {tx, Answer("A", buffer.cmd, "?"), Answer("C", buffer.cmd, "?")}
      /\ task' \in {"sendAck", "sendC", "nested"}
  BY DEF HandleReceivedPacket, AckBuffer, StartSend
<1>4. /\ attached' \in {attached, "no", "new"}
      /\ \/ bank' = bank /\ inBank' = inBank /\ part' = part
         \/ bank' = "busy" /\ inBank' = <<[msg |-> buffer, part |-> 1]>> /\ part' = 1
      /\ task' = "nested" => Banks # 1 /\ part' = 1
  BY DEF HandleReceivedPacket, Attachment, AckBuffer, StartSend, FillBank
<1>5. PacketsOK'
  <2>1. buffer.cmd \in PcCommands \cup {"?"}
    BY <1>2 DEF PacketsOK, PcMessages
  <2>2. tx' \in SimMessages
    BY <2>1, <1>2, <1>3, AnswerType DEF PacketsOK
  <2> QED BY <2>2, <1>1, <1>2 DEF PacketsOK
<1>6. PlaceOK'
  BY <1>1, <1>2, <1>3 DEF PlaceOK, Tasks, Sending
<1>7. ControlOK'
  BY <1>1, <1>2, <1>4 DEF ControlOK
<1>8. DataOK'
  <2>1. 1 \in 1 .. Banks /\ 1 \in 0 .. Banks
    BY Bounds
  <2>2. <<[msg |-> buffer, part |-> 1]>> \in Seq(Chunks)
    BY <2>1, ChunkType
  <2> QED BY <2>1, <2>2, <1>1, <1>2, <1>4 DEF DataOK
<1>9. RequestsKnown'
  BY <1>1, <1>2, <1>3 DEF RequestsKnown, Asking
<1>10. BanksLeft'
  BY <1>1, <1>3, <1>4, Bounds DEF BanksLeft, Asking
<1> QED BY <1>1, <1>5, <1>6, <1>7, <1>8, <1>9, <1>10, StepParts DEF SimInv

LEMMA CurrentType ==
  ASSUME SimInv, requests # <<>>
  PROVE  /\ Current \in 1 .. MaxRequests /\ Current = Len(requests)
         /\ requests[Current].kind \in Kinds
         /\ requests[Current]
              \in [kind : Kinds, by : SUBSET PcMessages, done : BOOLEAN]
<1>1. requests \in Requests /\ Len(requests) <= MaxRequests
  BY DEF SimInv, ControlOK, RequestsKnown
<1>2. Len(requests) \in Nat /\ Len(requests) # 0
  BY <1>1 DEF Requests
<1>3. Current \in 1 .. Len(requests) /\ Current \in 1 .. MaxRequests
  BY <1>1, <1>2, Bounds DEF Current
<1>4. requests[Current] \in [kind : Kinds, by : SUBSET PcMessages, done : BOOLEAN]
  BY <1>1, <1>3, ElementOfSeq DEF Requests
<1> QED BY <1>3, <1>4 DEF Current

LEMMA AskType ==
  ASSUME NEW cmd \in {"U", "D"}, NEW r \in 1 .. MaxRequests, NEW k \in Kinds
  PROVE  Ask(cmd, r, k) \in SimMessages
BY DEF Ask, SimMessages

LEMMA UsbTaskInv == SimInv /\ UsbTask => SimInv'
<1> SUFFICES ASSUME SimInv, UsbTask PROVE SimInv'
  OBVIOUS
<1>1. /\ attached' = attached /\ table' = table /\ requests' = requests
      /\ UNCHANGED <<bank, inBank, hostData, part, outBank, outs>>
      /\ UNCHANGED channels /\ rx' = rx /\ buffer' = buffer /\ part' = part
      /\ \/ main = "usb" /\ task = "idle"
         \/ task = "nested"
  BY DEF UsbTask
<1>2. PacketsOK /\ PlaceOK /\ ControlOK /\ RequestsKnown /\ BanksLeft
  BY DEF SimInv
<1>3. CASE setup
  <2>1. /\ tx' = Ask("U", Current, requests[Current].kind) /\ task' = "sendU"
        /\ setup' = FALSE /\ main' = main
    BY <1>3 DEF UsbTask, StartSend
  <2>2. requests # <<>>
    BY <1>2, <1>3 DEF RequestsKnown
  <2>3. tx' \in SimMessages
    BY <2>1, <2>2, CurrentType, AskType
  <2>4. PacketsOK'
    BY <2>3, <1>1, <1>2 DEF PacketsOK
  <2>5. PlaceOK'
    BY <2>1, <1>2 DEF PlaceOK, Tasks, Sending
  <2>6. ControlOK'
    BY <2>1, <1>1, <1>2 DEF ControlOK
  <2>7. RequestsKnown'
    BY <2>2, <1>1, <1>2 DEF RequestsKnown
  <2>8. BanksLeft'
    BY <2>1, <1>1, <1>2 DEF BanksLeft
  <2> QED BY <2>4, <2>5, <2>6, <2>7, <2>8, <1>1, StepParts DEF SimInv
<1>4. CASE ~setup
  <2>1. /\ tx' = tx /\ setup' = setup
        /\ \/ main = "usb" /\ task' = "idle" /\ main' = "io"
           \/ main # "usb" /\ task' = "write" /\ main' = main
    BY <1>4 DEF UsbTask
  <2>2. PacketsOK'
    BY <2>1, <1>1, <1>2 DEF PacketsOK
  <2>3. PlaceOK'
    BY <2>1, <1>2 DEF PlaceOK, Tasks
  <2>4. ControlOK'
    BY <2>1, <1>1, <1>2 DEF ControlOK
  <2>5. RequestsKnown'
    BY <2>1, <1>1, <1>2 DEF RequestsKnown, Asking
  <2>6. BanksLeft'
    BY <2>1, <1>1, <1>2 DEF BanksLeft, Asking
  <2> QED BY <2>2, <2>3, <2>4, <2>5, <2>6, <1>1, StepParts DEF SimInv
<1> QED BY <1>3, <1>4

LEMMA WriteStreamInv == SimInv /\ WriteStream => SimInv'
<1> SUFFICES ASSUME SimInv, WriteStream PROVE SimInv'
  OBVIOUS
<1>1. /\ UNCHANGED <<setup, attached, table, requests>> /\ UNCHANGED channels
      /\ setup' = setup /\ requests' = requests /\ main' = main /\ task = "write"
      /\ buffer' = buffer /\ hostData' = hostData /\ outBank' = outBank /\ outs' = outs
  BY DEF WriteStream
<1>2. PacketsOK /\ PlaceOK /\ DataOK /\ RequestsKnown /\ BanksLeft
  BY DEF SimInv
<1>3. /\ tx' \in {tx, Answer("A", buffer.cmd, "?")}
      /\ rx' \in {rx, "shifted", "dead"}
      /\ task' \in {"sendAck", "nested"}
      /\ \/ bank' = bank /\ inBank' = inBank /\ part' = part
         \/ /\ bank' = "busy" /\ part' = part + 1
            /\ inBank' = <<[msg |-> buffer, part |-> part + 1]>>
      /\ task' = "nested" => part' = part + 1 /\ part + 1 # Banks
  BY DEF WriteStream, AckBuffer, StartSend, FillBank, RestartCount
<1>4. part \in 0 .. Banks /\ part < Banks
  BY <1>1, <1>2 DEF BanksLeft, DataOK
<1>5. PacketsOK'
  <2>1. buffer.cmd \in PcCommands \cup {"?"}
    BY <1>2 DEF PacketsOK, PcMessages
  <2>2. tx' \in SimMessages
    BY <2>1, <1>2, <1>3, AnswerType DEF PacketsOK
  <2> QED BY <2>2, <1>1, <1>2, <1>3 DEF PacketsOK
<1>6. PlaceOK'
  BY <1>1, <1>2, <1>3 DEF PlaceOK, Tasks, Sending
<1>7. DataOK'
  <2>1. part + 1 \in 1 .. Banks /\ part + 1 \in 0 .. Banks
    BY <1>4, Bounds
  <2>2. <<[msg |-> buffer, part |-> part + 1]>> \in Seq(Chunks)
    BY <2>1, ChunkType
  <2> QED BY <2>1, <2>2, <1>1, <1>2, <1>3 DEF DataOK
<1>8. RequestsKnown'
  BY <1>1, <1>2, <1>3 DEF RequestsKnown, Asking
<1>9. BanksLeft'
  BY <1>1, <1>2, <1>3, <1>4, Bounds DEF BanksLeft, Asking
<1> QED BY <1>1, <1>5, <1>6, <1>7, <1>8, <1>9, StepParts DEF SimInv

LEMMA IOInv == SimInv /\ USBIO_Task => SimInv'
<1> SUFFICES ASSUME SimInv, USBIO_Task PROVE SimInv'
  OBVIOUS
<1>1. /\ UNCHANGED <<setup, attached, table, requests>> /\ UNCHANGED channels
      /\ rx' = rx /\ buffer' = buffer /\ setup' = setup /\ requests' = requests
      /\ bank' = bank /\ inBank' = inBank /\ hostData' = hostData
      /\ part' = part /\ outs' = outs
      /\ main' \in {"io", "receive"} /\ task' \in {"idle", "sendI"}
      /\ outBank' \in {outBank, FALSE} /\ tx' \in {tx, Ask("I", outs, "data")}
      /\ main = "io"
  BY DEF USBIO_Task, StartSend
<1>2. PacketsOK /\ PlaceOK /\ DataOK /\ RequestsKnown /\ BanksLeft
  BY DEF SimInv
<1>3. PacketsOK'
  <2>1. Ask("I", outs, "data") \in SimMessages
    BY <1>2 DEF DataOK, Ask, SimMessages
  <2> QED BY <2>1, <1>1, <1>2 DEF PacketsOK
<1>4. PlaceOK'
  BY <1>1 DEF PlaceOK, Tasks, Sending
<1>5. DataOK'
  BY <1>1, <1>2 DEF DataOK
<1>6. RequestsKnown'
  BY <1>1, <1>2 DEF RequestsKnown, Asking
<1>7. BanksLeft'
  BY <1>1, <1>2 DEF BanksLeft, Asking
<1> QED BY <1>1, <1>3, <1>4, <1>5, <1>6, <1>7, StepParts DEF SimInv

(* Recording which reply was used leaves the list of requests as long. *)
LEMMA UseType ==
  ASSUME SimInv, requests # <<>>, NEW done \in BOOLEAN, Use(done)
  PROVE  requests' \in Requests /\ Len(requests') = Len(requests) /\ requests' # <<>>
<1>1. Reply \in PcMessages
  <2>1. buffer \in PcMessages /\ Mixed \in 0 .. MaxRequests + MaxData
    BY Bounds DEF SimInv, PacketsOK, Mixed
  <2> QED BY <2>1 DEF Reply, PcMessages
<1> DEFINE q == [requests[Current] EXCEPT !.by = @ \cup {Reply}, !.done = done]
<1>2. q \in [kind : Kinds, by : SUBSET PcMessages, done : BOOLEAN]
  BY <1>1, CurrentType
<1>3. requests' = [requests EXCEPT ![Current] = q]
  BY DEF Use
<1>4. requests \in Requests /\ Current \in 1 .. Len(requests) /\ Len(requests) \in Nat
      /\ Len(requests) # 0
  BY CurrentType DEF SimInv, ControlOK, Requests
<1> HIDE DEF q
<1>5. requests' \in Requests /\ Len(requests') = Len(requests)
  BY <1>2, <1>3, <1>4, ExceptSeq DEF Requests
<1> QED BY <1>4, <1>5

(* A step that uses a reply and returns, or asks on. *)
LEMMA ReturnInv ==
  ASSUME SimInv, task \in Asking, Return
  PROVE  PlaceOK' /\ (part' = part => BanksLeft') /\ task' \in {"idle", "write"}
<1>1. PlaceOK /\ BanksLeft
  BY DEF SimInv
<1>2. \/ main = "usb" /\ main' = "io" /\ task' = "idle"
      \/ main # "usb" /\ main' = main /\ task' = "write"
  BY DEF Return
<1> QED BY <1>1, <1>2 DEF PlaceOK, Tasks, BanksLeft, Asking

LEMMA DecideControlInv == SimInv /\ DecideControl => SimInv'
<1> SUFFICES ASSUME SimInv, DecideControl PROVE SimInv'
  OBVIOUS
<1>1. /\ UNCHANGED channels /\ rx' = rx /\ buffer' = buffer /\ setup' = setup
      /\ attached' = attached /\ table' = table /\ part' = part /\ outBank' = outBank
      /\ outs' = outs /\ hostData' = hostData /\ task = "decideU"
      /\ bank' \in {bank, "free"} /\ inBank' \in {inBank, <<>>}
  BY DEF DecideControl, HangInRequest, EndRequest, AskDescriptor
<1>2. PacketsOK /\ PlaceOK /\ ControlOK /\ DataOK /\ RequestsKnown /\ BanksLeft
  BY DEF SimInv
<1>3. requests # <<>>
  BY <1>1, <1>2 DEF RequestsKnown, Asking
<1>4. \/ Use(TRUE) /\ Return /\ tx' = tx
      \/ Use(FALSE) /\ tx' = Ask("D", Current, "descriptor") /\ task' = "sendD"
         /\ main' = main
      \/ Use(FALSE) /\ tx' = tx /\ task' = "stuck" /\ main' = main
  BY DEF DecideControl, HangInRequest, EndRequest, AskDescriptor, StartSend
<1>5. requests' \in Requests /\ Len(requests') = Len(requests) /\ requests' # <<>>
  BY <1>3, <1>4, UseType
<1>6. ControlOK'
  BY <1>1, <1>2, <1>5 DEF ControlOK
<1>7. RequestsKnown'
  BY <1>2, <1>5 DEF RequestsKnown
<1>8. DataOK'
  <2>1. inBank' \in Seq(Chunks)
    BY <1>1, <1>2, EmptySeq DEF DataOK
  <2>2. bank' \in {"none", "free", "busy"}
    BY <1>1, <1>2 DEF DataOK
  <2> QED BY <2>1, <2>2, <1>1, <1>2 DEF DataOK
<1>9. CASE Return /\ tx' = tx
  <2>1. PlaceOK' /\ BanksLeft'
    BY <1>1, <1>9, ReturnInv DEF Asking
  <2>2. PacketsOK'
    BY <1>1, <1>2, <1>9 DEF PacketsOK
  <2> QED BY <2>1, <2>2, <1>1, <1>6, <1>7, <1>8, StepParts DEF SimInv
<1>10. CASE tx' = Ask("D", Current, "descriptor") /\ task' = "sendD" /\ main' = main
  <2>1. PlaceOK'
    BY <1>2, <1>10 DEF PlaceOK, Tasks, Sending
  <2>2. BanksLeft'
    BY <1>1, <1>2, <1>10 DEF BanksLeft, Asking
  <2>3. tx' \in SimMessages
    BY <1>3, <1>10, CurrentType, AskType DEF Kinds
  <2>4. PacketsOK'
    BY <2>3, <1>1, <1>2 DEF PacketsOK
  <2> QED BY <2>1, <2>2, <2>4, <1>1, <1>6, <1>7, <1>8, StepParts DEF SimInv
<1>11. CASE tx' = tx /\ task' = "stuck" /\ main' = main
  <2>1. PlaceOK' /\ PacketsOK'
    BY <1>1, <1>2, <1>11 DEF PlaceOK, PacketsOK, Tasks
  <2>2. BanksLeft'
    BY <1>2, <1>11 DEF BanksLeft, Asking
  <2> QED BY <2>1, <2>2, <1>1, <1>6, <1>7, <1>8, StepParts DEF SimInv
<1> QED BY <1>4, <1>9, <1>10, <1>11

LEMMA DecideDescriptorInv == SimInv /\ DecideDescriptor => SimInv'
<1> SUFFICES ASSUME SimInv, DecideDescriptor PROVE SimInv'
  OBVIOUS
<1>1. /\ UNCHANGED <<bank, inBank, hostData, part, outBank, outs>>
      /\ UNCHANGED channels /\ UNCHANGED <<rx, buffer, tx>> /\ setup' = setup
      /\ attached' = attached /\ part' = part /\ task = "decideD"
      /\ table' \in BOOLEAN
      /\ \/ Use(TRUE) /\ Return
         \/ Use(FALSE) /\ task' = "stuck" /\ main' = main
  BY DEF DecideDescriptor
<1>2. ControlOK /\ RequestsKnown
  BY DEF SimInv
<1>3. requests # <<>>
  BY <1>1, <1>2 DEF RequestsKnown, Asking
<1>4. requests' \in Requests /\ Len(requests') = Len(requests) /\ requests' # <<>>
  BY <1>1, <1>3, UseType
<1>5. ControlOK'
  BY <1>1, <1>2, <1>4 DEF ControlOK
<1>6. RequestsKnown'
  BY <1>2, <1>4 DEF RequestsKnown
<1>7. PlaceOK' /\ BanksLeft'
  <2>1. CASE Return
    BY <1>1, <2>1, ReturnInv DEF Asking
  <2>2. CASE task' = "stuck" /\ main' = main
    BY <2>2 DEF SimInv, PlaceOK, Tasks, BanksLeft, Asking
  <2> QED BY <1>1, <2>1, <2>2
<1> QED BY <1>1, <1>5, <1>6, <1>7, StepParts DEF SimInv

-----------------------------------------------------------------------------
LEMMA SimInitInv == SimInit /\ toSim = <<>> /\ toPC = <<>> => SimInv
<1> SUFFICES ASSUME SimInit, toSim = <<>>, toPC = <<>> PROVE SimInv
  OBVIOUS
<1>1. /\ PcMessage("?", NotAVerdict, 0) \in PcMessages
      /\ Answer("A", "?", "?") \in SimMessages
  BY Bounds, AnswerType DEF PcMessage, PcMessages, NotAVerdict
<1>2. PacketsOK /\ PlaceOK
  BY <1>1 DEF SimInit, PacketsOK, PlaceOK, Tasks
<1>3. ControlOK /\ RequestsKnown
  <2>1. requests = <<>> /\ requests \in Requests /\ Len(requests) = 0
    BY EmptySeq DEF SimInit, Requests
  <2>2. ControlOK
    BY <2>1 DEF SimInit, ControlOK
  <2> QED BY <2>1, <2>2, Bounds DEF SimInit, RequestsKnown, Asking
<1>4. DataOK /\ BanksLeft
  <2>1. inBank \in Seq(Chunks) /\ hostData \in Seq(Chunks)
    BY EmptySeq DEF SimInit
  <2>2. part \in 0 .. Banks /\ outs \in 0 .. MaxOut
    BY Bounds DEF SimInit
  <2> QED BY <2>1, <2>2 DEF SimInit, DataOK, BanksLeft, Asking
<1> QED BY <1>2, <1>3, <1>4 DEF SimInv, ChannelsOK

LEMMA SimNextInv == SimInv /\ SimNext => SimInv'
BY FinishSendInv, WaitForPacketInv, LoopInv, HandlePacketInv, UsbTaskInv,
   WriteStreamInv, IOInv, DecideControlInv, DecideDescriptorInv, ReceiveInv
   DEF SimNext, SimLoop

(* Reset gives every request up and leaves no trace of it in the firmware. *)
LEMMA ResetInv == SimInv /\ PcTypeOK /\ Reset => SimInv' /\ PcTypeOK'
<1> SUFFICES ASSUME SimInv, PcTypeOK, Reset PROVE SimInv' /\ PcTypeOK'
  OBVIOUS
<1>1. /\ toSim' = <<>> /\ toPC' = <<>> /\ UNCHANGED pcVars
      /\ hostData' = hostData /\ outs' = outs
      /\ main' = "receive" /\ task' = "idle" /\ rx' = "empty"
      /\ buffer' = PcMessage("?", NotAVerdict, 0) /\ tx' = Answer("A", "?", "?")
      /\ setup' = FALSE /\ attached' = "no" /\ table' = FALSE
      /\ bank' = "none" /\ inBank' = <<>> /\ part' = 0 /\ outBank' = FALSE
  BY DEF Reset, Restart
<1>2. ControlOK /\ DataOK /\ RequestsKnown
  BY DEF SimInv
<1>3. PlaceOK' /\ PacketsOK'
  <2>1. /\ PcMessage("?", NotAVerdict, 0) \in PcMessages
        /\ Answer("A", "?", "?") \in SimMessages
    BY Bounds, AnswerType DEF PcMessage, PcMessages, NotAVerdict
  <2> QED BY <1>1, <2>1 DEF PacketsOK, PlaceOK, Tasks
<1>4. requests' \in Requests /\ Len(requests') = Len(requests)
  <2> DEFINE Request == [kind : Kinds, by : SUBSET PcMessages, done : BOOLEAN]
             f == [r \in DOMAIN requests |-> [requests[r] EXCEPT !.done = TRUE]]
  <2>1. requests \in Seq(Request)
    BY <1>2 DEF ControlOK, Requests
  <2>2. Len(requests) \in Nat /\ DOMAIN requests = 1 .. Len(requests)
    BY <2>1
  <2>3. \A r \in 1 .. Len(requests) : [requests[r] EXCEPT !.done = TRUE] \in Request
    <3>1. \A r \in 1 .. Len(requests) : requests[r] \in Request
      BY <2>1, ElementOfSeq
    <3> QED BY <3>1
  <2> HIDE DEF Request
  <2>4. f \in Seq(Request) /\ Len(f) = Len(requests)
    BY <2>2, <2>3
  <2>5. requests' = f
    BY DEF Reset
  <2> QED BY <2>4, <2>5 DEF Requests, Request
<1>5. ControlOK' /\ RequestsKnown'
  BY <1>1, <1>2, <1>4 DEF ControlOK, RequestsKnown, Asking
<1>6. DataOK' /\ BanksLeft'
  <2>1. inBank' \in Seq(Chunks) /\ part' \in 0 .. Banks
    BY <1>1, EmptySeq, Bounds
  <2> QED BY <1>1, <1>2, <2>1 DEF DataOK, BanksLeft, Asking
<1>7. PcTypeOK'
  BY <1>1 DEF pcVars, PcTypeOK
<1>8. ChannelsOK'
  BY <1>1 DEF ChannelsOK
<1> QED BY <1>3, <1>5, <1>6, <1>7, <1>8 DEF SimInv

LEMMA ResetsInv == ResetsOK /\ [Next]_vars => ResetsOK'
BY Bounds DEF ResetsOK, Next, PcStep, SimStep, HostStep, Reset, vars

LEMMA LinkNextInv == SimInv /\ PcTypeOK /\ [Next]_vars => SimInv' /\ PcTypeOK'
<1> SUFFICES ASSUME SimInv, PcTypeOK, [Next]_vars PROVE SimInv' /\ PcTypeOK'
  OBVIOUS
<1>1. CASE PcStep
  <2>1. /\ UNCHANGED <<main, task>> /\ UNCHANGED <<rx, buffer, tx>>
        /\ UNCHANGED <<setup, attached, table, requests>>
        /\ UNCHANGED <<bank, inBank, hostData, part, outBank, outs>>
        /\ UNCHANGED <<setup, task, requests>> /\ UNCHANGED <<main, task, part>>
    BY <1>1 DEF PcStep, simVars
  <2>2. ChannelsOK' /\ PcTypeOK'
    BY <1>1, PcInv DEF PcStep, SimInv
  <2> QED BY <2>1, <2>2, StepParts DEF SimInv
<1>2. CASE UNCHANGED pcVars /\ (SimNext \/ (Host /\ UNCHANGED channels))
  <2>1. PcTypeOK'
    BY <1>2 DEF pcVars, PcTypeOK
  <2> QED BY <1>2, <2>1, SimNextInv, HostInv
<1>3. CASE UNCHANGED vars
  <2>1. /\ UNCHANGED <<main, task>> /\ UNCHANGED <<rx, buffer, tx>>
        /\ UNCHANGED <<setup, attached, table, requests>> /\ UNCHANGED channels
        /\ UNCHANGED <<bank, inBank, hostData, part, outBank, outs>>
        /\ UNCHANGED <<setup, task, requests>> /\ UNCHANGED <<main, task, part>>
    BY <1>3 DEF vars, simVars
  <2>2. PcTypeOK'
    BY <1>3 DEF vars, pcVars, PcTypeOK
  <2> QED BY <2>1, <2>2, StepParts DEF SimInv
<1> QED BY <1>1, <1>2, <1>3, ResetInv DEF Next, SimStep, HostStep

-----------------------------------------------------------------------------
(* LinkInv is the invariant; it is inductive. *)
LEMMA LinkInvParts == LinkInv <=> SimInv /\ PcTypeOK /\ ResetsOK
BY SimTypes DEF LinkInv, SimInv

LEMMA LinkInvariant == Spec => []LinkInv
<1>1. Init => LinkInv
  <2> SUFFICES ASSUME Init PROVE LinkInv
    OBVIOUS
  <2>1. PcTypeOK
    <3>1. messages \in Seq(Entries) /\ replying \in Seq(PcMessages) /\ Len(replying) = 0
      BY EmptySeq DEF Init, PcInit
    <3>2. written = 0 /\ attaches = 0 /\ lost = 0
      BY DEF Init, PcInit
    <3>3. /\ written \in 0 .. MaxData /\ attaches \in 0 .. MaxAttach
          /\ lost \in 0 .. MaxLost
      BY <3>2, Bounds
    <3>4. configured \in BOOLEAN
      BY DEF Init, PcInit
    <3> QED BY <3>1, <3>3, <3>4 DEF PcTypeOK, Entries
  <2>2. ResetsOK
    BY Bounds DEF Init, ResetsOK
  <2> QED BY <2>1, <2>2, SimInitInv, LinkInvParts DEF Init
<1>2. LinkInv /\ [Next]_vars => LinkInv'
  <2>1. LinkInv' <=> SimInv' /\ PcTypeOK' /\ ResetsOK'
    BY LinkInvParts, PTL
  <2> QED BY <2>1, LinkNextInv, ResetsInv, LinkInvParts
<1> QED BY <1>1, <1>2, PTL DEF Spec

(* TypeOK: every packet either side puts on the link is well formed, every *)
(* reply and question names a request the host made, and no bank beyond the*)
(* last is written.                                                        *)
THEOREM TypeCorrect == Spec => []TypeOK
<1>1. LinkInv => TypeOK
  BY DEF LinkInv, TypeOK, ChannelsOK, ResetsOK
<1> QED BY <1>1, LinkInvariant, PTL
=============================================================================
