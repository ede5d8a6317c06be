------------------------------ MODULE PcQueue ------------------------------
(***************************************************************************)
(* USBSimulatorDevice.cs: the application's queue of messages and its three*)
(* threads.  The application thread and the emulated device append         *)
(* messages, the _SendMessages thread writes the first one that is         *)
(* ReadyToSend, and the reader callback removes, re-marks or appends       *)
(* messages as packets arrive.  Each holds the lock on _messages for one   *)
(* action below; between two actions any other thread may run.             *)
(***************************************************************************)
EXTENDS LinkMessages, SequencesExt

VARIABLES
  messages,     \* _messages: the list of [data, status]
  replying,     \* the reply the reader callback has built and not yet queued
  written,      \* pieces of endpoint data written so far
  configured,   \* the device's _configured: it saw SET_CONFIGURATION
  attaches,     \* AttachDevice and DetachDevice calls so far
  lost          \* writes that failed so far

pcVars == <<messages, replying, written, configured, attaches, lost>>

PcTypeOK ==
  /\ messages \in Seq([data : PcMessages, status : {"ReadyToSend", "PendingResponse"}])
  /\ replying \in Seq(PcMessages) /\ Len(replying) <= 1
  /\ written \in 0 .. MaxData
  /\ configured \in BOOLEAN
  /\ attaches \in 0 .. MaxAttach
  /\ lost \in 0 .. MaxLost

PcInit ==
  /\ messages = <<>> /\ replying = <<>>
  /\ written = 0 /\ attaches = 0 /\ lost = 0
  /\ configured = FALSE

(* _Write *)
Write(m) == messages' = Append(messages, [data |-> m, status |-> "ReadyToSend"])

AttachDevice ==
  /\ attaches < MaxAttach
  /\ attaches' = attaches + 1
  /\ Write(PcMessage("S", 1, 0))
  /\ UNCHANGED <<replying, written, configured, lost, channels>>

DetachDevice ==
  /\ attaches < MaxAttach
  /\ attaches' = attaches + 1
  /\ Write(PcMessage("S", 0, 0))
  /\ UNCHANGED <<replying, written, configured, lost, channels>>

(* A thread of the emulated device writes the next piece of data, once the *)
(* device has seen the SET_CONFIGURATION request.                          *)
WriteOutgoingData ==
  /\ configured /\ written < MaxData
  /\ written' = written + 1
  /\ Write(PcMessage("O", 1, written + 1))
  /\ UNCHANGED <<replying, configured, attaches, lost, channels>>

(* One turn of _SendMessages that finds something to send. The entry is    *)
(* marked before the write, and a write that fails is not noticed.         *)
FirstReady == SelectInSeq(messages, LAMBDA e : e.status = "ReadyToSend")

(* Mutant: the entry is not marked, so the next turn sends it again while  *)
(* it is unacknowledged (the channel is bounded to keep the model finite). *)
SendMessagesUnmarked ==
  /\ FirstReady # 0 /\ Len(toSim) < 2
  /\ toSim' = Append(toSim, messages[FirstReady].data)
  /\ UNCHANGED <<pcVars, toPC>>

SendMessages ==
  /\ FirstReady # 0
  /\ messages' = [messages EXCEPT ![FirstReady].status = "PendingResponse"]
  /\ \/ toSim' = Append(toSim, messages[FirstReady].data) /\ UNCHANGED lost
     \/ lost < MaxLost /\ lost' = lost + 1 /\ UNCHANGED toSim
  /\ UNCHANGED <<replying, written, configured, attaches, toPC>>

-----------------------------------------------------------------------------
(* _reader_DataReceived, one packet at a time.                             *)
Received(cmds) ==
  /\ replying = <<>>
  /\ toPC # <<>> /\ Head(toPC).cmd \in cmds
  /\ toPC' = Tail(toPC)
  /\ UNCHANGED <<toSim, written, attaches, lost>>

OldestWith(cmd) == SelectInSeq(messages, LAMBDA e : e.data.cmd = cmd)

(* Mutants: the NACK re-marks a message of the command it refused, or      *)
(* removes the message it finds instead of re-marking it.                  *)
ReceiveNackByGot ==
  /\ Received({"E"})
  /\ LET i == OldestWith(Head(toPC).got)
     IN  messages' = IF i = 0 THEN messages
                     ELSE [messages EXCEPT ![i].status = "ReadyToSend"]
  /\ UNCHANGED <<replying, configured>>

ReceiveNackDrops ==
  /\ Received({"E"})
  /\ LET i == OldestWith(Head(toPC).want)
     IN  messages' = IF i = 0 THEN messages ELSE RemoveAt(messages, i)
  /\ UNCHANGED <<replying, configured>>

(* 'E': the oldest message with the command the simulator was WAITING for  *)
(* becomes ready again.                                                    *)
ReceiveNack ==
  /\ Received({"E"})
  /\ LET i == OldestWith(Head(toPC).want)
     IN  messages' = IF i = 0 THEN messages
                     ELSE [messages EXCEPT ![i].status = "ReadyToSend"]
  /\ UNCHANGED <<replying, configured>>

(* Mutants: the ACK removes the newest message of the command, or looks    *)
(* for the command the NACK branch uses.                                   *)
ReceiveAckNewest ==
  /\ Received({"A"})
  /\ LET i == SelectLastInSeq(messages, LAMBDA e : e.data.cmd = Head(toPC).got)
     IN  messages' = IF i = 0 THEN messages ELSE RemoveAt(messages, i)
  /\ UNCHANGED <<replying, configured>>

ReceiveAckWanted ==
  /\ Received({"A"})
  /\ LET i == OldestWith(Head(toPC).want)
     IN  messages' = IF i = 0 THEN messages ELSE RemoveAt(messages, i)
  /\ UNCHANGED <<replying, configured>>

(* 'A': the oldest message with the acknowledged command is forgotten,     *)
(* whatever its status.                                                    *)
ReceiveAck ==
  /\ Received({"A"})
  /\ LET i == OldestWith(Head(toPC).got)
     IN  messages' = IF i = 0 THEN messages ELSE RemoveAt(messages, i)
  /\ UNCHANGED <<replying, configured>>

(* The verdicts _reader_DataReceived can produce: a request with an OUT    *)
(* data stage cannot be ignored (CanIgnore), and a device leaves           *)
(* descriptor and SET_CONFIGURATION requests to the library.  (One that    *)
(* handles a "read" returns data here; ControlTransfer has the other.)     *)
Verdicts(kind) == CASE kind \in {"descriptor", "configure"} -> {Ignore}
                    [] kind \in {"read", "command"}         -> {Ignore, Handle, Stall}
                    [] kind = "output"                      -> {Handle, Stall}

(* 'U': the device's OnControlRequestReceived runs, and a reply is built.  *)
ReceiveControlRequest ==
  /\ Received({"U"})
  /\ \E v \in Verdicts(Head(toPC).kind) :
       replying' = <<PcMessage("U", v, Head(toPC).id)>>
  /\ configured' = (configured \/ Head(toPC).kind = "configure")
  /\ UNCHANGED messages

(* 'D': the device's OnDescriptorRequested runs, and a reply is built.     *)
ReceiveDescriptorRequest ==
  /\ Received({"D"})
  /\ replying' = <<PcMessage("D", NotAVerdict, Head(toPC).id)>>
  /\ UNCHANGED <<messages, configured>>

(* The _Write at the end of the 'U' and 'D' cases. *)
QueueReply ==
  /\ replying # <<>>
  /\ Write(Head(replying))
  /\ replying' = <<>>
  /\ UNCHANGED <<written, configured, attaches, lost, channels>>

(* 'I' is passed to the device; an echo ('C') is only logged. *)
ReceiveOther ==
  /\ Received({"I", "C"})
  /\ UNCHANGED <<messages, replying, configured>>

Reader ==
  \/ ReceiveNack \/ ReceiveAck \/ ReceiveOther
  \/ ReceiveControlRequest \/ ReceiveDescriptorRequest \/ QueueReply

PcNext == AttachDevice \/ DetachDevice \/ WriteOutgoingData \/ SendMessages \/ Reader
=============================================================================
