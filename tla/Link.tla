-------------------------------- MODULE Link --------------------------------
(***************************************************************************)
(* The PC application and the simulator firmware, joined by the two FIFO   *)
(* channels, with the USB host that issues requests to the simulator.      *)
(***************************************************************************)
EXTENDS PcQueue, Simulator

CONSTANT MaxResets  \* times the Teensys are unplugged and F3 is pressed

ASSUME ResetAssumption == MaxResets \in Nat

VARIABLE resets

vars == <<channels, pcVars, simVars, resets>>

Init == toSim = <<>> /\ toPC = <<>> /\ PcInit /\ SimInit /\ resets = 0

PcStep   == PcNext /\ UNCHANGED <<simVars, resets>>
SimStep  == SimNext /\ UNCHANGED <<pcVars, resets>>
HostStep == Host /\ UNCHANGED <<channels, pcVars, resets>>

(* The firmware begins again, knowing nothing. *)
Restart ==
  /\ main' = "receive" /\ task' = "idle" /\ rx' = "empty"
  /\ buffer' = PcMessage("?", NotAVerdict, 0) /\ tx' = Answer("A", "?", "?")
  /\ setup' = FALSE /\ attached' = "no" /\ table' = FALSE
  /\ bank' = "none" /\ inBank' = <<>> /\ part' = 0 /\ outBank' = FALSE

(* "If the connection becomes messed up": both Teensys lose their power,   *)
(* what is under way is gone, the host gives up its request; F3 calls      *)
(* Reset, which keeps _messages as it is.                                  *)
Reset ==
  /\ resets < MaxResets /\ resets' = resets + 1
  /\ toSim' = <<>> /\ toPC' = <<>>
  /\ Restart
  /\ requests' = [r \in DOMAIN requests |-> [requests[r] EXCEPT !.done = TRUE]]
  /\ UNCHANGED <<pcVars, hostData, outs>>

Next == PcStep \/ SimStep \/ HostStep \/ Reset

(* The firmware's loop and both PC threads keep running; bytes on the UART *)
(* arrive while it polls, so a packet it polls for again and again is read *)
(* (strong fairness: main stops polling while it runs other calls).  The   *)
(* host polls an endpoint that holds data.  Nothing obliges the host to    *)
(* ask, the application to attach, or the device to write.                 *)
Fairness ==
  /\ WF_vars(SimLoop /\ UNCHANGED <<pcVars, resets>>)
  /\ SF_vars(Receive /\ UNCHANGED <<pcVars, resets>>)
  /\ WF_vars(SendMessages /\ UNCHANGED <<simVars, resets>>)
  /\ WF_vars(Reader /\ UNCHANGED <<simVars, resets>>)
  /\ WF_vars(HostReadsIn /\ UNCHANGED <<channels, pcVars, resets>>)

Spec == Init /\ [][Next]_vars
LiveSpec == Spec /\ Fairness

(* Every variable of the composition has the values its comment names. *)
TypeOK ==
  /\ toSim \in Seq(PcMessages) /\ toPC \in Seq(SimMessages)
  /\ PcTypeOK /\ SimTypeOK /\ resets \in 0 .. MaxResets

-----------------------------------------------------------------------------
(* With nothing but requests on the link it implements the abstract        *)
(* service: replies are matched to requests by arrival order alone, and    *)
(* every request is completed with a verdict given to it.                  *)
Completed == {r \in DOMAIN requests : requests[r].done}
KindsAsked == [r \in DOMAIN requests |-> requests[r].kind]
Outcomes ==
  [r \in Completed |-> [of      |-> {m.id    : m \in requests[r].by},
                        verdict |-> {m.byte3 : m \in requests[r].by}]]

Service == INSTANCE ControlService WITH asked <- KindsAsked, outcome <- Outcomes

ServiceSpec == Service!Spec

(* A request is decided by replies the PC gave to that request: nothing    *)
(* else that arrives, and no reply to an earlier request, takes their place*)
(* in receiveBuffer (simulator.c, between WaitForPacket and the reads).    *)
Own(r) == \A m \in requests[r].by : m.cmd \in {"U", "D"} /\ m.id = r
AnswerIsForRequest == \A r \in DOMAIN requests : Own(r)

(* Every request the host makes is eventually completed, whatever data     *)
(* crosses the replies and however they are refused and re-sent; also after*)
(* Reset, with what the queue still holds of the time before               *)
(* (USBSimulatorDevice.cs:67-98).  Only three things can prevent it: a     *)
(* write that failed; bytesSoFar = 0 after a write of several banks, when a*)
(* packet has begun to arrive meanwhile (simulator.c:247); and a decision  *)
(* taken from another packet than the request's own replies, which leaves  *)
(* LUFA waiting for a stage the host does not have (simulator.c:433-440).  *)
Misled == task = "stuck" /\ ~Own(Current)
Broken == lost > 0 \/ rx \in {"shifted", "dead"} \/ Misled
EveryRequestAnswered ==
  \A r \in 1 .. MaxRequests :
    Len(requests) = r ~> Broken \/ (Len(requests) >= r /\ requests[r].done)

(* While the simulator waits for a reply (WaitForPacket has no timeout),   *)
(* one of that command, or the question for one, is somewhere between it   *)
(* and the PC's queue: acknowledgements that match the wrong message never *)
(* remove the only one, nor does what is left over when F3 is pressed, or  *)
(* a packet stored at the wrong place.  Only a failed write can lose it.   *)
OnItsWay(cmd) ==
  \/ \E i \in DOMAIN toPC : toPC[i].cmd = cmd
  \/ replying # <<>> /\ Head(replying).cmd = cmd
  \/ \E i \in DOMAIN messages :
       messages[i].data.cmd = cmd /\ messages[i].status = "ReadyToSend"
  \/ \E i \in DOMAIN toSim : toSim[i].cmd = cmd
  \/ rx = "full" /\ buffer.cmd = cmd

ReplyOnItsWay ==
  lost = 0 =>
    /\ task = "waitU" => OnItsWay("U")
    /\ task = "waitD" => OnItsWay("D")

(* The host reads the device's data in the order the device wrote it and   *)
(* nothing twice, although single pieces may be refused or dropped.  (A    *)
(* chunk whose bytes were overwritten is not compared.)                    *)
Intact(c) == c.msg.cmd = "O" /\ c.msg.id # Mixed
Before(c, d) == \/ c.msg.id < d.msg.id
                \/ c.msg.id = d.msg.id /\ c.part < d.part
DataInOrder ==
  \A i, j \in DOMAIN hostData :
    i < j /\ Intact(hostData[i]) /\ Intact(hostData[j])
      => Before(hostData[i], hostData[j])

(* An acknowledgement never makes the PC forget data it has not sent yet,  *)
(* although it removes the oldest message of the command whatever its      *)
(* status (USBSimulatorDevice.cs, case 'A').  After Reset it may, or when  *)
(* a second S packet is refused: a reply left over, or sent twice, is      *)
(* echoed as unknown, data that comes meanwhile takes its place in         *)
(* receiveBuffer, and the ACK of the reply names 'O'.  (A piece of data    *)
(* that is refused stays in the queue, so that later ACKs find it.)        *)
UnsentDataKept ==
  [][resets = 0 /\ attaches <= 1 =>
       \A i \in DOMAIN messages :
         messages[i].data.cmd = "O" /\ messages' = RemoveAt(messages, i)
           => messages[i].status = "PendingResponse"]_vars

(* Once nobody adds to it, the PC's queue becomes empty: every message is  *)
(* acknowledged under its own command.                                     *)
QueueDrains == messages # <<>> ~> messages = <<>>
=============================================================================
