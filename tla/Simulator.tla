----------------------------- MODULE Simulator -----------------------------
(***************************************************************************)
(* simulator.c, the main loop of the firmware that faces the USB host,     *)
(* with the LUFA code it calls to process one control request and to write *)
(* an endpoint.  One step is what happens between two points at which the  *)
(* firmware polls the UART: it polls while it spins for a send to finish   *)
(* or for a packet to come, and once per main loop.  Connect and disconnect*)
(* events and the receive timeout are left out (see SendReceive).          *)
(***************************************************************************)
EXTENDS LinkMessages

VARIABLES
  main,       \* the call of main's loop being executed
  task,       \* where in that call the firmware is
  rx,         \* the receive half of SendReceive_Task (bytesSoFar, bytesWaiting,
              \*   packetHandled): "partial" has the length bytes of Head(toSim)
  buffer,     \* receiveBuffer from cmd on
  tx,         \* the packet in transmitBuffer
  setup,      \* a SETUP packet is in the control endpoint (RXSTPI)
  requests,   \* the host's control requests: [kind, by, done]
  attached,   \* whether the UDCON.DETACH bit is clear, and the host has reset
              \*   the device since: "no", "new", "yes"
  table,      \* endpointData holds the device's endpoint table
  bank,       \* the IN endpoint: "none" (not configured), "free", "busy"
  inBank,     \* what its bank holds
  part,       \* banks of the current 'O' packet written so far
  outBank,    \* an OUT packet is in the OUT endpoint
  outs,       \* OUT packets the host has sent
  hostData    \* what the host has read from the IN endpoint

simVars == <<main, task, rx, buffer, tx, setup, requests, attached, table,
             bank, inBank, part, outBank, outs, hostData>>

(* SendReceive_Task runs in each of these loops. *)
Sending == {"sendC", "sendAck", "sendU", "sendD", "sendI", "nackU", "nackD",
            "ackU", "ackD"}
Waiting == {"waitU", "waitD"}
Tasks   == {"idle", "nested", "write", "decideU", "decideD", "stuck"}
             \cup Sending \cup Waiting
Chunks  == [msg : PcMessages, part : 1 .. Banks]

SimTypeOK ==
  /\ main \in {"receive", "handle", "usb", "io"} /\ task \in Tasks
  /\ rx \in {"empty", "partial", "full", "shifted", "dead"}
  /\ buffer \in PcMessages /\ tx \in SimMessages
  /\ setup \in BOOLEAN /\ attached \in {"no", "new", "yes"} /\ table \in BOOLEAN
  /\ requests \in Seq([kind : Kinds, by : SUBSET PcMessages, done : BOOLEAN])
  /\ bank \in {"none", "free", "busy"}
  /\ inBank \in Seq(Chunks) /\ hostData \in Seq(Chunks)
  /\ part \in 0 .. Banks /\ outBank \in BOOLEAN /\ outs \in 0 .. MaxOut

SimInit ==
  /\ main = "receive" /\ task = "idle" /\ rx = "empty"
  /\ buffer = PcMessage("?", NotAVerdict, 0) /\ tx = Answer("A", "?", "?")
  /\ setup = FALSE /\ attached = "no" /\ table = FALSE
  /\ requests = <<>> /\ bank = "none" /\ inBank = <<>> /\ hostData = <<>>
  /\ part = 0 /\ outBank = FALSE /\ outs = 0

-----------------------------------------------------------------------------
(* The USB host.  It resets a device that has just appeared: that takes the*)
(* configuration and the contents of its endpoints.                        *)
HostResets ==
  /\ attached = "new" /\ attached' = "yes"
  /\ setup' = FALSE /\ bank' = "none" /\ inBank' = <<>> /\ outBank' = FALSE
  /\ UNCHANGED <<main, task, rx, buffer, tx, requests, table, part, outs, hostData>>

HostRequest ==
  /\ attached = "yes"
  /\ Len(requests) < MaxRequests
  /\ \A r \in DOMAIN requests : requests[r].done
  /\ \E k \in HostKinds : requests' = Append(requests, [kind |-> k, by |-> {}, done |-> FALSE])
  /\ setup' = TRUE
  /\ UNCHANGED <<main, task, rx, buffer, tx, attached, table, bank, inBank,
                 part, outBank, outs, hostData>>

HostReadsIn ==
  /\ attached = "yes" /\ bank = "busy" /\ inBank # <<>>
  /\ hostData' = hostData \o inBank
  /\ inBank' = <<>> /\ bank' = "free"
  /\ UNCHANGED <<main, task, rx, buffer, tx, setup, requests, attached, table,
                 part, outBank, outs>>

HostSendsOut ==
  /\ attached = "yes" /\ bank # "none" /\ ~outBank /\ outs < MaxOut
  /\ outBank' = TRUE /\ outs' = outs + 1
  /\ UNCHANGED <<main, task, rx, buffer, tx, setup, requests, attached, table,
                 bank, inBank, part, hostData>>

-----------------------------------------------------------------------------
(* SendReceive_Task, receiving: the length bytes are taken only when the   *)
(* previous packet has been handled, the rest of the packet as it comes.   *)
Polling == main = "receive" \/ task \in Sending \cup Waiting

ReceiveLength ==
  /\ rx = "empty" /\ rx' = "partial"
  /\ UNCHANGED <<buffer, toSim>>

ReceiveSome ==        \* cmd and some of what follows, over the old packet's
  /\ rx = "partial"
  /\ \E b \in {buffer.byte3, Head(toSim).byte3} :
       buffer' = PcMessage(Head(toSim).cmd, b, Mixed)
  /\ UNCHANGED <<rx, toSim>>

ReceiveRest ==
  /\ rx = "partial" /\ rx' = "full"
  /\ buffer' = Head(toSim) /\ toSim' = Tail(toSim)

ReceiveShifted ==     \* what was left of a packet, stored from byte 0 on
  /\ rx = "shifted" /\ rx' = "full"
  /\ \E c \in PcCommands \cup {"?"}, b \in 0 .. 3 : buffer' = PcMessage(c, b, Mixed)
  /\ toSim' = Tail(toSim)

Receive ==
  /\ Polling /\ toSim # <<>>
  /\ ReceiveLength \/ ReceiveSome \/ ReceiveRest \/ ReceiveShifted
  /\ UNCHANGED <<main, task, tx, setup, requests, attached, table, bank, inBank,
                 part, outBank, outs, hostData, toPC>>

-----------------------------------------------------------------------------
(* Sending: a handler puts a packet together in transmitBuffer and spins   *)
(* until it is out; what it does next follows at once.                     *)
StartSend(packet, spin) == tx' = packet /\ task' = spin

(* The ACK at the end of HandleReceivedPacket names whatever command is    *)
(* then in receiveBuffer.                                                  *)
AckBuffer == StartSend(Answer("A", buffer.cmd, "?"), "sendAck")

Current == Len(requests)

FinishSend ==
  /\ task \in Sending
  /\ toPC' = Append(toPC, tx)
  /\ \/ task = "sendC"  /\ AckBuffer /\ UNCHANGED main
     \/ task = "sendAck" /\ task' = "idle" /\ main' = "usb" /\ UNCHANGED tx
     \/ task \in {"sendU", "nackU"} /\ task' = "waitU" /\ UNCHANGED <<main, tx>>
     \/ task \in {"sendD", "nackD"} /\ task' = "waitD" /\ UNCHANGED <<main, tx>>
     \/ task = "ackU" /\ task' = "decideU" /\ UNCHANGED <<main, tx>>
     \/ task = "ackD" /\ task' = "decideD" /\ UNCHANGED <<main, tx>>
     \/ task = "sendI" /\ task' = "idle" /\ main' = "receive" /\ UNCHANGED tx
  /\ UNCHANGED <<rx, buffer, setup, requests, attached, table, bank, inBank,
                 part, outBank, outs, hostData, toSim>>

(* SendReceive_WaitForPacket, a packet being ready: SetHandled, then an    *)
(* ACK for the wanted command or a NACK for any other.                     *)
WaitForPacket ==
  /\ task \in Waiting /\ rx = "full" /\ rx' = "empty"
  /\ LET cmd == IF task = "waitU" THEN "U" ELSE "D" IN
       IF buffer.cmd = cmd
       THEN StartSend(Answer("A", cmd, cmd), IF cmd = "U" THEN "ackU" ELSE "ackD")
       ELSE StartSend(Answer("E", buffer.cmd, cmd), IF cmd = "U" THEN "nackU" ELSE "nackD")
  /\ UNCHANGED <<main, buffer, setup, requests, attached, table, bank, inBank,
                 part, outBank, outs, hostData, channels>>

-----------------------------------------------------------------------------
(* The main loop.                                                          *)
EndReceive ==
  /\ main = "receive" /\ main' = "handle"
  /\ UNCHANGED <<task, rx, buffer, tx, setup, requests, attached, table, bank,
                 inBank, part, outBank, outs, hostData, channels>>

(* One bank of the packet, and with it, or with the last bank, the end of  *)
(* the 'O' case: ClearIN, bytesSoFar = 0, ACK.                             *)
RestartCount == rx' = CASE rx = "partial" -> "shifted"
                        [] rx = "full"    -> "dead"
                        [] OTHER          -> rx

(* Mutant: BytesProcessed is not carried over, each bank starts again at   *)
(* the beginning of the data.                                              *)
FillBankFromStart(p) ==
  /\ bank' = "busy" /\ inBank' = <<[msg |-> buffer, part |-> 1]>> /\ part' = p

FillBank(p) ==
  /\ bank' = "busy" /\ inBank' = <<[msg |-> buffer, part |-> p]>> /\ part' = p

(* Mutant: no packet, so the loop starts over and skips the USB tasks. *)
HandleNothingContinues ==
  /\ main = "handle" /\ task = "idle" /\ rx # "full"
  /\ main' = "receive"
  /\ UNCHANGED <<task, rx, buffer, tx, setup, requests, attached, table, bank,
                 inBank, part, outBank, outs, hostData, channels>>

HandleNothing ==
  /\ main = "handle" /\ task = "idle" /\ rx # "full"
  /\ main' = "usb"
  /\ UNCHANGED <<task, rx, buffer, tx, setup, requests, attached, table, bank,
                 inBank, part, outBank, outs, hostData, channels>>

Attachment(b) == IF b # 1 THEN "no" ELSE IF attached = "no" THEN "new" ELSE attached

HandleReceivedPacket ==
  /\ main = "handle" /\ task = "idle" /\ rx = "full"
  /\ rx' = "empty"
  /\ \/ /\ buffer.cmd = "O" /\ bank = "free"
        /\ FillBank(1)
        /\ IF Banks = 1 THEN AckBuffer ELSE task' = "nested" /\ UNCHANGED tx
        /\ UNCHANGED attached
     \/ /\ buffer.cmd = "O" /\ bank # "free"
        /\ AckBuffer
        /\ UNCHANGED <<attached, bank, inBank, part>>
     \/ /\ buffer.cmd = "S" /\ attached' = Attachment(buffer.byte3)
        /\ AckBuffer
        /\ UNCHANGED <<bank, inBank, part>>
     \/ /\ buffer.cmd \notin {"O", "S"}
        /\ StartSend(Answer("C", buffer.cmd, "?"), "sendC")
        /\ UNCHANGED <<attached, bank, inBank, part>>
  /\ UNCHANGED <<main, buffer, setup, requests, table, outBank, outs, hostData, channels>>

(* USB_USBTask, called from main's loop or, a bank being full, from        *)
(* Endpoint_Write_Stream_LE. With a SETUP packet it becomes                *)
(* EVENT_USB_Device_ControlRequest, which asks the PC.                     *)
UsbTask ==
  /\ \/ main = "usb" /\ task = "idle"
     \/ task = "nested"
  /\ IF setup
     THEN /\ StartSend(Ask("U", Current, requests[Current].kind), "sendU")
          /\ setup' = FALSE /\ UNCHANGED main
     ELSE /\ task' = IF main = "usb" THEN "idle" ELSE "write"
          /\ main' = IF main = "usb" THEN "io" ELSE main
          /\ UNCHANGED <<tx, setup>>
  /\ UNCHANGED <<rx, buffer, requests, attached, table, bank, inBank, part,
                 outBank, outs, hostData, channels>>

(* Mutant: the stream write goes on for one bank behind the data. *)
WriteStreamPastEnd ==
  /\ task = "write"
  /\ \/ /\ bank = "free" /\ FillBank(part + 1)
        /\ IF part = Banks THEN AckBuffer /\ RestartCount
                           ELSE task' = "nested" /\ UNCHANGED <<tx, rx>>
     \/ /\ bank # "free" /\ AckBuffer /\ RestartCount
        /\ UNCHANGED <<bank, inBank, part>>
  /\ UNCHANGED <<main, buffer, setup, requests, attached, table, outBank, outs,
                 hostData, channels>>

(* The rest of a packet that fills several banks: the next bank once the   *)
(* host has read the last, or the end after USB_STREAM_TIMEOUT_MS.         *)
WriteStream ==
  /\ task = "write"
  /\ \/ /\ bank = "free" /\ FillBank(part + 1)
        /\ IF part + 1 = Banks THEN AckBuffer /\ RestartCount
                               ELSE task' = "nested" /\ UNCHANGED <<tx, rx>>
     \/ /\ bank # "free" /\ AckBuffer /\ RestartCount
        /\ UNCHANGED <<bank, inBank, part>>
  /\ UNCHANGED <<main, buffer, setup, requests, attached, table, outBank, outs,
                 hostData, channels>>

(* USBIO_Task: an OUT packet is forwarded. *)
USBIO_Task ==
  /\ main = "io" /\ task = "idle"
  /\ IF outBank
     THEN StartSend(Ask("I", outs, "data"), "sendI") /\ outBank' = FALSE /\ UNCHANGED main
     ELSE main' = "receive" /\ UNCHANGED <<task, tx, outBank>>
  /\ UNCHANGED <<rx, buffer, setup, requests, attached, table, bank, inBank,
                 part, outs, hostData, channels>>

-----------------------------------------------------------------------------
(* What follows WaitForPacket: the reply is read back from receiveBuffer.  *)
(* While the length bytes are already those of a next packet, the payload  *)
(* is no longer the reply's.                                               *)
Reply == IF rx = "partial" THEN [buffer EXCEPT !.id = Mixed] ELSE buffer

Use(done) ==
  requests' = [requests EXCEPT ![Current].by = @ \cup {Reply},
                               ![Current].done = done]

(* Back to the caller of USB_USBTask. *)
Return == IF main = "usb" THEN main' = "io" /\ task' = "idle"
                          ELSE task' = "write" /\ UNCHANGED main

(* Whether the length bytes of receiveBuffer are other than 2: the reply   *)
(* has data.  They are those of the packet last begun; of one stored at the*)
(* wrong place they can be anything.                                       *)
Long(m) ==
  \/ m.cmd \in {"O", "D"}
  \/ /\ m.cmd = "U" /\ m.byte3 = Handle
     /\ m.id \in DOMAIN requests /\ requests[m.id].kind = "read"
Lengths == IF rx = "partial" THEN {Long(Head(toSim))}
           ELSE IF buffer.cmd = "U" /\ buffer.id = Mixed THEN BOOLEAN
           ELSE {Long(buffer)}

(* Mutant: the length is not tested, the reply is always written as data. *)
HangsUntested(long) == requests[Current].kind \notin {"descriptor", "read"}

(* Handled: data goes to Endpoint_Write_Control_Stream_LE, whose second    *)
(* loop waits for the host's empty OUT packet, which follows only an IN    *)
(* data stage; without data Endpoint_ClearStatusStage waits for it after   *)
(* a request with an IN data stage, whose host still waits for data.       *)
Handled == \/ Reply.byte3 = Handle
           \/ Reply.byte3 # Stall /\ requests[Current].kind = "output"
Hangs(long) == IF requests[Current].kind \in {"descriptor", "read"} THEN ~long ELSE long

(* The rest of EVENT_USB_Device_ControlRequest and ProcessControlRequest:  *)
(* the PC's verdict, or LUFA's own handling of a request that was left     *)
(* alone, or stalled: both leave the SETUP flag set.                       *)
HangInRequest ==
  /\ Handled /\ \E long \in Lengths : Hangs(long)
  /\ Use(FALSE) /\ task' = "stuck"
  /\ UNCHANGED <<main, tx, bank, inBank>>

EndRequest ==
  /\ IF Handled THEN \E long \in Lengths : ~Hangs(long)
                ELSE requests[Current].kind # "descriptor"
  /\ Use(TRUE) /\ Return
  /\ LET chosen == ~Handled /\ requests[Current].kind = "configure" /\ table
     IN  /\ bank' = IF chosen THEN "free" ELSE bank
         /\ inBank' = IF chosen THEN <<>> ELSE inBank
  /\ UNCHANGED tx

AskDescriptor ==
  /\ ~Handled /\ requests[Current].kind = "descriptor"
  /\ Use(FALSE)
  /\ StartSend(Ask("D", Current, "descriptor"), "sendD")
  /\ UNCHANGED <<main, bank, inBank>>

DecideControl ==
  /\ task = "decideU"
  /\ HangInRequest \/ EndRequest \/ AskDescriptor
  /\ UNCHANGED <<rx, buffer, setup, attached, table, part, outBank, outs,
                 hostData, channels>>

(* The end of CALLBACK_USB_GetDescriptor, with the endpoint table that is  *)
(* piggybacked on the device descriptor, and of LUFA's GetDescriptor.      *)
(* After a STALL the host reads nothing, and the second loop waits as      *)
(* above; without a descriptor the library ends the request.               *)
Stalled == \E m \in requests[Current].by : m.byte3 = Stall
DecideDescriptor ==
  /\ task = "decideD"
  /\ \/ Use(TRUE) /\ Return
     \/ Stalled /\ Use(FALSE) /\ task' = "stuck" /\ UNCHANGED main
  /\ table' = (Reply.cmd = "D" /\ Reply.id # Mixed)
  /\ UNCHANGED <<rx, buffer, tx, setup, attached, bank, inBank, part, outBank,
                 outs, hostData, channels>>

Host == HostResets \/ HostRequest \/ HostReadsIn \/ HostSendsOut

SimLoop ==
  \/ FinishSend \/ WaitForPacket \/ EndReceive \/ HandleNothing
  \/ HandleReceivedPacket \/ UsbTask \/ WriteStream \/ USBIO_Task
  \/ DecideControl \/ DecideDescriptor

SimNext == SimLoop \/ Receive
=============================================================================
