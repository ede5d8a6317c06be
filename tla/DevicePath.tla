----------------------------- MODULE DevicePath -----------------------------
(***************************************************************************)
(* What lies between an emulated device (HIDKeyboard.cs,                   *)
(* MassStorageDevice.cs) and the USB host, by whole messages: the queue of *)
(* USBSimulatorDevice.cs and the endpoints of simulator.c.  Taken over     *)
(* from Link, which has the protocol in detail: messages arrive in order;  *)
(* data that is refused is not sent again, but the reply then waited for   *)
(* may be; and a packet that follows the reply takes its place in          *)
(* receiveBuffer.  Messages of several banks all have the same number.     *)
(***************************************************************************)
EXTENDS Naturals, Sequences, SequencesExt

CONSTANTS
  MaxAsks,      \* class requests the host makes
  MaxResets,    \* bus resets, or the cable pulled and plugged in again
  MaxResent     \* replies that go out again

ASSUME PathAssumption == {MaxAsks, MaxResets, MaxResent} \subseteq Nat

VARIABLES
  queue,        \* messages for the firmware: the banks of a piece of data, or
                \*   a reply: <<>>
  toPC,         \* packets from the firmware: 'U' with the request, 'I' with
                \*   data, 'A' for a reply, 'E' for data refused
  replying,     \* the callback has run and its reply is not yet queued
  waiting,      \* the request being served: "no", "configure", "class"; or
                \*   "stuck", LUFA waits for a stage the host does not have
  replied,      \* its reply has been taken, and is being acknowledged
  receiver,     \* Head(queue) has "begun" to arrive while a piece is written;
                \*   "deaf": it has arrived whole, and been forgotten
  open,         \* the device's endpoints are configured
  bank,         \* what is in the IN endpoint
  rest,         \* what is left of the piece being written
  nested,       \* USB_USBTask has still to run for the bank last written
  out,          \* a packet in the OUT endpoint
  lost,         \* what the host will never see, by its first bank
  asks, resets,
  resent        \* replies that have gone out again

firmware == <<waiting, replied, receiver, open, bank, rest, nested, out, lost>>
path == <<queue, toPC, replying, firmware, asks, resets, resent>>

PathInit ==
  /\ queue = <<>> /\ toPC = <<>> /\ replying = FALSE
  /\ waiting = "no" /\ replied = FALSE /\ receiver = "ready"
  /\ open = FALSE /\ bank = <<>> /\ rest = <<>> /\ nested = FALSE
  /\ out = <<>> /\ lost = {} /\ asks = 0 /\ resets = 0 /\ resent = 0

PathTypeOK(Pieces, Packets) ==
  /\ \A k \in DOMAIN queue : queue[k] \in Seq(Pieces)
  /\ \A k \in DOMAIN toPC :
       \/ toPC[k].cmd \in {"A", "E"}
       \/ toPC[k].cmd = "U" /\ toPC[k].kind \in {"configure", "class"}
       \/ toPC[k].cmd = "I" /\ toPC[k].data \in Packets
  /\ waiting \in {"no", "configure", "class", "stuck"}
  /\ receiver \in {"ready", "begun", "deaf"}
  /\ {replying, replied, open, nested} \subseteq BOOLEAN
  /\ rest \in Seq(Pieces) /\ lost \in SUBSET Pieces
  /\ bank \in Seq(Pieces) /\ Len(bank) <= 1
  /\ out \in Seq(Packets) /\ Len(out) <= 1
  /\ asks \in 0 .. MaxAsks /\ resets \in 0 .. MaxResets /\ resent \in 0 .. MaxResent

-----------------------------------------------------------------------------
(* The PC: WriteOutgoingData, and the reader callback.                     *)
WriteOutgoingData(messages) ==
  /\ queue' = queue \o messages
  /\ UNCHANGED <<firmware, asks, resets, resent>>

Receives(cmd) == ~replying /\ toPC # <<>> /\ Head(toPC).cmd = cmd /\ toPC' = Tail(toPC)

Requested(kind) ==
  /\ Receives("U") /\ Head(toPC).kind = kind /\ replying' = TRUE
  /\ UNCHANGED <<queue, firmware, asks, resets, resent>>

QueueReply ==
  /\ replying /\ replying' = FALSE
  /\ queue' = Append(queue, <<>>)
  /\ UNCHANGED <<toPC, firmware, asks, resets, resent>>

(* A refusal re-marks a reply that has no acknowledgement yet: if that had *)
(* been sent it goes out again, before whatever has not.  (What the        *)
(* firmware has begun to receive has been sent.)                           *)
Sent(k) == k = 1 /\ receiver # "ready"
Unacknowledged == (\E k \in DOMAIN queue : queue[k] = <<>>)
                    \/ \E k \in DOMAIN toPC : toPC[k].cmd = "A"
ReceiveNack ==
  /\ Receives("E")
  /\ \/ UNCHANGED <<queue, resent>>
     \/ /\ Unacknowledged /\ resent < MaxResent /\ resent' = resent + 1
        /\ \E k \in 1 .. Len(queue) + 1 : ~Sent(k) /\ queue' = InsertAt(queue, k, <<>>)
  /\ UNCHANGED <<replying, firmware, asks, resets>>

(* An acknowledgement removes the oldest reply, which need not have been   *)
(* sent yet.                                                               *)
ReceiveAck ==
  /\ Receives("A")
  /\ \/ UNCHANGED queue
     \/ \E k \in DOMAIN queue : queue[k] = <<>> /\ ~Sent(k) /\ queue' = RemoveAt(queue, k)
  /\ UNCHANGED <<replying, firmware, asks, resets, resent>>

PcReader == QueueReply \/ ReceiveNack \/ ReceiveAck

-----------------------------------------------------------------------------
(* The firmware takes the next message: it polls in a request, and in the  *)
(* main loop when no piece is being written.                               *)
InRequest == waiting \in {"configure", "class"} /\ ~replied
Takes == queue # <<>> /\ queue' = Tail(queue) /\ receiver # "deaf"

(* A reply nobody waits for is echoed, and acknowledged all the same. *)
TakeReply ==
  /\ Takes /\ Head(queue) = <<>>
  /\ InRequest \/ (waiting = "no" /\ rest = <<>>)
  /\ replied' = (waiting # "no")
  /\ receiver' = "ready"
  /\ toPC' = Append(toPC, [cmd |-> "A"])
  /\ UNCHANGED <<replying, waiting, open, bank, rest, nested, out, lost, asks, resets, resent>>

(* Data that comes instead of the reply is refused, and has overwritten    *)
(* what follows the first bank of the piece being written.                 *)
Overwritten(m) == IF Len(m) < 2 THEN rest ELSE SubSeq(m, Len(m) - Len(rest) + 1, Len(m))

RefuseData ==
  /\ Takes /\ Head(queue) # <<>> /\ InRequest
  /\ toPC' = Append(toPC, [cmd |-> "E"])
  /\ lost' = lost \cup {Head(Head(queue))}
  /\ rest' = Overwritten(Head(queue)) /\ receiver' = "ready"
  /\ UNCHANGED <<replying, waiting, replied, open, bank, nested, out, asks, resets, resent>>

(* The 'O' case: data for an endpoint that is busy, or not configured, is  *)
(* dropped and acknowledged; of other data the first bank is written.      *)
TakeData ==
  /\ Takes /\ Head(queue) # <<>> /\ waiting = "no" /\ rest = <<>>
  /\ IF open /\ bank = <<>>
     THEN /\ bank' = <<Head(Head(queue))>> /\ rest' = Tail(Head(queue))
          /\ UNCHANGED lost
     ELSE lost' = lost \cup {Head(Head(queue))} /\ UNCHANGED <<bank, rest>>
  /\ nested' = (rest' # <<>>) /\ receiver' = "ready"
  /\ UNCHANGED <<toPC, replying, waiting, replied, open, out, asks, resets, resent>>

(* Endpoint_Write_Stream_LE: the next bank once the host has read the last,*)
(* or the end after the timeout.  Then bytesSoFar = 0: a packet that has   *)
(* begun to arrive is not recognised, and its bytes still to come are taken*)
(* for a packet; if none are, nothing is received any more.                *)
WriteBank ==
  /\ rest # <<>> /\ waiting = "no"
  /\ LET room == open /\ bank = <<>> IN
     /\ rest' = IF room THEN Tail(rest) ELSE <<>>
     /\ bank' = IF room THEN <<Head(rest)>> ELSE bank
     /\ LET gone == IF room THEN {} ELSE {Head(rest)} IN
        IF receiver = "begun" /\ rest' = <<>>
        THEN \/ receiver' = "deaf" /\ lost' = lost \cup gone /\ UNCHANGED queue
             \/ /\ receiver' = "ready" /\ queue' = Tail(queue)
                /\ lost' = lost \cup gone \cup {Head(queue)[k] : k \in DOMAIN Head(queue) \cap {1}}
        ELSE lost' = lost \cup gone /\ UNCHANGED <<queue, receiver>>
  /\ nested' = (rest' # <<>>)
  /\ UNCHANGED <<toPC, replying, waiting, replied, open, out, asks, resets, resent>>

-----------------------------------------------------------------------------
(* What follows the acknowledgement.  Configuring the endpoints empties    *)
(* them.                                                                   *)
DecideAsTold ==
  /\ waiting' = "no"
  /\ IF waiting = "configure" THEN open' = TRUE /\ bank' = <<>> /\ out' = <<>>
                              ELSE UNCHANGED <<open, bank, out>>

(* A packet on its way behind the reply has begun to arrive, and has       *)
(* overwritten some of the piece being written.  Data there reads as a     *)
(* verdict to handle the request, with an answer that no request but a read*)
(* has a stage for.                                                        *)
Follows ==
  /\ queue # <<>>
  /\ receiver' = IF rest = <<>> THEN "ready" ELSE "begun"
  /\ \E k \in 0 .. Len(rest) :
       rest' = SubSeq(Overwritten(Head(queue)), 1, k) \o SubSeq(rest, k + 1, Len(rest))

(* Once a reply has gone out again, it can also be one to an earlier       *)
(* request.                                                                *)
DecideControl ==
  /\ replied /\ replied' = FALSE
  /\ \/ UNCHANGED <<receiver, rest>> /\ DecideAsTold
     \/ Follows /\ DecideAsTold
     \/ /\ Follows /\ Head(queue) # <<>> /\ waiting' = "stuck"
        /\ UNCHANGED <<open, bank, out>>
     \/ /\ resent > 0 /\ waiting' \in {"no", "stuck"}
        /\ UNCHANGED <<receiver, rest, open, bank, out>>
  /\ UNCHANGED <<queue, toPC, replying, nested, lost, asks, resets, resent>>

(* USBIO_Task *)
ForwardOut ==
  /\ out # <<>> /\ waiting = "no" /\ rest = <<>>
  /\ toPC' = Append(toPC, [cmd |-> "I", data |-> out[1]]) /\ out' = <<>>
  /\ UNCHANGED <<queue, replying, waiting, replied, receiver, open, bank, rest, nested,
                 lost, asks, resets, resent>>

-----------------------------------------------------------------------------
(* The host.  A request reaches the PC as a 'U' packet. *)
Ask(kind) ==
  /\ waiting = "no" /\ waiting' = kind /\ toPC' = Append(toPC, [cmd |-> "U", kind |-> kind])
  /\ nested' = FALSE
  /\ UNCHANGED <<queue, replying, replied, receiver, open, bank, rest, out, lost, resets, resent>>

(* A device that does not answer is configured again. *)
HostConfigures == ~open /\ rest = <<>> /\ Ask("configure") /\ UNCHANGED asks

HostAsks ==
  /\ open /\ (rest = <<>> \/ nested) /\ asks < MaxAsks /\ asks' = asks + 1
  /\ Ask("class")

HostReads ==
  /\ bank # <<>> /\ bank' = <<>>
  /\ UNCHANGED <<queue, toPC, replying, waiting, replied, receiver, open, rest, nested,
                 out, lost, asks, resets, resent>>

HostSends(p) ==
  /\ open /\ out = <<>> /\ out' = <<p>>
  /\ UNCHANGED <<queue, toPC, replying, waiting, replied, receiver, open, bank, rest,
                 nested, lost, asks, resets, resent>>

(* A reset takes the endpoints' configuration and contents; a request that *)
(* is under way is answered, but configures nothing any more.  Only when   *)
(* the cable is pulled the library stops waiting for a stage.              *)
HostResets ==
  /\ open \/ waiting = "stuck"
  /\ resets < MaxResets /\ resets' = resets + 1
  /\ open' = FALSE /\ bank' = <<>> /\ out' = <<>>
  /\ lost' = lost \cup ToSet(bank)
  /\ waiting' \in CASE waiting = "no"    -> {"no"}
                    [] waiting = "stuck" -> {"stuck", "no"}
                    [] OTHER             -> {"class"}
  /\ UNCHANGED <<queue, toPC, replying, replied, receiver, rest, nested, asks, resent>>

Firmware ==
  \/ TakeReply \/ RefuseData \/ TakeData \/ WriteBank \/ DecideControl \/ ForwardOut
=============================================================================
