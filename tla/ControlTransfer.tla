--------------------------- MODULE ControlTransfer ---------------------------
(***************************************************************************)
(* One control transfer after another on endpoint 0 of the second Teensy:  *)
(* the USB host, the endpoint's hardware, LUFA's request handling and      *)
(* device state machine with its interrupt, and the simulator's            *)
(* EVENT_USB_Device_ControlRequest, which asks the PC what to do.          *)
(* How the question reaches the PC and the answer comes back is Link's     *)
(* subject; here an answer arrives some time after the question.           *)
(* Nothing counts the transfers: of the last one the host keeps what it    *)
(* has met, and a packet is the last request's own or another's.           *)
(***************************************************************************)
EXTENDS Naturals

CONSTANTS
  Kinds,         \* the requests the host makes
  DataPackets    \* packets of a data stage

AllKinds == {"address", "configure", "descriptor", "status", "in", "none", "out"}

ASSUME ControlAssumption ==
  Kinds \subseteq AllKinds /\ Kinds # {} /\ DataPackets \in Nat \ {0}

VARIABLES
  \* the host
  kind,          \* of its last transfer
  stage,         \* that transfer's
  due,           \* OUT packets of its data stage still to be sent
  result,        \* how it ended
  foreign,       \* it was given a packet written for another request
  reached,       \* the device is "silent", at address 0 ("default") or "addressed"
  configured,    \* the host has configured it
  vbus, awake,   \* the cable is in; the bus is not suspended
  attached,      \* the UDCON.DETACH bit is clear: the host sees a device
  \* endpoint 0
  setup, out,    \* RXSTPI and RXOUTI
  bank,          \* the IN packet that awaits the host; when "free", TXINI is set
  last,          \* that packet ends the data stage
  stall,         \* STALLRQ
  addressed,     \* ADDEN
  flags,         \* VBUSTI, EORSTI
  \* the firmware
  pc,            \* where it is, outside interrupts
  request,       \* USB_ControlRequest
  own,           \* that is the header of the last SETUP
  left,          \* packets left of a stream that is being read or written
  deviceState,   \* USB_DeviceState
  number,        \* USB_Device_ConfigurationNumber
  interrupts,    \* the global interrupt flag
  suspi,         \* SUSPI is enabled; else WAKEUPI
  \* history
  met,           \* the last SETUP found the firmware in the main loop
  said,          \* the PC's verdict on the request
  excused,       \* since a SETUP met it, something may have held the firmware up
  doubt,         \* since the last quiet reset the two may have come to disagree
  masked         \* the cable was pulled when a reset was still to be handled

host     == <<kind, stage, due, result, foreign, reached, configured>>
bus      == <<vbus, awake, attached>>
endpoint == <<setup, out, bank, last, stall>>
device   == <<deviceState, number, suspi, interrupts>>
history  == <<met, said, excused, doubt, masked>>
vars     == <<host, bus, endpoint, addressed, flags, pc, request, own, left, device, history>>

Reads  == {"descriptor", "status", "in"}
LufasOwn == {"address", "configure", "descriptor", "status"}
Waits  == {"read", "readIN", "ask", "describe", "write", "writeOUT", "clear", "address"}

TypeOK ==
  /\ kind \in AllKinds /\ request \in AllKinds
  /\ stage \in {"idle", "data", "status"} /\ due \in 0 .. DataPackets
  /\ result \in {"open", "ok", "stalled", "given up"}
  /\ reached \in {"silent", "default", "addressed"}
  /\ {foreign, configured, vbus, awake, attached, setup, out, last, stall, addressed, own, interrupts,
      suspi, met, excused, doubt, masked} \subseteq BOOLEAN
  /\ bank \in {"free", "own", "other"}
  /\ flags \subseteq {"VBUSTI", "EORSTI"}
  /\ pc \in Waits \cup {"main", "standard", "configured", "end"}
  /\ left \in 0 .. DataPackets
  /\ deviceState \in {"Unattached", "Powered", "Default", "Addressed", "Configured", "Suspended"}
  /\ number \in {0, 1}
  /\ said \in {"nothing", "ignore", "handle", "stall"}

Init ==
  /\ kind \in Kinds /\ stage = "idle" /\ due = 0 /\ result = "open" /\ foreign = FALSE
  /\ reached = "silent" /\ configured = FALSE
  /\ vbus = TRUE /\ awake = TRUE /\ attached = FALSE
  /\ setup = FALSE /\ out = FALSE /\ bank = "free" /\ last = FALSE /\ stall = FALSE
  /\ addressed = FALSE /\ flags = {"VBUSTI"}
  /\ pc = "main" /\ request = kind /\ own = FALSE /\ left = 0
  /\ deviceState = "Unattached" /\ number = 0 /\ interrupts = TRUE /\ suspi = TRUE
  /\ met = FALSE /\ said = "nothing" /\ excused = FALSE /\ doubt = FALSE
  /\ masked = FALSE

-----------------------------------------------------------------------------
(* The host.  A transfer it has waited too long for it gives up, by the    *)
(* SETUP of the next; that one is always taken, and a packet or a STALL    *)
(* meant for the old transfer is gone.                                     *)
Live  == vbus /\ attached /\ awake /\ "EORSTI" \notin flags
Hears == Live /\ reached # "silent" /\ (addressed <=> reached = "addressed")

GivesUp == stage # "idle"
Unsure  == GivesUp /\ kind \in {"address", "configure"}

(* After a resume it gives the device time to wake up. *)
HostSetup ==
  /\ Hears /\ deviceState # "Suspended"
  /\ \E k \in Kinds :
       /\ k = "address" => reached = "default"
       /\ k = "configure" => reached = "addressed"
       /\ kind' = k
       /\ stage' = IF k \in Reads \cup {"out"} THEN "data" ELSE "status"
       /\ due' = IF k = "out" THEN DataPackets ELSE 0
  /\ result' = "open" /\ foreign' = FALSE
  /\ setup' = TRUE /\ bank' = "free" /\ last' = FALSE /\ stall' = FALSE
  /\ own' = FALSE /\ met' = (pc = "main")
  /\ excused' = (pc # "main")
  /\ doubt' = (doubt \/ Unsure \/ pc # "main")
  /\ UNCHANGED <<reached, configured, bus, out, addressed, flags, pc, request, left, device, said,
                 masked>>

Ends(r) == stage' = "idle" /\ result' = r

HostSide == UNCHANGED <<kind, bus, setup, stall, addressed, flags, pc, request, own, left,
                        device, history>>

HostIsStalled ==
  /\ Hears /\ stage # "idle" /\ stall
  /\ Ends("stalled") /\ due' = 0
  /\ HostSide /\ UNCHANGED <<foreign, reached, configured, out, bank, last>>

(* While RXSTPI is set the endpoint answers NAK to all but a SETUP. *)
Open == Hears /\ ~setup /\ ~stall

Takes == bank' = "free" /\ last' = FALSE /\ foreign' = (foreign \/ bank = "other")

HostReads ==
  /\ Open /\ stage = "data" /\ kind \in Reads /\ bank # "free"
  /\ Takes /\ stage' = IF last THEN "status" ELSE stage
  /\ HostSide /\ UNCHANGED <<due, result, reached, configured, out>>

HostWrites ==
  /\ Open /\ stage = "data" /\ kind = "out" /\ ~out
  /\ out' = TRUE /\ due' = due - 1
  /\ stage' = IF due = 1 THEN "status" ELSE stage
  /\ HostSide /\ UNCHANGED <<result, foreign, reached, configured, bank, last>>

HostAcknowledges ==      \* the status stage of a read: an empty OUT packet
  /\ Open /\ stage = "status" /\ kind \in Reads /\ ~out
  /\ out' = TRUE /\ Ends("ok")
  /\ HostSide /\ UNCHANGED <<due, foreign, reached, configured, bank, last>>

HostIsAcknowledged ==    \* of the others: an IN packet
  /\ Open /\ stage = "status" /\ kind \notin Reads /\ bank # "free"
  /\ Takes /\ Ends("ok")
  /\ reached' = IF kind = "address" THEN "addressed" ELSE reached
  /\ configured' = (configured \/ kind = "configure")
  /\ HostSide /\ UNCHANGED <<due, out>>

Host == HostIsStalled \/ HostReads \/ HostWrites \/ HostAcknowledges \/ HostIsAcknowledged

-----------------------------------------------------------------------------
(* The cable and the bus.  The host gives up the transfer they fall into.  *)
Quiet == pc = "main" /\ ~setup
Event == excused' = (excused \/ ~Quiet)

Drop == stage' = "idle" /\ due' = 0 /\ result' = IF GivesUp THEN "given up" ELSE result

BusSide == UNCHANGED <<kind, foreign, pc, request, own, left, device, met, said>>

Unplug ==
  /\ vbus /\ Event /\ Drop /\ doubt' = (doubt \/ Unsure \/ ~Quiet)
  /\ vbus' = FALSE /\ awake' = TRUE /\ flags' = flags \cup {"VBUSTI"}
  /\ reached' = "silent" /\ configured' = FALSE
  /\ masked' = ("EORSTI" \in flags)
  /\ BusSide /\ UNCHANGED <<attached, endpoint, addressed>>

Plug ==
  /\ ~vbus /\ vbus' = TRUE /\ flags' = flags \cup {"VBUSTI"} /\ masked' = FALSE
  /\ BusSide
  /\ UNCHANGED <<stage, due, result, reached, configured, awake, attached, endpoint, addressed,
                 excused, doubt>>

Suspend ==
  /\ Live /\ reached # "silent" /\ stage = "idle" /\ awake' = FALSE
  /\ Event /\ doubt' = (doubt \/ Unsure \/ ~Quiet)
  /\ BusSide
  /\ UNCHANGED <<stage, due, result, reached, configured, vbus, attached, endpoint, addressed,
                 flags, masked>>

Resume ==
  /\ ~awake /\ awake' = TRUE
  /\ BusSide
  /\ UNCHANGED <<stage, due, result, reached, configured, vbus, attached, endpoint, addressed,
                 flags, excused, doubt, masked>>

(* The end of a reset clears ADDEN, and endpoint 0 with its flags. *)
Reset ==
  /\ vbus /\ attached /\ awake /\ "VBUSTI" \notin flags
  /\ Event /\ Drop /\ doubt' = ~Quiet
  /\ reached' = "default" /\ configured' = FALSE
  /\ setup' = FALSE /\ out' = FALSE /\ bank' = "free" /\ last' = FALSE /\ stall' = FALSE
  /\ addressed' = FALSE
  /\ flags' = flags \cup {"EORSTI"}
  /\ BusSide /\ UNCHANGED <<bus, masked>>

(* An 'S' packet from the PC, handled in the main loop: to the host the    *)
(* device comes or goes, whatever SETUP it has sent.                       *)
AttachDevice ==
  /\ pc = "main" /\ ~attached /\ attached' = TRUE
  /\ BusSide
  /\ UNCHANGED <<stage, due, result, reached, configured, vbus, awake, endpoint, addressed, flags,
                 excused, doubt, masked>>

DetachDevice ==
  /\ pc = "main" /\ attached /\ Event /\ Drop /\ doubt' = (doubt \/ Unsure \/ ~Quiet)
  /\ attached' = FALSE /\ awake' = TRUE /\ reached' = "silent" /\ configured' = FALSE
  /\ BusSide /\ UNCHANGED <<vbus, endpoint, addressed, flags, masked>>

Bus == Unplug \/ Plug \/ Suspend \/ Resume \/ Reset \/ AttachDevice \/ DetachDevice

-----------------------------------------------------------------------------
(* USB_GEN_vect.  It may come between any two steps of the main program    *)
(* unless SetAddress has turned interrupts off.                            *)
InInterrupt == interrupts /\ UNCHANGED <<host, bus, endpoint, addressed, pc, request, own, left,
                                         interrupts, history>>

VbusChanged ==
  /\ InInterrupt /\ "VBUSTI" \in flags /\ flags' = flags \ {"VBUSTI"}
  /\ deviceState' = IF vbus THEN "Powered" ELSE "Unattached"
  /\ UNCHANGED <<number, suspi>>

Suspended ==             \* a detached bus is as quiet as a suspended one
  /\ InInterrupt /\ suspi /\ vbus /\ ~(attached /\ awake)
  /\ deviceState' = "Suspended" /\ suspi' = FALSE
  /\ UNCHANGED <<number, flags>>

WokenUp ==               \* also by the first traffic after a reset
  /\ InInterrupt /\ ~suspi /\ Live
  /\ deviceState' = IF number # 0 \/ addressed THEN "Configured" ELSE "Powered"
  /\ suspi' = TRUE
  /\ UNCHANGED <<number, flags>>

(* Mutant: the configuration survives the reset. *)
EndOfResetKeepsNumber ==
  /\ InInterrupt /\ "EORSTI" \in flags /\ flags' = flags \ {"EORSTI"}
  /\ deviceState' = "Default" /\ suspi' = FALSE /\ UNCHANGED number

EndOfReset ==
  /\ InInterrupt /\ "EORSTI" \in flags /\ flags' = flags \ {"EORSTI"}
  /\ deviceState' = "Default" /\ number' = 0 /\ suspi' = FALSE

Interrupt == VbusChanged \/ Suspended \/ WokenUp \/ EndOfReset

-----------------------------------------------------------------------------
(* The firmware.  Every step leaves the rest of the world alone. *)
Firmware == UNCHANGED <<host, bus, addressed, flags, met, doubt, masked>>
Onward   == Firmware /\ UNCHANGED <<request, own>>
Packet == IF own THEN "own" ELSE "other"
Off == deviceState \in {"Unattached", "Suspended"}

(* USB_DeviceTask reads the header and EVENT_USB_Device_ControlRequest     *)
(* takes the data of a request that brings some.                           *)

(* Mutant: the header is not read. *)
BeginUnread ==
  /\ pc = "main" /\ deviceState # "Unattached" /\ setup
  /\ own' = FALSE /\ left' = (IF request = "out" THEN DataPackets ELSE 0) /\ said' = "nothing"
  /\ IF request = "out" THEN setup' = FALSE /\ pc' = "read"
                        ELSE UNCHANGED setup /\ pc' = "ask"
  /\ Firmware /\ UNCHANGED <<out, bank, last, stall, request, device, excused>>

Begin ==
  /\ pc = "main" /\ deviceState # "Unattached" /\ setup
  /\ request' = kind /\ own' = TRUE /\ said' = "nothing"
  /\ IF kind = "out" THEN setup' = FALSE /\ pc' = "read" /\ left' = DataPackets
                     ELSE UNCHANGED setup /\ pc' = "ask" /\ left' = 0
  /\ Firmware /\ UNCHANGED <<out, bank, last, stall, device, excused>>

(* Endpoint_Read_Control_Stream_LE; its result is not looked at. *)
Read ==
  /\ pc = "read"
  /\ \/ /\ Off \/ setup
        /\ pc' = "ask" /\ left' = 0 /\ UNCHANGED out
     \/ /\ ~Off /\ ~setup /\ out
        /\ out' = FALSE /\ left' = left - 1
        /\ pc' = IF left = 1 THEN "readIN" ELSE pc
  /\ Onward /\ UNCHANGED <<setup, bank, last, stall, device, said, excused>>

ReadEnds ==
  /\ pc = "readIN" /\ (bank = "free" \/ Off) /\ pc' = "ask"
  /\ Onward /\ UNCHANGED <<endpoint, left, device, said, excused>>

(* The PC's verdict.  SET_ADDRESS and SET_CONFIGURATION its devices leave  *)
(* to the library; data that has been taken cannot be ignored.             *)
Verdicts(k) ==
  CASE k \in {"address", "configure"} -> {"ignore"}
    [] k = "out" -> {"handle", "stall"}
    [] OTHER     -> {"ignore", "handle", "stall"}

(* A request that is handled may have no data to return: an unknown one,   *)
(* or a transfer to the real device that failed (SerialAdapter.cs:73-90,   *)
(* DeviceForwarder.cs:124-129).  Nothing is written then (simulator.c:434),*)
(* and the host goes on waiting for data.                                  *)

(* Mutant: an outgoing request is handled whatever the verdict. *)
StallsLate(v) == v = "stall" /\ request # "out"

Stalls(v) == v = "stall"

Answered ==
  /\ pc = "ask"
  /\ \E v \in Verdicts(request) :
       /\ said' = v
       /\ IF Stalls(v)
          THEN /\ stall' = TRUE /\ pc' = "standard" /\ UNCHANGED <<setup, left>>
               /\ excused' = (excused \/ request \in LufasOwn)
          ELSE IF v = "ignore"
          THEN pc' = "standard" /\ UNCHANGED <<setup, stall, left, excused>>
          ELSE /\ setup' = (setup /\ request = "out")
               /\ UNCHANGED stall
               /\ \/ /\ request \in Reads
                     /\ pc' = "write" /\ left' = DataPackets /\ UNCHANGED excused
                  \/ /\ pc' = "clear" /\ left' = 0
                     /\ excused' = (excused \/ request \in Reads)
  /\ Onward /\ UNCHANGED <<out, bank, last, device>>

(* Endpoint_Write_Control_Stream_LE, called by the event handler and by    *)
(* USB_Device_GetDescriptor.                                               *)

(* Mutant: a full last packet is always followed by another. *)
WriteWithoutEnd ==
  /\ pc = "write" /\ ~Off /\ ~setup /\ ~out /\ bank = "free"
  /\ bank' = Packet /\ left' = left - 1 /\ last' = (left = 1) /\ UNCHANGED pc
  /\ Onward /\ UNCHANGED <<setup, out, stall, device, said, excused>>

InEvent == said \notin {"ignore", "stall"}
Returned == IF InEvent THEN "clear" ELSE "end"

Write ==
  /\ pc = "write"
  /\ \/ /\ Off \/ setup
        /\ pc' = Returned /\ out' = (out /\ InEvent)
        /\ left' = 0 /\ UNCHANGED <<bank, last>>
     \/ /\ ~Off /\ ~setup /\ out
        /\ pc' = "writeOUT" /\ left' = 0 /\ UNCHANGED <<out, bank, last>>
     \/ /\ ~Off /\ ~setup /\ ~out /\ bank = "free"
        /\ bank' = Packet /\ left' = left - 1 /\ last' = (left = 1)
        /\ pc' = IF left = 1 THEN "writeOUT" ELSE pc
        /\ UNCHANGED out
  /\ Onward /\ UNCHANGED <<setup, stall, device, said, excused>>

(* Its second loop; GetDescriptor then takes the OUT packet. *)
WriteEnds ==
  /\ pc = "writeOUT" /\ (out \/ Off)
  /\ pc' = Returned /\ out' = (out /\ InEvent)
  /\ Onward /\ UNCHANGED <<setup, bank, last, stall, left, device, said, excused>>

(* Endpoint_ClearStatusStage. *)
Cleared ==
  IF InEvent THEN "standard"
  ELSE CASE request = "address"   -> "address"
         [] request = "configure" -> "configured"
         [] OTHER                       -> "end"

(* Mutant: the wait is for the host's packet, whatever the direction. *)
ClearStatusStageOut ==
  /\ pc = "clear" /\ pc' = Cleared
  /\ out \/ deviceState = "Unattached"
  /\ out' = FALSE
  /\ Onward /\ UNCHANGED <<setup, bank, last, stall, left, device, said, excused>>

(* Mutant: no wait looks at the device's state. *)
ClearStatusStageBlind ==
  /\ pc = "clear" /\ pc' = Cleared
  /\ IF request \in Reads
     THEN out /\ out' = FALSE /\ UNCHANGED <<bank, last>>
     ELSE bank = "free" /\ bank' = Packet /\ last' = TRUE /\ UNCHANGED out
  /\ Onward /\ UNCHANGED <<setup, stall, left, device, said, excused>>

ClearStatusStage ==
  /\ pc = "clear" /\ pc' = Cleared
  /\ IF request \in Reads
     THEN /\ out \/ deviceState = "Unattached"
          /\ out' = FALSE /\ UNCHANGED <<bank, last>>
     ELSE /\ bank = "free" \/ deviceState = "Unattached"
          /\ IF bank = "free" THEN bank' = Packet /\ last' = TRUE ELSE UNCHANGED <<bank, last>>
          /\ UNCHANGED out
  /\ Onward /\ UNCHANGED <<setup, stall, left, device, said, excused>>

(* USB_Device_ProcessControlRequest after the event: a SETUP that is still *)
(* set, or is set again, is taken for the request in USB_ControlRequest.   *)
Standard ==
  /\ pc = "standard"
  /\ LET k == IF setup THEN request ELSE "nothing" IN
       \/ /\ k \notin {"address", "configure", "descriptor", "status"}
          /\ pc' = "end" /\ UNCHANGED <<setup, bank, last, number, interrupts>>
       \/ /\ k = "descriptor"
          /\ pc' = "describe" /\ UNCHANGED <<setup, bank, last, number, interrupts>>
       \/ /\ k = "address" /\ setup' = FALSE /\ interrupts' = FALSE
          /\ pc' = "clear" /\ UNCHANGED <<bank, last, number>>
       \/ /\ k = "configure" /\ setup' = FALSE /\ number' = 1
          /\ pc' = "clear" /\ UNCHANGED <<bank, last, interrupts>>
       \/ /\ k = "status" /\ setup' = FALSE /\ bank' = Packet /\ last' = TRUE
          /\ pc' = "clear" /\ UNCHANGED <<number, interrupts>>
  /\ Onward /\ UNCHANGED <<out, stall, left, deviceState, suspi, said, excused>>

(* CALLBACK_USB_GetDescriptor: the PC has one, or NO_DESCRIPTOR. *)
Described ==
  /\ pc = "describe"
  /\ \/ pc' = "end" /\ UNCHANGED <<setup, left>>
     \/ pc' = "write" /\ setup' = FALSE /\ left' = DataPackets
  /\ Onward /\ UNCHANGED <<out, bank, last, stall, device, said, excused>>

SetAddress ==
  /\ pc = "address" /\ bank = "free"
  /\ addressed' = TRUE /\ deviceState' = "Addressed" /\ interrupts' = TRUE
  /\ pc' = "end"
  /\ UNCHANGED <<host, bus, endpoint, flags, request, own, left, number, suspi, history>>

SetConfiguration ==
  /\ pc = "configured" /\ pc' = "end"
  /\ deviceState' = IF number # 0 \/ addressed THEN "Configured" ELSE "Powered"
  /\ Onward /\ UNCHANGED <<endpoint, left, number, suspi, interrupts, said, excused>>

(* A SETUP still set, or set meanwhile, is answered with a STALL. *)
End ==
  /\ pc = "end" /\ pc' = "main"
  /\ setup' = FALSE /\ stall' = (stall \/ setup)
  /\ Onward /\ UNCHANGED <<out, bank, last, left, device, said, excused>>

Main == \/ Begin \/ Read \/ ReadEnds \/ Write \/ WriteEnds \/ ClearStatusStage
        \/ Standard \/ SetAddress \/ SetConfiguration \/ End
Pc   == Answered \/ Described

Next == HostSetup \/ Host \/ Bus \/ Interrupt \/ Main \/ Pc

(* The processor runs, its interrupts come, the PC answers, and a host that*)
(* has begun a transfer goes on with it.                                   *)
Spec == /\ Init /\ [][Next]_vars
        /\ WF_vars(Main) /\ WF_vars(Pc) /\ WF_vars(Host) /\ WF_vars(Interrupt)

-----------------------------------------------------------------------------
(* What the host is sent in a transfer was written for that transfer's     *)
(* request, provided its SETUP found the firmware in the main loop: then   *)
(* neither a transfer given up before nor a bus reset can mix the two.     *)
AnswerIsOwn == met => ~foreign

(* Under the same proviso the host learns what was decided: success is the *)
(* PC's or the library's, and a STALL is meant for this request            *)
(* (simulator.c:419-445, DeviceStandardReq.c:66-119).                      *)
ResultIsVerdict ==
  met =>
    /\ result = "ok" => own /\ (said = "handle" \/ (said = "ignore" /\ request \in LufasOwn))
    /\ result = "stalled" =>
         own /\ (said = "stall" \/ (said = "ignore" /\ request \in {"descriptor", "in", "none"}))

(* In the main loop, with nothing pending, host and device agree on whether*)
(* the device has an address and a configuration, if since the last reset  *)
(* that found the firmware idle no SETUP was late, no other bus event fell *)
(* into a request, and the host gave up no transfer that sets them.        *)
HostAndDeviceAgree ==
  /\ pc = "main" /\ stage = "idle" /\ flags = {} /\ reached # "silent"
  /\ ~doubt
  =>
    /\ addressed <=> reached = "addressed"
    /\ (number # 0) <=> configured
    /\ awake /\ suspi /\ configured => deviceState = "Configured"

(* The firmware comes back from every request whose SETUP found it in the  *)
(* main loop, whatever became of those before, unless the next SETUP comes *)
(* while it is at it, or a bus event; a request that LUFA knows is stalled *)
(* (simulator.c:423-427 leaves SETUP set); or a read is handled with no    *)
(* data to return (simulator.c:434-440).                                   *)
HandlerReturns == pc # "main" ~> pc = "main" \/ excused

(* Whatever has happened, pulling the cable ends every wait of a handler,  *)
(* but for SetAddress's with interrupts off (DeviceStandardReq.c:126-132), *)
(* and unless the interrupt finds a reset as well: it looks at the cable   *)
(* first, and ends in the state Default (USBInterrupt_AVR8.c:90-166).      *)
UnpluggingEndsWaits == ~vbus ~> vbus \/ pc = "main" \/ ~interrupts \/ masked

=============================================================================
