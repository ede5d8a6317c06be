------------------------ MODULE ControlTransferProofs ------------------------
(***************************************************************************)
(* Proofs about ControlTransfer for every set of requests and every length *)
(* of the data stage: answers are not mixed up, the host learns what was   *)
(* decided, host and device agree, and the counts keep their range.        *)
(***************************************************************************)
EXTENDS ControlTransfer, TLAPS

(* From the header's reading to the end of the request, if the SETUP found *)
(* the firmware in the main loop, USB_ControlRequest is that SETUP's.      *)
Ours ==
  met => /\ ~foreign /\ bank # "other"
         /\ pc # "main" => own
         /\ own => request = kind

(* The SETUP is still to be read: it keeps the host from going on. *)
Unread ==
  met /\ ~own => /\ bank = "free" /\ ~stall
                 /\ setup \/ stage = "idle"
                 /\ result \in {"open", "given up"}

(* The PC has not answered: the host has no packet it could take.  SETUP   *)
(* has been cleared only for a request that brings data.                   *)
BeforeAnswer == {"read", "readIN", "ask"}
Asking ==
  met /\ pc \in BeforeAnswer =>
    /\ said = "nothing" /\ bank = "free" /\ ~stall /\ result \in {"open", "given up"}
    /\ IF request = "out" THEN ~setup ELSE pc = "ask" /\ (setup \/ stage = "idle")

Answers ==
  met /\ own /\ pc \notin BeforeAnswer => said # "nothing" /\ (pc = "main" => ~setup)

(* After "handle" the event has cleared SETUP, and nobody stalls. *)
Handled == met /\ own /\ said = "handle" => ~setup /\ ~stall /\ result # "stalled"

(* After "stall" the endpoint is stalled until the host goes on. *)
Refused == met /\ own /\ said = "stall" => (stall \/ stage = "idle") /\ result # "ok"

(* After "ignore" SETUP is set until the library clears it for a request   *)
(* that it serves, or stalls at the end.                                   *)
MayBeStalled == {"descriptor", "in", "none"}
Ignored ==
  met /\ own /\ said = "ignore" =>
    /\ request # "out"
    /\ stall \/ result = "stalled" => request \in MayBeStalled
    /\ request \notin LufasOwn => (setup \/ stall \/ stage = "idle") /\ result # "ok"
    /\ pc \notin {"standard", "describe", "end"} => ~setup
    /\ pc = "describe" => request = "descriptor"
    /\ pc = "end" /\ setup => request \in MayBeStalled

Known ==
  /\ kind \in AllKinds /\ request \in AllKinds
  /\ said \in {"nothing", "ignore", "handle", "stall"}

ControlInv == Ours /\ Unread /\ Asking /\ Answers /\ Handled /\ Refused /\ Ignored /\ Known

LEMMA InitControl == Init => ControlInv
BY ControlAssumption
   DEF Init, ControlInv, Ours, Unread, Asking, Answers, Handled, Refused, Ignored, Known,
       BeforeAnswer

-----------------------------------------------------------------------------
(* A SETUP begins a new transfer, which is ours if main is there to see it. *)
LEMMA HostSetupControl == ControlInv /\ HostSetup => ControlInv'
<1> SUFFICES ASSUME ControlInv, HostSetup PROVE ControlInv'
  OBVIOUS
<1>1. /\ result' = "open" /\ ~foreign' /\ setup' /\ bank' = "free" /\ ~stall' /\ ~own'
      /\ met' = (pc = "main") /\ pc' = pc /\ said' = said
  BY DEF HostSetup
<1>2. Ours' /\ Unread'
  BY <1>1 DEF Ours, Unread
<1>3. Asking'
  BY <1>1 DEF Asking, BeforeAnswer
<1>4. Answers' /\ Handled' /\ Refused' /\ Ignored'
  BY <1>1 DEF Answers, Handled, Refused, Ignored
<1>5. Known'
  BY <1>1, ControlAssumption DEF ControlInv, Known, HostSetup
<1> QED BY <1>2, <1>3, <1>4, <1>5 DEF ControlInv

(* The host takes, sends and is stalled; it succeeds only after a packet,  *)
(* which is there only once the PC has answered, or without SETUP.         *)
LEMMA HostControl == ControlInv /\ Host => ControlInv'
<1> SUFFICES ASSUME ControlInv, Host PROVE ControlInv'
  OBVIOUS
<1> USE DEF ControlInv
<1>1. /\ kind' = kind /\ setup' = setup /\ stall' = stall /\ pc' = pc /\ request' = request
      /\ own' = own /\ met' = met /\ said' = said
      /\ stage # "idle"
  BY DEF Host, HostIsStalled, HostReads, HostWrites, HostAcknowledges, HostIsAcknowledged,
         HostSide, history
<1>2. /\ bank' = bank \/ bank' = "free"
      /\ foreign' => foreign \/ bank = "other"
  <2>1. CASE HostIsStalled \/ HostWrites \/ HostAcknowledges
    BY <2>1 DEF HostIsStalled, HostWrites, HostAcknowledges
  <2>2. CASE HostReads \/ HostIsAcknowledged
    BY <2>2 DEF HostReads, HostIsAcknowledged, Takes
  <2> QED BY <2>1, <2>2 DEF Host
<1>3. \/ result' = "stalled" /\ stall
      \/ result' = result /\ ~setup /\ ~stall
      \/ result' = "ok" /\ ~setup /\ ~stall /\ (kind \in Reads \/ bank # "free")
  BY DEF Host, HostIsStalled, HostReads, HostWrites, HostAcknowledges, HostIsAcknowledged, Open,
         Ends
<1>4. Ours' /\ Known'
  BY <1>1, <1>2 DEF Ours, Known
<1>5. Unread'
  BY <1>1, <1>2, <1>3 DEF Unread
<1>6. Asking'
  BY <1>1, <1>2, <1>3 DEF Asking, Ours, Reads, BeforeAnswer
<1>7. Answers' /\ Handled' /\ Refused'
  BY <1>1, <1>3 DEF Answers, Handled, Refused
<1>8. Ignored'
  BY <1>1, <1>3 DEF Ignored
<1> QED BY <1>4, <1>5, <1>6, <1>7, <1>8

(* The bus at most ends the transfer, and a reset clears the endpoint too. *)
LEMMA BusControl == ControlInv /\ Bus => ControlInv'
<1> SUFFICES ASSUME ControlInv, Bus PROVE ControlInv'
  OBVIOUS
<1> USE DEF ControlInv
<1>1. /\ kind' = kind /\ foreign' = foreign /\ pc' = pc /\ request' = request /\ own' = own
      /\ met' = met /\ said' = said
  BY DEF Bus, Unplug, Plug, Suspend, Resume, Reset, AttachDevice, DetachDevice, BusSide
<1>2. \/ stage' = stage /\ result' = result
      \/ stage' = "idle" /\ result' \in {result, "given up"}
  BY DEF Bus, Unplug, Plug, Suspend, Resume, Reset, AttachDevice, DetachDevice, Drop
<1>3. \/ setup' = setup /\ stall' = stall /\ bank' = bank
      \/ ~setup' /\ ~stall' /\ bank' = "free" /\ stage' = "idle"
  BY DEF Bus, Unplug, Plug, Suspend, Resume, Reset, AttachDevice, DetachDevice, Drop, endpoint
<1>4. Ours' /\ Known'
  BY <1>1, <1>3 DEF Ours, Known
<1>5. Unread'
  BY <1>1, <1>2, <1>3 DEF Unread
<1>6. Asking'
  <2>1. CASE setup' = setup /\ stall' = stall /\ bank' = bank
    BY <1>1, <1>2, <2>1 DEF Asking
  <2>2. CASE ~setup' /\ ~stall' /\ bank' = "free" /\ stage' = "idle"
    BY <1>1, <1>2, <2>2 DEF Asking
  <2> QED BY <1>3, <2>1, <2>2
<1>7. Answers'
  BY <1>1, <1>3 DEF Answers
<1>10. Refused'
  BY <1>1, <1>2, <1>3 DEF Refused
<1>9. Handled'
  BY <1>1, <1>2, <1>3 DEF Handled
<1>8. Ignored'
  BY <1>1, <1>2, <1>3 DEF Ignored
<1> QED BY <1>4, <1>5, <1>6, <1>7, <1>8, <1>9, <1>10

(* What the invariant speaks of; interrupts leave it alone. *)
seen == <<kind, foreign, pc, request, own, met, said, stage, result, setup, stall, bank>>

LEMMA SeenUnchanged == ControlInv /\ UNCHANGED seen => ControlInv'
<1> SUFFICES ASSUME ControlInv, UNCHANGED seen PROVE ControlInv'
  OBVIOUS
<1> USE DEF ControlInv, seen
<1>1. Ours' /\ Unread'
  BY DEF Ours, Unread
<1>2. Asking'
  BY DEF Asking
<1>3. Answers' /\ Known'
  BY DEF Answers, Known
<1>4. Handled' /\ Refused'
  BY DEF Handled, Refused
<1>5. Ignored'
  BY DEF Ignored
<1> QED BY <1>1, <1>2, <1>3, <1>4, <1>5

LEMMA InterruptControl == ControlInv /\ Interrupt => ControlInv'
<1>1. Interrupt => UNCHANGED seen
  BY DEF Interrupt, VbusChanged, Suspended, WokenUp, EndOfReset, InInterrupt, host, endpoint,
         history, seen
<1> QED BY <1>1, SeenUnchanged

-----------------------------------------------------------------------------
(* The firmware.                                                           *)
Serve == \/ Read \/ ReadEnds \/ Write \/ WriteEnds \/ ClearStatusStage
         \/ Described \/ SetAddress \/ SetConfiguration

LEMMA FirmwareFrame ==
  Main \/ Pc => /\ kind' = kind /\ foreign' = foreign /\ met' = met
                /\ stage' = stage /\ result' = result
BY DEF Main, Pc, Begin, Read, ReadEnds, Write, WriteEnds, ClearStatusStage, Standard, SetAddress,
       SetConfiguration, End, Answered, Described, Onward, Firmware, host, history

(* The header is read, and with it the request becomes ours. *)
LEMMA BeginControl == ControlInv /\ Begin => ControlInv'
<1> SUFFICES ASSUME ControlInv, Begin PROVE ControlInv'
  OBVIOUS
<1> USE DEF ControlInv
<1>1. /\ kind' = kind /\ foreign' = foreign /\ met' = met /\ stage' = stage /\ result' = result
  BY FirmwareFrame DEF Main
<1>2. /\ pc = "main" /\ setup /\ request' = kind /\ own' /\ said' = "nothing"
      /\ bank' = bank /\ stall' = stall
      /\ IF kind = "out" THEN ~setup' /\ pc' = "read" ELSE setup' /\ pc' = "ask"
  BY DEF Begin
<1>3. met => ~own
  BY <1>2 DEF Answers, BeforeAnswer
<1>4. Ours' /\ Known'
  BY <1>1, <1>2 DEF Ours, Known
<1>5. Asking'
  BY <1>1, <1>2, <1>3 DEF Unread, Asking
<1>6. Unread' /\ Answers' /\ Handled' /\ Refused' /\ Ignored'
  BY <1>2 DEF Unread, Answers, Handled, Refused, Ignored, BeforeAnswer
<1> QED BY <1>4, <1>5, <1>6

(* The PC's verdict; until it came nothing was decided. *)
LEMMA AnsweredControl == ControlInv /\ Answered => ControlInv'
<1> SUFFICES ASSUME ControlInv, Answered PROVE ControlInv'
  OBVIOUS
<1> USE DEF ControlInv
<1>1. /\ kind' = kind /\ foreign' = foreign /\ met' = met /\ stage' = stage /\ result' = result
  BY FirmwareFrame DEF Pc
<1>2. /\ pc = "ask" /\ request' = request /\ own' = own /\ bank' = bank
      /\ pc' \in {"standard", "write", "clear"}
  BY DEF Answered, Onward
<1>3. \/ said' = "stall" /\ stall' /\ setup' = setup
      \/ /\ said' = "ignore" /\ stall' = stall /\ setup' = setup
         /\ request # "out" /\ pc' = "standard"
      \/ said' = "handle" /\ stall' = stall /\ (setup' => setup /\ request = "out")
  BY DEF Answered, Stalls, Verdicts
<1>4. Ours' /\ Known'
  BY <1>1, <1>2, <1>3 DEF Ours, Known
<1>5. met => own /\ ~stall /\ result \in {"open", "given up"} /\ bank = "free"
             /\ (IF request = "out" THEN ~setup ELSE setup \/ stage = "idle")
  BY <1>2 DEF Ours, Asking, BeforeAnswer
<1>6. Unread' /\ Asking' /\ Answers'
  BY <1>1, <1>2, <1>3, <1>5 DEF Unread, Asking, Answers, BeforeAnswer
<1>7. Handled' /\ Refused' /\ Ignored'
  <2>1. CASE said' = "stall" /\ stall'
    BY <1>1, <1>5, <2>1 DEF Handled, Refused, Ignored
  <2>2. CASE /\ said' = "ignore" /\ stall' = stall /\ setup' = setup
             /\ request # "out" /\ pc' = "standard"
    BY <1>1, <1>2, <1>5, <2>2 DEF Handled, Refused, Ignored
  <2>3. CASE said' = "handle" /\ stall' = stall /\ (setup' => setup /\ request = "out")
    BY <1>1, <1>5, <2>3 DEF Handled, Refused, Ignored
  <2> QED BY <1>3, <2>1, <2>2, <2>3
<1> QED BY <1>4, <1>6, <1>7

(* The steps that serve a request decide nothing. *)
LEMMA ServeControl == ControlInv /\ Serve => ControlInv'
<1> SUFFICES ASSUME ControlInv, Serve PROVE ControlInv'
  OBVIOUS
<1> USE DEF ControlInv
<1>1. /\ kind' = kind /\ foreign' = foreign /\ met' = met /\ stage' = stage /\ result' = result
  BY FirmwareFrame DEF Main, Pc, Serve
<1>2. request' = request /\ own' = own /\ said' = said /\ stall' = stall
  BY DEF Serve, Read, ReadEnds, Write, WriteEnds, ClearStatusStage, Described, SetAddress,
         SetConfiguration, Onward, endpoint, history
<1>3. /\ pc # "main" /\ pc' # "main"
      /\ bank' = bank \/ (bank' = Packet /\ pc \notin BeforeAnswer)
  <2>1. CASE Write \/ ClearStatusStage
    BY <2>1 DEF Write, ClearStatusStage, Returned, Cleared, BeforeAnswer
  <2>2. CASE Read \/ ReadEnds \/ WriteEnds \/ Described \/ SetAddress \/ SetConfiguration
    BY <2>2 DEF Read, ReadEnds, WriteEnds, Described, SetAddress, SetConfiguration, endpoint,
       Returned
  <2> QED BY <2>1, <2>2 DEF Serve
<1>4. \/ pc \in {"read", "readIN"} /\ pc' \in BeforeAnswer /\ setup' = setup
      \/ pc = "describe" /\ ((pc' = "end" /\ setup' = setup) \/ (pc' = "write" /\ ~setup'))
      \/ /\ pc \notin BeforeAnswer \cup {"standard", "describe", "end"}
         /\ pc' \notin BeforeAnswer \cup {"describe"} /\ setup' = setup
  <2>1. CASE Read \/ ReadEnds
    BY <2>1 DEF Read, ReadEnds, endpoint, BeforeAnswer
  <2>2. CASE Described
    BY <2>2 DEF Described
  <2>3. CASE Write \/ WriteEnds
    BY <2>3 DEF Write, WriteEnds, Returned, BeforeAnswer
  <2>4. CASE ClearStatusStage \/ SetAddress \/ SetConfiguration
    BY <2>4 DEF ClearStatusStage, SetAddress, SetConfiguration, Cleared, endpoint, BeforeAnswer
  <2> QED BY <2>1, <2>2, <2>3, <2>4 DEF Serve
<1>5. Ours' /\ Known'
  BY <1>1, <1>2, <1>3 DEF Ours, Known, Packet
<1>6. Unread'
  BY <1>1, <1>2, <1>3 DEF Ours, Unread
<1>7. Asking'
  <2>1. CASE pc \in {"read", "readIN"}
    <3>1. bank' = bank /\ setup' = setup /\ pc' \in BeforeAnswer
      BY <1>3, <1>4, <2>1 DEF BeforeAnswer
    <3> QED BY <1>1, <1>2, <2>1, <3>1 DEF Asking, BeforeAnswer
  <2>2. CASE pc \notin {"read", "readIN"}
    BY <1>4, <2>2 DEF Asking, BeforeAnswer
  <2> QED BY <2>1, <2>2
<1>8. Answers'
  BY <1>1, <1>2, <1>3, <1>4 DEF Answers, BeforeAnswer
<1>9. Handled'
  BY <1>1, <1>2, <1>4 DEF Handled
<1>10. Refused'
  BY <1>1, <1>2 DEF Refused
<1>11. Ignored'
  <2>1. CASE pc = "describe"
    BY <1>1, <1>2, <1>4, <2>1 DEF Ignored, LufasOwn, MayBeStalled
  <2>2. CASE pc \in {"read", "readIN"}
    BY <1>1, <1>2, <1>3, <2>2 DEF Ours, Asking, Ignored, BeforeAnswer
  <2>3. CASE pc \notin {"read", "readIN", "describe"}
    BY <1>1, <1>2, <1>4, <2>3 DEF Ignored, BeforeAnswer
  <2> QED BY <2>1, <2>2, <2>3
<1> QED BY <1>5, <1>6, <1>7, <1>8, <1>9, <1>10, <1>11

(* The library takes a request the PC has not handled, if SETUP is set. *)
LEMMA StandardControl == ControlInv /\ Standard => ControlInv'
<1> SUFFICES ASSUME ControlInv, Standard PROVE ControlInv'
  OBVIOUS
<1> USE DEF ControlInv
<1>1. /\ kind' = kind /\ foreign' = foreign /\ met' = met /\ stage' = stage /\ result' = result
  BY FirmwareFrame DEF Main
<1>2. /\ pc = "standard" /\ request' = request /\ own' = own /\ said' = said /\ stall' = stall
      /\ bank' = bank \/ bank' = Packet
  BY DEF Standard, Onward
<1>3. \/ pc' = "end" /\ setup' = setup /\ (setup => request \notin LufasOwn)
      \/ pc' = "describe" /\ setup' = setup /\ request = "descriptor"
      \/ pc' = "clear" /\ ~setup' /\ request \in LufasOwn
  BY DEF Standard, LufasOwn
<1>4. Ours' /\ Known'
  BY <1>1, <1>2 DEF Ours, Known, Packet
<1>5. Unread' /\ Asking' /\ Answers'
  BY <1>1, <1>2, <1>3 DEF Ours, Unread, Asking, Answers, BeforeAnswer
<1>6. Handled' /\ Refused'
  BY <1>1, <1>2, <1>3 DEF Handled, Refused
<1>7. Ignored'
  <2>1. CASE pc' = "end"
    BY <1>1, <1>2, <1>3, <2>1 DEF Ignored, MayBeStalled, LufasOwn, Known, AllKinds
  <2>2. CASE pc' = "describe"
    BY <1>1, <1>2, <1>3, <2>2 DEF Ignored
  <2>3. CASE pc' = "clear"
    BY <1>1, <1>2, <1>3, <2>3 DEF Ignored, LufasOwn
  <2> QED BY <1>3, <2>1, <2>2, <2>3
<1> QED BY <1>4, <1>5, <1>6, <1>7

(* What is still to be read is stalled. *)
LEMMA EndControl == ControlInv /\ End => ControlInv'
<1> SUFFICES ASSUME ControlInv, End PROVE ControlInv'
  OBVIOUS
<1> USE DEF ControlInv
<1>1. /\ kind' = kind /\ foreign' = foreign /\ met' = met /\ stage' = stage /\ result' = result
  BY FirmwareFrame DEF Main
<1>2. /\ pc = "end" /\ pc' = "main" /\ ~setup' /\ (stall' <=> stall \/ setup)
      /\ request' = request /\ own' = own /\ said' = said /\ bank' = bank
  BY DEF End, Onward
<1>3. Ours' /\ Known'
  BY <1>1, <1>2 DEF Ours, Known
<1>4. Unread' /\ Asking' /\ Answers'
  BY <1>1, <1>2 DEF Ours, Unread, Asking, Answers, BeforeAnswer
<1>5. Handled' /\ Refused'
  BY <1>1, <1>2 DEF Handled, Refused
<1>6. Ignored'
  BY <1>1, <1>2 DEF Ignored, MayBeStalled, LufasOwn
<1> QED BY <1>3, <1>4, <1>5, <1>6

-----------------------------------------------------------------------------
LEMMA ControlStep == ControlInv /\ [Next]_vars => ControlInv'
<1> SUFFICES ASSUME ControlInv, [Next]_vars PROVE ControlInv'
  OBVIOUS
<1>1. CASE HostSetup \/ Host
  BY <1>1, HostSetupControl, HostControl
<1>2. CASE Bus \/ Interrupt
  BY <1>2, BusControl, InterruptControl
<1>3. CASE Main \/ Pc
  BY <1>3, BeginControl, AnsweredControl, ServeControl, StandardControl, EndControl
     DEF Main, Pc, Serve
<1>4. CASE UNCHANGED vars
  BY <1>4, SeenUnchanged DEF vars, host, endpoint, history, seen
<1> QED BY <1>1, <1>2, <1>3, <1>4 DEF Next

(* ControlInv holds in every state. *)
THEOREM ControlInvariant == Spec => []ControlInv
<1>1. Init => ControlInv                     BY InitControl
<1>2. ControlInv /\ [Next]_vars => ControlInv'  BY ControlStep
<1> QED BY <1>1, <1>2, PTL DEF Spec

(* Whatever was given up, reset or unplugged before, the host is given no  *)
(* packet written for another request, if the firmware was in its main loop*)
(* when the SETUP came (simulator.c:419-445).                              *)
THEOREM AnswersNotMixed == Spec => []AnswerIsOwn
<1>1. ControlInv => AnswerIsOwn  BY DEF ControlInv, Ours, AnswerIsOwn
<1> QED BY <1>1, ControlInvariant, PTL

(* The host succeeds or is stalled as the PC and the library decided on its*)
(* own request (simulator.c:419-445, DeviceStandardReq.c:66-119).          *)
THEOREM HostLearnsVerdict == Spec => []ResultIsVerdict
<1>1. ControlInv => ResultIsVerdict
  <2> SUFFICES ASSUME ControlInv, met
      PROVE /\ result = "ok" =>
                 own /\ (said = "handle" \/ (said = "ignore" /\ request \in LufasOwn))
            /\ result = "stalled" =>
                 own /\ (said = "stall" \/ (said = "ignore" /\ request \in MayBeStalled))
    BY DEF ResultIsVerdict, MayBeStalled
  <2>1. result \in {"ok", "stalled"} => own /\ said # "nothing"
    BY DEF ControlInv, Unread, Asking, Answers
  <2> QED BY <2>1 DEF ControlInv, Handled, Refused, Ignored, Known
<1> QED BY <1>1, ControlInvariant, PTL
-----------------------------------------------------------------------------
(* Host and device agree.                                                  *)
Calm    == ~doubt
Busy    == pc # "main" \/ setup
Setting == {"address", "configure"}

(* What the host knows of the device while a transfer is open. *)
OnBus ==
  /\ ~vbus \/ "VBUSTI" \in flags => reached = "silent"
  /\ vbus /\ "VBUSTI" \notin flags => deviceState # "Unattached"
  /\ "EORSTI" \in flags => reached # "addressed"
  /\ configured => reached = "addressed"
  /\ stage # "idle" => Live /\ reached # "silent"
  /\ stage # "idle" /\ kind = "address" => reached = "default"
  /\ stage # "idle" /\ kind = "configure" => reached = "addressed"
  /\ kind \in Setting => stage # "data"

(* Which request brings the firmware where. *)
Places ==
  /\ pc \in {"write", "writeOUT"} => request \in Reads
  /\ pc = "describe" => request = "descriptor"
  /\ pc = "address" => request = "address"
  /\ pc = "configured" => request = "configure"
  /\ met /\ own /\ request \in Setting => said \in {"nothing", "ignore"}

(* As long as nothing has disturbed a transfer, a request that is being    *)
(* served found the firmware in the main loop, and the bus is up.          *)
Present ==
  Calm => /\ Busy => met /\ Live /\ reached # "silent"
          /\ stage # "idle" => met

(* Until SETUP is cleared the host gets no status. *)
Pending ==
  Calm /\ kind \in Setting =>
    /\ setup => stage = "status" /\ bank = "free"
    /\ pc = "clear" => stage = "status" /\ bank = "free"

(* The address counts for the host from the status packet on, and for the  *)
(* device from when it sees that the packet has been taken.                *)
Address ==
  Calm =>
    /\ pc = "address" =>
         /\ ~configured
         /\ IF bank = "free" THEN reached = "addressed"
                             ELSE reached = "default" /\ stage = "status"
    /\ reached # "silent" /\ pc # "address" => (addressed <=> reached = "addressed")
    /\ kind = "address" /\ stage = "status" /\ bank # "free" => pc = "address"

(* The configuration counts for the device first. *)
Status == kind = "configure" /\ stage = "status"
Configuration ==
  Calm =>
    /\ reached # "silent" /\ "EORSTI" \notin flags /\ number # 0 /\ ~configured => Status
    /\ configured \/ (Status /\ bank # "free") => number # 0
    /\ pc \in {"clear", "configured"} /\ request = "configure" => number # 0
    /\ suspi /\ (configured \/ (Status /\ bank # "free")) =>
         deviceState = "Configured" \/ pc = "configured"

AgreeInv == OnBus /\ Places /\ Present /\ Pending /\ Address /\ Configuration

(* The request being served is the host's last. *)
LEMMA ServedIsLast ==
  ControlInv /\ AgreeInv /\ Calm /\ pc # "main" => met /\ own /\ request = kind
BY DEF ControlInv, AgreeInv, Ours, Present, Busy

LEMMA InitAgree == Init => AgreeInv
<1> SUFFICES ASSUME Init PROVE AgreeInv
  OBVIOUS
<1>1. OnBus /\ Places
  BY DEF Init, OnBus, Places, Setting
<1>2. Present /\ Pending
  BY DEF Init, Present, Pending, Busy
<1>3. Address /\ Configuration
  BY DEF Init, Address, Configuration, Status
<1> QED BY <1>1, <1>2, <1>3 DEF AgreeInv

(* The next SETUP comes to a firmware that is done, or disturbs it. *)
LEMMA HostSetupAgree == ControlInv /\ AgreeInv /\ HostSetup => AgreeInv'
<1> SUFFICES ASSUME ControlInv, AgreeInv, HostSetup PROVE AgreeInv'
  OBVIOUS
<1> USE DEF AgreeInv
<1>1. /\ Hears /\ setup' /\ bank' = "free" /\ ~own' /\ met' = (pc = "main")
      /\ reached' = reached /\ configured' = configured /\ vbus' = vbus /\ awake' = awake
      /\ attached' = attached /\ addressed' = addressed /\ flags' = flags /\ pc' = pc
      /\ request' = request /\ deviceState' = deviceState /\ number' = number /\ suspi' = suspi
  BY DEF HostSetup, bus, device
<1>2. /\ kind' = "address" => reached = "default" /\ stage' = "status"
      /\ kind' = "configure" => reached = "addressed" /\ stage' = "status"
  BY DEF HostSetup, Reads
<1>3. Calm' => Calm /\ pc = "main" /\ ~(stage # "idle" /\ kind \in Setting)
  BY DEF HostSetup, Calm, Unsure, GivesUp, Setting
<1>4. OnBus' /\ Places'
  BY <1>1, <1>2 DEF OnBus, Places, Hears, Live, Setting
<1>5. Present' /\ Pending'
  BY <1>1, <1>2, <1>3 DEF Present, Pending, Hears, Live, Setting, Busy
<1>6. Address'
  BY <1>1, <1>2, <1>3 DEF Address, Hears
<1>7. Configuration'
  BY <1>1, <1>2, <1>3 DEF Configuration, Status, Setting
<1> QED BY <1>4, <1>5, <1>6, <1>7

(* The host takes the status of a request that sets something only when   *)
(* the device has set it, and is not stalled.                              *)
LEMMA HostAgree == ControlInv /\ AgreeInv /\ Host => AgreeInv'
<1> SUFFICES ASSUME ControlInv, AgreeInv, Host PROVE AgreeInv'
  OBVIOUS
<1> USE DEF AgreeInv
<1>1. /\ kind' = kind /\ setup' = setup /\ pc' = pc /\ request' = request /\ own' = own
      /\ met' = met /\ said' = said /\ vbus' = vbus /\ awake' = awake /\ attached' = attached
      /\ addressed' = addressed /\ flags' = flags /\ deviceState' = deviceState
      /\ number' = number /\ suspi' = suspi /\ doubt' = doubt
      /\ stage # "idle" /\ Hears
  BY DEF Host, HostIsStalled, HostReads, HostWrites, HostAcknowledges, HostIsAcknowledged,
         HostSide, Open, history, bus, device
<1>2. CASE HostIsStalled \/ HostReads \/ HostWrites \/ HostAcknowledges
  <2>1. /\ reached' = reached /\ configured' = configured
        /\ kind \in Setting => HostIsStalled
    BY <1>2 DEF HostIsStalled, HostReads, HostWrites, HostAcknowledges, Reads, Setting, OnBus
  <2>2. HostIsStalled => stall /\ bank' = bank /\ stage' = "idle"
    BY DEF HostIsStalled, Ends
  <2>3. Calm /\ kind \in Setting => ~stall
    <3> SUFFICES ASSUME Calm, kind \in Setting PROVE ~stall
      OBVIOUS
    <3>1. met /\ (own => said \in {"nothing", "ignore"} /\ request = kind)
      BY <1>1 DEF Present, Places, ControlInv, Ours, Setting
    <3>2. CASE ~own
      BY <3>1, <3>2 DEF ControlInv, Unread
    <3>3. CASE own /\ said = "ignore"
      BY <3>1, <3>3 DEF ControlInv, Ignored, MayBeStalled, Setting
    <3>4. CASE own /\ said = "nothing"
      BY <3>1, <3>4 DEF ControlInv, Answers, Asking
    <3> QED BY <3>1, <3>2, <3>3, <3>4
  <2>4. stage' \in {"idle", "data", "status"} /\ (kind \in Setting => stage' # "data")
    BY <2>1, <2>2, <1>2 DEF HostIsStalled, HostReads, HostWrites, HostAcknowledges, Ends, OnBus
  <2>5. OnBus' /\ Places'
    BY <1>1, <2>1, <2>4 DEF OnBus, Places, Live
  <2>6. Present' /\ Pending'
    BY <1>1, <2>1, <2>2, <2>3 DEF Present, Pending, Calm, Busy, Live
  <2>7. Address'
    <3>1. Calm /\ pc = "address" => kind \in Setting
      BY ServedIsLast DEF Places, Setting
    <3> QED BY <1>1, <2>1, <2>2, <2>3, <3>1 DEF Address, Calm, Setting
  <2>8. Configuration'
    BY <1>1, <2>1, <2>2, <2>3 DEF Configuration, Calm, Status, Setting
  <2> QED BY <2>5, <2>6, <2>7, <2>8
<1>3. CASE HostIsAcknowledged
  <2>1. /\ stage = "status" /\ stage' = "idle" /\ bank # "free" /\ bank' = "free"
        /\ reached' = (IF kind = "address" THEN "addressed" ELSE reached)
        /\ configured' = (configured \/ kind = "configure")
    BY <1>3 DEF HostIsAcknowledged, Takes, Ends
  <2>2. OnBus' /\ Places'
    BY <1>1, <2>1 DEF OnBus, Places, Live, Setting
  <2>3. Present' /\ Pending'
    BY <1>1, <2>1 DEF Present, Pending, Calm, Busy, Live
  <2>4. Address'
    <3>1. Calm /\ pc = "address" => kind = "address"
      BY ServedIsLast DEF Places
    <3> QED BY <1>1, <2>1, <3>1 DEF Address, Calm, OnBus
  <2>5. Configuration'
    BY <1>1, <2>1 DEF Configuration, Calm, Status, OnBus
  <2> QED BY <2>2, <2>3, <2>4, <2>5
<1> QED BY <1>2, <1>3 DEF Host

(* Unplugging and detaching silence the device, a reset clears the rest.   *)
LEMMA BusAgree == ControlInv /\ AgreeInv /\ Bus => AgreeInv'
<1> SUFFICES ASSUME ControlInv, AgreeInv, Bus PROVE AgreeInv'
  OBVIOUS
<1> USE DEF AgreeInv
<1>1. /\ kind' = kind /\ pc' = pc /\ request' = request /\ own' = own /\ met' = met
      /\ said' = said /\ deviceState' = deviceState /\ number' = number /\ suspi' = suspi
  BY DEF Bus, Unplug, Plug, Suspend, Resume, Reset, AttachDevice, DetachDevice, BusSide, device
<1>2. CASE Unplug \/ DetachDevice
  <2>1. /\ reached' = "silent" /\ ~configured' /\ stage' = "idle"
        /\ ~vbus' \/ (flags' = flags /\ vbus' = vbus)
        /\ bank' = bank /\ setup' = setup
    BY <1>2 DEF Unplug, DetachDevice, Drop, endpoint
  <2>2. Calm' => Calm /\ ~Busy
    BY <1>2 DEF Unplug, DetachDevice, Quiet, Calm, Busy
  <2>3. OnBus' /\ Places'
    BY <1>1, <2>1 DEF OnBus, Places
  <2>4. Present' /\ Pending'
    BY <1>1, <2>1, <2>2 DEF Present, Pending, Busy
  <2>5. Address' /\ Configuration'
    BY <1>1, <2>1, <2>2 DEF Address, Configuration, Status, Busy
  <2> QED BY <2>3, <2>4, <2>5
<1>3. CASE Reset
  <2>1. /\ reached' = "default" /\ ~configured' /\ stage' = "idle" /\ ~addressed' /\ ~setup'
        /\ flags' = flags \cup {"EORSTI"} /\ "VBUSTI" \notin flags /\ vbus /\ vbus' = vbus
    BY <1>3 DEF Reset, Drop, bus
  <2>2. Calm' => ~Busy
    BY <1>3 DEF Reset, Quiet, Calm, Busy
  <2>3. OnBus' /\ Places'
    BY <1>1, <2>1 DEF OnBus, Places
  <2>4. Present' /\ Pending'
    BY <1>1, <2>1, <2>2 DEF Present, Pending, Busy
  <2>5. Address' /\ Configuration'
    BY <1>1, <2>1, <2>2 DEF Address, Configuration, Status, Busy
  <2> QED BY <2>3, <2>4, <2>5
<1>4. CASE Plug \/ Suspend \/ Resume \/ AttachDevice
  <2>1. /\ stage' = stage /\ reached' = reached /\ configured' = configured
        /\ bank' = bank /\ setup' = setup /\ addressed' = addressed
        /\ stage = "idle" \/ ~Live
    BY <1>4 DEF Plug, Suspend, Resume, AttachDevice, endpoint, Live
  <2>2. \/ vbus' = vbus /\ flags' = flags
        \/ ~vbus /\ flags' = flags \cup {"VBUSTI"}
    BY <1>4 DEF Plug, Suspend, Resume, AttachDevice
  <2>3. Calm' => Calm /\ ~Busy
    <3>1. CASE Suspend
      BY <3>1 DEF Suspend, Quiet, Calm, Busy
    <3>2. CASE Plug \/ Resume \/ AttachDevice
      BY <3>2 DEF Plug, Resume, AttachDevice, Calm, Present, Live
    <3> QED BY <1>4, <3>1, <3>2
  <2>4. OnBus' /\ Places'
    BY <1>1, <2>1, <2>2 DEF OnBus, Places
  <2>5. Present' /\ Pending'
    BY <1>1, <2>1, <2>3 DEF Present, Pending, Busy, OnBus
  <2>6. Address' /\ Configuration'
    BY <1>1, <2>1, <2>2, <2>3 DEF Address, Configuration, Status, Busy, OnBus
  <2> QED BY <2>4, <2>5, <2>6
<1> QED BY <1>2, <1>3, <1>4 DEF Bus
(* The state on wake-up is guessed right.                                  *)
LEMMA InterruptAgree == ControlInv /\ AgreeInv /\ Interrupt => AgreeInv'
<1> SUFFICES ASSUME ControlInv, AgreeInv, Interrupt PROVE AgreeInv'
  OBVIOUS
<1> USE DEF AgreeInv
<1>1. /\ kind' = kind /\ stage' = stage /\ reached' = reached /\ configured' = configured
      /\ vbus' = vbus /\ awake' = awake /\ attached' = attached /\ setup' = setup
      /\ bank' = bank /\ addressed' = addressed /\ pc' = pc /\ request' = request
      /\ own' = own /\ met' = met /\ said' = said /\ doubt' = doubt
  BY DEF Interrupt, VbusChanged, Suspended, WokenUp, EndOfReset, InInterrupt, host, bus, endpoint,
         history
<1>2. /\ flags' \in SUBSET flags
      /\ "VBUSTI" \in flags /\ "VBUSTI" \notin flags' /\ vbus => deviceState' = "Powered"
      /\ deviceState' = "Unattached" => deviceState = "Unattached" \/ ~vbus
  BY DEF Interrupt, VbusChanged, Suspended, WokenUp, EndOfReset
<1>3. Places' /\ Pending' /\ Address'
  BY <1>1 DEF Places, Pending, Address, Calm
<1>4. OnBus'
  BY <1>1, <1>2 DEF OnBus, Live
<1>5. Present'
  BY <1>1, <1>2 DEF Present, Live, Calm, Busy
<1>6. Configuration'
  <2>2. CASE VbusChanged
    BY <1>1, <2>2 DEF VbusChanged, Configuration, Calm, Status, OnBus, Live
  <2>3. CASE Suspended
    BY <1>1, <2>3 DEF Suspended, Configuration, Calm, Status
  <2>4. CASE WokenUp
    BY <1>1, <2>4 DEF WokenUp, Configuration, Calm, Status, Live
  <2>5. CASE EndOfReset
    BY <1>1, <2>5 DEF EndOfReset, Configuration, Calm, Status, OnBus, Live, Present, Busy
  <2> QED BY <2>2, <2>3, <2>4, <2>5 DEF Interrupt
<1> QED BY <1>3, <1>4, <1>5, <1>6
LEMMA FirmwareStill ==
  Main \/ Pc => /\ kind' = kind /\ stage' = stage /\ reached' = reached
                /\ configured' = configured /\ vbus' = vbus /\ awake' = awake
                /\ attached' = attached /\ flags' = flags /\ met' = met
BY DEF Main, Pc, Begin, Read, ReadEnds, Write, WriteEnds, ClearStatusStage, Standard, SetAddress,
       SetConfiguration, End, Answered, Described, Onward, Firmware, host, bus, history

(* Reading, writing, and what begins and ends a request, leave the device's*)
(* state alone.                                                            *)
Streams == Read \/ ReadEnds \/ Write \/ WriteEnds \/ Described
LEMMA StreamsAgree == ControlInv /\ AgreeInv /\ Streams => AgreeInv'
<1> SUFFICES ASSUME ControlInv, AgreeInv, Streams PROVE AgreeInv'
  OBVIOUS
<1> USE DEF AgreeInv
<1>1. /\ kind' = kind /\ stage' = stage /\ reached' = reached /\ configured' = configured
      /\ vbus' = vbus /\ awake' = awake /\ attached' = attached /\ flags' = flags /\ met' = met
  BY FirmwareStill DEF Main, Pc, Streams
<1>2. /\ addressed' = addressed /\ deviceState' = deviceState /\ number' = number
      /\ suspi' = suspi /\ request' = request /\ own' = own /\ said' = said /\ doubt' = doubt
      /\ pc \notin {"main", "clear", "configured", "address"}
      /\ pc' \notin {"main", "configured", "address", "describe"}
  BY DEF Streams, Read, ReadEnds, Write, WriteEnds, Described, Onward, Firmware, device, Returned
<1>3. /\ pc' \in {"write", "writeOUT", "clear"} => request \in Reads
      /\ bank' = bank \/ request \in Reads
  <2>1. CASE Read \/ ReadEnds
    BY <2>1 DEF Read, ReadEnds, endpoint
  <2>2. CASE Write \/ WriteEnds
    BY <2>2 DEF Write, WriteEnds, Places
  <2>3. CASE Described
    BY <2>3 DEF Described, Places, Reads
  <2> QED BY <2>1, <2>2, <2>3 DEF Streams
<1>4. setup' => setup
  BY DEF Streams, Read, ReadEnds, Write, WriteEnds, Described, endpoint
<1>5. Calm /\ kind \in Setting => request \notin Reads
  BY <1>2, ServedIsLast DEF Reads, Setting
<1>6. OnBus' /\ Places'
  BY <1>1, <1>2, <1>3 DEF OnBus, Places, Live
<1>7. Present' /\ Pending'
  BY <1>1, <1>2, <1>3, <1>4, <1>5 DEF Present, Pending, Calm, Busy, Live
<1>8. Address'
  BY <1>1, <1>2, <1>3, <1>5 DEF Address, Calm, Setting
<1>9. Configuration'
  BY <1>1, <1>2, <1>3, <1>5 DEF Configuration, Calm, Status, Setting, Reads
<1> QED BY <1>6, <1>7, <1>8, <1>9

LEMMA BeginEndAgree == ControlInv /\ AgreeInv /\ (Begin \/ End) => AgreeInv'
<1> SUFFICES ASSUME ControlInv, AgreeInv, Begin \/ End PROVE AgreeInv'
  OBVIOUS
<1> USE DEF AgreeInv
<1>1. /\ kind' = kind /\ stage' = stage /\ reached' = reached /\ configured' = configured
      /\ vbus' = vbus /\ awake' = awake /\ attached' = attached /\ flags' = flags /\ met' = met
  BY FirmwareStill DEF Main
<1>2. /\ addressed' = addressed /\ deviceState' = deviceState /\ number' = number
      /\ suspi' = suspi /\ doubt' = doubt /\ bank' = bank
      /\ pc \in {"main", "end"} /\ pc' \in {"main", "read", "ask"}
      /\ said' = "nothing" \/ (said' = said /\ own' = own /\ request' = request)
      /\ pc' # "main" => setup
      /\ setup' => setup
  BY DEF Begin, End, Onward, Firmware, device
<1>3. OnBus' /\ Places'
  BY <1>1, <1>2 DEF OnBus, Places, Live
<1>4. Present' /\ Pending'
  BY <1>1, <1>2 DEF Present, Pending, Calm, Busy, Live
<1>5. Address' /\ Configuration'
  BY <1>1, <1>2 DEF Address, Configuration, Calm, Status
<1> QED BY <1>3, <1>4, <1>5

(* The PC's devices leave the address and the configuration to the library.*)
LEMMA AnsweredAgree == ControlInv /\ AgreeInv /\ Answered => AgreeInv'
<1> SUFFICES ASSUME ControlInv, AgreeInv, Answered PROVE AgreeInv'
  OBVIOUS
<1> USE DEF AgreeInv
<1>1. /\ kind' = kind /\ stage' = stage /\ reached' = reached /\ configured' = configured
      /\ vbus' = vbus /\ awake' = awake /\ attached' = attached /\ flags' = flags /\ met' = met
  BY FirmwareStill DEF Pc
<1>2. /\ addressed' = addressed /\ deviceState' = deviceState /\ number' = number
      /\ suspi' = suspi /\ bank' = bank /\ request' = request /\ own' = own
      /\ pc = "ask" /\ pc' \in {"standard", "write", "clear"}
      /\ pc' = "write" => request \in Reads
      /\ request \in Setting => said' = "ignore" /\ pc' = "standard"
  BY DEF Answered, Verdicts, Stalls, Onward, Firmware, device, Setting
<1>3. (setup' => setup) /\ (Calm' => Calm)
  BY DEF Answered, Onward, Firmware, Calm
<1>4. Calm => (kind \in Setting <=> request \in Setting)
  BY <1>2, ServedIsLast
<1>5. OnBus' /\ Places'
  BY <1>1, <1>2 DEF OnBus, Places, Live
<1>6. Present' /\ Pending'
  BY <1>1, <1>2, <1>3, <1>4 DEF Present, Pending, Busy, Live
<1>7. Address' /\ Configuration'
  BY <1>1, <1>2, <1>3 DEF Address, Configuration, Status, Setting
<1> QED BY <1>5, <1>6, <1>7

(* The number is set before the status, with SETUP still pending.          *)
LEMMA StandardAgree == ControlInv /\ AgreeInv /\ Standard => AgreeInv'
<1> SUFFICES ASSUME ControlInv, AgreeInv, Standard PROVE AgreeInv'
  OBVIOUS
<1> USE DEF AgreeInv
<1>1. /\ kind' = kind /\ stage' = stage /\ reached' = reached /\ configured' = configured
      /\ vbus' = vbus /\ awake' = awake /\ attached' = attached /\ flags' = flags /\ met' = met
  BY FirmwareStill DEF Main
<1>2. /\ addressed' = addressed /\ deviceState' = deviceState /\ suspi' = suspi
      /\ request' = request /\ own' = own /\ said' = said /\ doubt' = doubt
      /\ pc = "standard" /\ pc' \in {"end", "describe", "clear"}
      /\ pc' = "describe" => request = "descriptor"
      /\ setup' => setup
      /\ pc' = "clear" => setup /\ ~setup'
      /\ bank' = bank \/ request = "status"
      /\ number' = number \/ (number' = 1 /\ request = "configure" /\ setup)
      /\ pc' = "clear" /\ request = "configure" => number' = 1
  BY DEF Standard, Onward, Firmware
<1>3. Calm => request = kind
  BY <1>2, ServedIsLast
<1>4. OnBus' /\ Places'
  BY <1>1, <1>2 DEF OnBus, Places, Live
<1>5. Present' /\ Pending'
  BY <1>1, <1>2, <1>3 DEF Present, Pending, Calm, Busy, Live, Setting
<1>6. Address'
  BY <1>1, <1>2, <1>3 DEF Address, Calm
<1>7. Configuration'
  BY <1>1, <1>2, <1>3 DEF Configuration, Calm, Status, Pending, Setting
<1> QED BY <1>4, <1>5, <1>6, <1>7

(* The status packet is written for the host's request.                    *)
LEMMA ClearStatusStageAgree == ControlInv /\ AgreeInv /\ ClearStatusStage => AgreeInv'
<1> SUFFICES ASSUME ControlInv, AgreeInv, ClearStatusStage PROVE AgreeInv'
  OBVIOUS
<1> USE DEF AgreeInv
<1>1. /\ kind' = kind /\ stage' = stage /\ reached' = reached /\ configured' = configured
      /\ vbus' = vbus /\ awake' = awake /\ attached' = attached /\ flags' = flags /\ met' = met
  BY FirmwareStill DEF Main
<1>2. /\ addressed' = addressed /\ deviceState' = deviceState /\ number' = number
      /\ suspi' = suspi /\ request' = request /\ own' = own /\ said' = said /\ doubt' = doubt
      /\ setup' = setup /\ pc = "clear" /\ pc' = Cleared
      /\ IF request \in Reads \/ bank # "free" THEN bank' = bank ELSE bank' = Packet
  BY DEF ClearStatusStage, Onward, Firmware, device
<1>3. /\ pc' \in {"standard", "address", "configured", "end"}
      /\ pc' = "address" => request = "address"
      /\ pc' = "configured" => request = "configure"
  BY <1>2 DEF Cleared
<1>4. Calm => met /\ request = kind
  BY <1>2, ServedIsLast
<1>5. Calm /\ kind \in Setting => 
        /\ pc' = (IF kind = "address" THEN "address" ELSE "configured")
        /\ stage = "status" /\ bank' # "free" /\ ~setup
  <2> SUFFICES ASSUME Calm, kind \in Setting
               PROVE  /\ pc' = (IF kind = "address" THEN "address" ELSE "configured")
                      /\ stage = "status" /\ bank' # "free" /\ ~setup
    OBVIOUS
  <2>1. met /\ own /\ request = kind
    BY <1>2, ServedIsLast
  <2>2. said = "ignore"
    BY <1>2, <2>1 DEF Places, ControlInv, Answers, BeforeAnswer
  <2>3. ~setup
    BY <1>2, <2>1, <2>2 DEF ControlInv, Ignored
  <2>4. stage = "status" /\ bank = "free"
    BY <1>2 DEF Pending
  <2> QED BY <1>2, <2>1, <2>2, <2>3, <2>4 DEF Cleared, InEvent, Packet, Setting, Reads
<1>6. OnBus' /\ Places'
  BY <1>1, <1>2, <1>3 DEF OnBus, Places, Live
<1>7. Present' /\ Pending'
  BY <1>1, <1>2, <1>3, <1>5 DEF Present, Pending, Calm, Busy, Live
<1>8. Address'
  BY <1>1, <1>2, <1>3, <1>4, <1>5 DEF Address, Calm, Setting, OnBus
<1>9. Configuration'
  BY <1>1, <1>2, <1>3, <1>4, <1>5 DEF Configuration, Calm, Status, Setting
<1> QED BY <1>6, <1>7, <1>8, <1>9

(* The packet has been taken: the host uses the address already.           *)
LEMMA SetAddressAgree == ControlInv /\ AgreeInv /\ SetAddress => AgreeInv'
<1> SUFFICES ASSUME ControlInv, AgreeInv, SetAddress PROVE AgreeInv'
  OBVIOUS
<1> USE DEF AgreeInv
<1>1. /\ kind' = kind /\ stage' = stage /\ reached' = reached /\ configured' = configured
      /\ vbus' = vbus /\ awake' = awake /\ attached' = attached /\ flags' = flags /\ met' = met
  BY FirmwareStill DEF Main
<1>2. /\ addressed' /\ deviceState' = "Addressed" /\ number' = number /\ suspi' = suspi
      /\ bank = "free" /\ bank' = bank /\ request' = request /\ own' = own /\ said' = said
      /\ doubt' = doubt /\ setup' = setup /\ pc = "address" /\ pc' = "end"
  BY DEF SetAddress, endpoint, history
<1>3. Calm => request = kind
  BY <1>2, ServedIsLast
<1>4. OnBus' /\ Places'
  BY <1>1, <1>2 DEF OnBus, Places, Live
<1>5. Present' /\ Pending'
  BY <1>1, <1>2 DEF Present, Pending, Calm, Busy, Live
<1>6. Address' /\ Configuration'
  BY <1>1, <1>2, <1>3 DEF Address, Configuration, Calm, Status, Places
<1> QED BY <1>4, <1>5, <1>6

LEMMA SetConfigurationAgree == ControlInv /\ AgreeInv /\ SetConfiguration => AgreeInv'
<1> SUFFICES ASSUME ControlInv, AgreeInv, SetConfiguration PROVE AgreeInv'
  OBVIOUS
<1> USE DEF AgreeInv
<1>1. /\ kind' = kind /\ stage' = stage /\ reached' = reached /\ configured' = configured
      /\ vbus' = vbus /\ awake' = awake /\ attached' = attached /\ flags' = flags /\ met' = met
  BY FirmwareStill DEF Main
<1>2. /\ addressed' = addressed /\ number' = number /\ suspi' = suspi /\ bank' = bank
      /\ deviceState' = (IF number # 0 \/ addressed THEN "Configured" ELSE "Powered")
      /\ request' = request /\ own' = own /\ said' = said /\ doubt' = doubt /\ setup' = setup
      /\ pc = "configured" /\ pc' = "end"
  BY DEF SetConfiguration, Onward, Firmware, endpoint
<1>3. OnBus' /\ Places'
  BY <1>1, <1>2 DEF OnBus, Places, Live
<1>4. Present' /\ Pending'
  BY <1>1, <1>2 DEF Present, Pending, Calm, Busy, Live
<1>5. Address' /\ Configuration'
  BY <1>1, <1>2 DEF Address, Configuration, Calm, Status, Places
<1> QED BY <1>3, <1>4, <1>5

-----------------------------------------------------------------------------
LEMMA AgreeStep == ControlInv /\ AgreeInv /\ [Next]_vars => AgreeInv'
<1> SUFFICES ASSUME ControlInv, AgreeInv, [Next]_vars PROVE AgreeInv'
  OBVIOUS
<1>1. CASE HostSetup \/ Host
  BY <1>1, HostSetupAgree, HostAgree
<1>2. CASE Bus \/ Interrupt
  BY <1>2, BusAgree, InterruptAgree
<1>3. CASE Main \/ Pc
  BY <1>3, StreamsAgree, BeginEndAgree, AnsweredAgree, StandardAgree, ClearStatusStageAgree,
     SetAddressAgree, SetConfigurationAgree DEF Main, Pc, Streams
<1>4. CASE UNCHANGED vars
  <2> USE <1>4 DEF vars, host, bus, endpoint, device, history, AgreeInv
  <2>1. OnBus' /\ Places'
    BY DEF OnBus, Places, Live
  <2>2. Present' /\ Pending'
    BY DEF Present, Pending, Calm, Busy, Live
  <2>3. Address' /\ Configuration'
    BY DEF Address, Configuration, Calm, Status
  <2> QED BY <2>1, <2>2, <2>3
<1> QED BY <1>1, <1>2, <1>3, <1>4 DEF Next

(* Whenever the firmware is back in its main loop, it and the host hold the*)
(* same address and configuration, as long as no SETUP was late and nothing*)
(* fell into a transfer (DeviceStandardReq.c:121-200).                     *)
THEOREM AgreementKept == Spec => []HostAndDeviceAgree
<1>1. Init => AgreeInv                                BY InitAgree
<1>2. ControlInv /\ AgreeInv /\ [Next]_vars => AgreeInv'  BY AgreeStep
<1>3. AgreeInv => HostAndDeviceAgree
  BY DEF AgreeInv, HostAndDeviceAgree, Address, Configuration, Calm, Status
<1> QED BY <1>1, <1>2, <1>3, ControlInvariant, PTL DEF Spec

-----------------------------------------------------------------------------
(* The types, part by part.  The counters stay in range because the host   *)
(* still owes a packet as long as it is in the data stage of an outgoing   *)
(* transfer, and the firmware awaits or owes one as long as it is inside   *)
(* the loop that moves them.                                               *)
HostTypes ==
  /\ kind \in AllKinds /\ stage \in {"idle", "data", "status"}
  /\ due \in 0 .. DataPackets
  /\ stage = "data" /\ kind = "out" => due # 0
  /\ result \in {"open", "ok", "stalled", "given up"}
  /\ reached \in {"silent", "default", "addressed"}
  /\ foreign \in BOOLEAN /\ configured \in BOOLEAN
BusTypes ==
  /\ vbus \in BOOLEAN /\ awake \in BOOLEAN /\ attached \in BOOLEAN
  /\ flags \subseteq {"VBUSTI", "EORSTI"}
EndpointTypes ==
  /\ setup \in BOOLEAN /\ out \in BOOLEAN /\ last \in BOOLEAN /\ stall \in BOOLEAN
  /\ addressed \in BOOLEAN /\ bank \in {"free", "own", "other"}
Points == Waits \cup {"main", "standard", "configured", "end"}
FirmwareTypes ==
  /\ pc \in Points
  /\ request \in AllKinds /\ own \in BOOLEAN /\ left \in 0 .. DataPackets
  /\ pc \in {"read", "write"} => left # 0
DeviceTypes ==
  /\ deviceState \in {"Unattached", "Powered", "Default", "Addressed", "Configured", "Suspended"}
  /\ number \in {0, 1} /\ interrupts \in BOOLEAN /\ suspi \in BOOLEAN
HistoryTypes ==
  /\ met \in BOOLEAN /\ said \in {"nothing", "ignore", "handle", "stall"}
  /\ excused \in BOOLEAN /\ doubt \in BOOLEAN /\ masked \in BOOLEAN
TypeInv == HostTypes /\ BusTypes /\ EndpointTypes /\ FirmwareTypes /\ DeviceTypes /\ HistoryTypes

LEMMA Size == DataPackets \in Nat /\ DataPackets # 0 /\ Kinds \subseteq AllKinds
BY ControlAssumption

LEMMA InitTypes == Init => TypeInv
<1> SUFFICES ASSUME Init PROVE TypeInv
  OBVIOUS
<1> USE DEF Init
<1>1. due \in 0 .. DataPackets /\ left \in 0 .. DataPackets /\ kind \in AllKinds /\ request \in AllKinds
  BY Size
<1>4. HostTypes /\ HistoryTypes
  BY <1>1 DEF HostTypes, HistoryTypes
<1>2. BusTypes /\ EndpointTypes
  BY DEF BusTypes, EndpointTypes
<1>3. FirmwareTypes /\ DeviceTypes
  BY <1>1 DEF FirmwareTypes, DeviceTypes, Points, Waits
<1> QED BY <1>2, <1>3, <1>4 DEF TypeInv

LEMMA HostSetupTypes == TypeInv /\ HostSetup => TypeInv'
<1> SUFFICES ASSUME TypeInv, HostSetup PROVE TypeInv'
  OBVIOUS
<1> USE DEF TypeInv
<1>1. PICK k \in Kinds : /\ kind' = k /\ stage' = IF k \in Reads \cup {"out"} THEN "data" ELSE "status"
                         /\ due' = IF k = "out" THEN DataPackets ELSE 0
  BY DEF HostSetup
<1>2. HostTypes'
  <2>1. due' \in 0 .. DataPackets /\ (stage' = "data" /\ kind' = "out" => due' # 0)
    BY <1>1, Size
  <2>2. kind' \in AllKinds /\ stage' \in {"idle", "data", "status"}
    BY <1>1, Size
  <2>3. /\ result' \in {"open", "ok", "stalled", "given up"} /\ reached' = reached
        /\ foreign' \in BOOLEAN /\ configured' = configured
    BY DEF HostSetup
  <2> QED BY <2>1, <2>2, <2>3 DEF HostTypes
<1>3. BusTypes' /\ FirmwareTypes' /\ DeviceTypes'
  <2>1. own' \in BOOLEAN /\ UNCHANGED <<bus, flags, pc, request, left, device>>
    BY DEF HostSetup
  <2> QED BY <2>1 DEF BusTypes, FirmwareTypes, DeviceTypes, bus, device
<1>4. EndpointTypes'
  BY DEF HostSetup, EndpointTypes
<1>5. HistoryTypes'
  <2>1. excused' \in BOOLEAN /\ doubt' \in BOOLEAN
    BY DEF HostSetup
  <2>2. met' \in BOOLEAN
    BY DEF HostSetup
  <2> QED BY <2>1, <2>2 DEF HostSetup, HistoryTypes
<1> QED BY <1>2, <1>3, <1>4, <1>5

LEMMA HostStepTypes == TypeInv /\ Host => TypeInv'
<1> SUFFICES ASSUME TypeInv, Host PROVE TypeInv'
  OBVIOUS
<1> USE DEF TypeInv
<1>1. UNCHANGED <<kind, bus, setup, stall, addressed, flags, pc, request, own, left, device, history>>
  BY DEF Host, HostIsStalled, HostReads, HostWrites, HostAcknowledges, HostIsAcknowledged, HostSide
<1>2. BusTypes' /\ FirmwareTypes' /\ DeviceTypes' /\ HistoryTypes'
  BY <1>1 DEF BusTypes, FirmwareTypes, DeviceTypes, HistoryTypes, bus, device, history
<1>3. EndpointTypes'
  <2>1. CASE HostIsStalled
    BY <1>1, <2>1 DEF HostIsStalled, EndpointTypes
  <2>2. CASE HostReads \/ HostIsAcknowledged
    <3>1. bank' = "free" /\ last' = FALSE /\ out' = out
      BY <2>2 DEF HostReads, HostIsAcknowledged, Takes
    <3> QED BY <1>1, <3>1 DEF EndpointTypes
  <2>3. CASE HostWrites \/ HostAcknowledges
    <3>1. out' = TRUE /\ bank' = bank /\ last' = last
      BY <2>3 DEF HostWrites, HostAcknowledges
    <3> QED BY <1>1, <3>1 DEF EndpointTypes
  <2> QED BY <2>1, <2>2, <2>3 DEF Host
<1>4. /\ stage' \in {"idle", "data", "status"} /\ result' \in {"open", "ok", "stalled", "given up"}
      /\ reached' \in {"silent", "default", "addressed"}
      /\ foreign' \in BOOLEAN /\ configured' \in BOOLEAN
  <2>1. foreign' \in BOOLEAN /\ configured' \in BOOLEAN
    BY DEF Host, HostIsStalled, HostReads, HostWrites, HostAcknowledges, HostIsAcknowledged, Takes, HostTypes
  <2>2. /\ stage' \in {"idle", "data", "status"} /\ result' \in {"open", "ok", "stalled", "given up"}
        /\ reached' \in {"silent", "default", "addressed"}
    BY DEF Host, HostIsStalled, HostReads, HostWrites, HostAcknowledges, HostIsAcknowledged, Ends, HostTypes
  <2> QED BY <2>1, <2>2
<1>5. due' \in 0 .. DataPackets /\ (stage' = "data" /\ kind' = "out" => due' # 0)
  <2>1. CASE HostWrites
    <3>1. /\ stage = "data" /\ kind = "out" /\ due' = due - 1
          /\ stage' = IF due = 1 THEN "status" ELSE stage
      BY <2>1 DEF HostWrites
    <3>2. PICK d : d = due
      OBVIOUS
    <3>3. d \in 0 .. DataPackets /\ d # 0
      BY <3>1, <3>2 DEF HostTypes
    <3>4. d - 1 \in 0 .. DataPackets /\ (d # 1 => d - 1 # 0)
      BY <3>3, Size
    <3> QED BY <3>1, <3>2, <3>4
  <2>2. CASE HostIsStalled \/ HostReads \/ HostAcknowledges \/ HostIsAcknowledged
    <3>1. /\ due' = due \/ (due' = 0 /\ stage' = "idle")
          /\ stage' = "data" /\ kind = "out" => stage = "data" /\ due' = due
      BY <2>2 DEF HostIsStalled, HostReads, HostAcknowledges, HostIsAcknowledged, Ends, Reads
    <3>2. 0 \in 0 .. DataPackets
      BY Size
    <3> QED BY <1>1, <3>1, <3>2 DEF HostTypes
  <2> QED BY <2>1, <2>2 DEF Host
<1>6. HostTypes'
  BY <1>1, <1>4, <1>5 DEF HostTypes
<1> QED BY <1>2, <1>3, <1>6

LEMMA BusStepTypes == TypeInv /\ Bus => TypeInv'
<1> SUFFICES ASSUME TypeInv, Bus PROVE TypeInv'
  OBVIOUS
<1> USE DEF TypeInv
<1>1. UNCHANGED <<kind, foreign, pc, request, own, left, device, met, said>>
  BY DEF Bus, Unplug, Plug, Suspend, Resume, Reset, AttachDevice, DetachDevice, BusSide
<1>2. FirmwareTypes' /\ DeviceTypes'
  BY <1>1 DEF FirmwareTypes, DeviceTypes, device
<1>3. \/ stage' = stage /\ due' = due /\ result' = result
      \/ stage' = "idle" /\ due' = 0 /\ result' \in {result, "given up"}
  BY DEF Bus, Unplug, Plug, Suspend, Resume, Reset, AttachDevice, DetachDevice, Drop
<1>4. reached' \in {reached, "silent", "default"} /\ configured' \in {configured, FALSE}
  BY DEF Bus, Unplug, Plug, Suspend, Resume, Reset, AttachDevice, DetachDevice
<1>5. HostTypes'
  <2>1. 0 \in 0 .. DataPackets
    BY Size
  <2> QED BY <1>1, <1>3, <1>4, <2>1 DEF HostTypes
<1>6. BusTypes'
  <2>1. flags' \subseteq flags \cup {"VBUSTI", "EORSTI"}
    BY DEF Bus, Unplug, Plug, Suspend, Resume, Reset, AttachDevice, DetachDevice
  <2>2. vbus' \in {vbus, TRUE, FALSE} /\ awake' \in {awake, TRUE, FALSE} /\ attached' \in {attached, TRUE, FALSE}
    BY DEF Bus, Unplug, Plug, Suspend, Resume, Reset, AttachDevice, DetachDevice, bus
  <2> QED BY <2>1, <2>2 DEF BusTypes
<1>7. EndpointTypes'
  <2>1. CASE Reset
    BY <2>1 DEF Reset, EndpointTypes
  <2>2. CASE Unplug \/ Plug \/ Suspend \/ Resume \/ AttachDevice \/ DetachDevice
    <3>1. UNCHANGED <<endpoint, addressed>>
      BY <2>2 DEF Unplug, Plug, Suspend, Resume, AttachDevice, DetachDevice
    <3> QED BY <3>1 DEF EndpointTypes, endpoint
  <2> QED BY <2>1, <2>2 DEF Bus
<1>8. HistoryTypes'
  <2>1. excused' \in BOOLEAN
    <3>1. excused' \in {excused, TRUE, FALSE}
      BY DEF Bus, Unplug, Plug, Suspend, Resume, Reset, AttachDevice, DetachDevice, Event
    <3> QED BY <3>1 DEF HistoryTypes
  <2>2. doubt' \in BOOLEAN
    <3>1. doubt' \in {doubt, TRUE, FALSE}
      BY DEF Bus, Unplug, Plug, Suspend, Resume, Reset, AttachDevice, DetachDevice
    <3> QED BY <3>1 DEF HistoryTypes
  <2>3. masked' \in {masked, TRUE, FALSE}
    <3>1. CASE Unplug
      <4>1. masked' \in BOOLEAN
        BY <3>1 DEF Unplug
      <4> QED BY <4>1
    <3>2. CASE ~Unplug
      BY <3>2 DEF Bus, Plug, Suspend, Resume, Reset, AttachDevice, DetachDevice
    <3> QED BY <3>1, <3>2
  <2>4. masked' \in BOOLEAN
    BY <2>3 DEF HistoryTypes
  <2> QED BY <1>1, <2>1, <2>2, <2>4 DEF HistoryTypes
<1> QED BY <1>2, <1>5, <1>6, <1>7, <1>8

LEMMA InterruptTypes == TypeInv /\ Interrupt => TypeInv'
<1> SUFFICES ASSUME TypeInv, Interrupt PROVE TypeInv'
  OBVIOUS
<1> USE DEF TypeInv
<1>1. /\ UNCHANGED <<host, bus, endpoint, addressed, pc, request, own, left, interrupts, history>>
      /\ flags' \subseteq flags
  BY DEF Interrupt, VbusChanged, Suspended, WokenUp, EndOfReset, InInterrupt
<1>2. HostTypes' /\ HistoryTypes'
  <2>1. HostTypes'
    BY <1>1 DEF HostTypes, host
  <2>2. HistoryTypes'
    BY <1>1 DEF HistoryTypes, history
  <2> QED BY <2>1, <2>2
<1>3. BusTypes' /\ EndpointTypes' /\ FirmwareTypes'
  BY <1>1 DEF BusTypes, EndpointTypes, FirmwareTypes, bus, endpoint
<1>4. DeviceTypes'
  <2>1. /\ deviceState' \in {"Unattached", "Powered", "Default", "Configured", "Suspended"}
        /\ number' \in {number, 0}
    BY DEF Interrupt, VbusChanged, Suspended, WokenUp, EndOfReset
  <2>2. suspi' \in {suspi, TRUE, FALSE}
    BY DEF Interrupt, VbusChanged, Suspended, WokenUp, EndOfReset
  <2> QED BY <1>1, <2>1, <2>2 DEF DeviceTypes
<1> QED BY <1>2, <1>3, <1>4

LEMMA FirmwareStepTypes == TypeInv /\ (Main \/ Pc) => TypeInv'
<1> SUFFICES ASSUME TypeInv, Main \/ Pc PROVE TypeInv'
  OBVIOUS
<1> USE DEF TypeInv
<1>1. UNCHANGED <<host, bus, flags, met, doubt, masked>>
  BY DEF Main, Pc, Begin, Read, ReadEnds, Write, WriteEnds, ClearStatusStage, Standard, SetAddress,
         SetConfiguration, End, Answered, Described, Onward, Firmware, history
<1>2. HostTypes' /\ BusTypes'
  BY <1>1 DEF HostTypes, BusTypes, host, bus
<1>3. HistoryTypes'
  <2>1. said' \in {said, "nothing", "ignore", "handle", "stall"} /\ excused' \in {excused, TRUE, FALSE}
    <3>1. CASE Answered
      BY <3>1 DEF Answered, Verdicts
    <3>2. CASE Begin
      BY <3>2 DEF Begin
    <3>3. CASE ~Answered /\ ~Begin
      BY <3>3 DEF Main, Pc, Read, ReadEnds, Write, WriteEnds, ClearStatusStage, Standard, SetAddress,
         SetConfiguration, End, Described, history
    <3> QED BY <3>1, <3>2, <3>3
  <2> QED BY <1>1, <2>1 DEF HistoryTypes
<1>4. EndpointTypes'
  <2>1. bank' \in {bank, Packet} /\ Packet \in {"own", "other"}
    BY DEF Main, Pc, Begin, Read, ReadEnds, Write, WriteEnds, ClearStatusStage, Standard, SetAddress,
         SetConfiguration, End, Answered, Described, endpoint, Packet
  <2>2. setup' \in BOOLEAN
    BY DEF Main, Pc, Begin, Read, ReadEnds, Write, WriteEnds, ClearStatusStage, Standard, SetAddress,
         SetConfiguration, End, Answered, Described, endpoint, EndpointTypes
  <2>3. out' \in BOOLEAN
    BY DEF Main, Pc, Begin, Read, ReadEnds, Write, WriteEnds, ClearStatusStage, Standard, SetAddress,
         SetConfiguration, End, Answered, Described, endpoint, EndpointTypes
  <2>4. last' \in BOOLEAN
    BY DEF Main, Pc, Begin, Read, ReadEnds, Write, WriteEnds, ClearStatusStage, Standard, SetAddress,
         SetConfiguration, End, Answered, Described, endpoint, EndpointTypes
  <2>5. stall' \in BOOLEAN
    BY DEF Main, Pc, Begin, Read, ReadEnds, Write, WriteEnds, ClearStatusStage, Standard, SetAddress,
         SetConfiguration, End, Answered, Described, endpoint, EndpointTypes
  <2>6. addressed' \in {addressed, TRUE}
    BY DEF Main, Pc, Begin, Read, ReadEnds, Write, WriteEnds, ClearStatusStage, Standard, SetAddress,
         SetConfiguration, End, Answered, Described, Onward, Firmware
  <2> QED BY <2>1, <2>2, <2>3, <2>4, <2>5, <2>6 DEF EndpointTypes
<1>5. DeviceTypes'
  <2>1. /\ deviceState' \in {deviceState, "Addressed", "Configured", "Powered"} /\ number' \in {number, 1}
    BY DEF Main, Pc, Begin, Read, ReadEnds, Write, WriteEnds, ClearStatusStage, Standard, SetAddress,
         SetConfiguration, End, Answered, Described, device
  <2>2. interrupts' \in {interrupts, TRUE, FALSE} /\ suspi' = suspi
    BY DEF Main, Pc, Begin, Read, ReadEnds, Write, WriteEnds, ClearStatusStage, Standard, SetAddress,
         SetConfiguration, End, Answered, Described, device
  <2> QED BY <2>1, <2>2 DEF DeviceTypes
<1>6. FirmwareTypes'
  <2>1. request' \in {request, kind} /\ own' \in {own, TRUE}
    BY DEF Main, Pc, Begin, Read, ReadEnds, Write, WriteEnds, ClearStatusStage, Standard, SetAddress,
         SetConfiguration, End, Answered, Described, Onward
  <2>2. pc' \in Points
    <3>1. CASE Begin \/ Read \/ ReadEnds \/ Write \/ WriteEnds
      BY <3>1 DEF Begin, Read, ReadEnds, Write, WriteEnds, Returned, Points, Waits
    <3>2. CASE ClearStatusStage \/ Standard \/ SetAddress \/ SetConfiguration \/ End
      BY <3>2 DEF ClearStatusStage, Cleared, Standard, SetAddress, SetConfiguration, End, Points, Waits
    <3>3. CASE Answered \/ Described
      BY <3>3 DEF Answered, Described, Points, Waits
    <3> QED BY <3>1, <3>2, <3>3 DEF Main, Pc
  <2>3. left' \in 0 .. DataPackets /\ (pc' \in {"read", "write"} => left' # 0)
    <3>1. CASE Begin
      <4>1. (left' = DataPackets /\ pc' = "read") \/ (left' = 0 /\ pc' = "ask")
        BY <3>1 DEF Begin
      <4> QED BY <4>1, Size
    <3>2. CASE Read
      BY <3>2, Size DEF Read, FirmwareTypes
    <3>3. CASE Write
      BY <3>3, Size DEF Write, FirmwareTypes, Returned
    <3>4. CASE ReadEnds \/ WriteEnds \/ ClearStatusStage
      BY <3>4, Size DEF ReadEnds, WriteEnds, ClearStatusStage, Cleared, FirmwareTypes, Returned
    <3>5. CASE Standard \/ SetAddress \/ SetConfiguration \/ End
      BY <3>5, Size DEF Standard, SetAddress, SetConfiguration, End, FirmwareTypes
    <3>6. CASE Answered
      BY <3>6, Size DEF Answered, FirmwareTypes
    <3>7. CASE Described
      BY <3>7, Size DEF Described, FirmwareTypes
    <3> QED BY <3>1, <3>2, <3>3, <3>4, <3>5, <3>6, <3>7 DEF Main, Pc
  <2> QED BY <2>1, <2>2, <2>3 DEF FirmwareTypes, HostTypes
<1> QED BY <1>2, <1>3, <1>4, <1>5, <1>6

(* TypeOK: neither side's count of the packets of a data stage leaves its  *)
(* range, whatever SETUP, reset or cable pull falls between two packets.   *)
THEOREM ControlTyped == Spec => []TypeOK
<1>1. Init => TypeInv
  BY InitTypes
<1>2. TypeInv /\ [Next]_vars => TypeInv'
  <2> SUFFICES ASSUME TypeInv, UNCHANGED vars PROVE TypeInv'
    BY HostSetupTypes, HostStepTypes, BusStepTypes, InterruptTypes, FirmwareStepTypes DEF Next
  <2> USE DEF vars, host, bus, endpoint, device, history
  <2>1. HostTypes'
    BY DEF TypeInv, HostTypes
  <2>3. BusTypes' /\ EndpointTypes'
    BY DEF TypeInv, BusTypes, EndpointTypes
  <2>2. FirmwareTypes' /\ DeviceTypes' /\ HistoryTypes'
    BY DEF TypeInv, FirmwareTypes, DeviceTypes, HistoryTypes
  <2> QED BY <2>1, <2>2, <2>3 DEF TypeInv
<1>3. TypeInv => TypeOK
  <2> SUFFICES ASSUME TypeInv PROVE TypeOK
    OBVIOUS
  <2>1. {foreign, configured, vbus, awake, attached, setup, out, last, stall, addressed, own, interrupts,
         suspi, met, excused, doubt, masked} \subseteq BOOLEAN
    BY DEF TypeInv, HostTypes, BusTypes, EndpointTypes, FirmwareTypes, DeviceTypes, HistoryTypes
  <2> QED BY <2>1 DEF TypeInv, HostTypes, BusTypes, EndpointTypes, FirmwareTypes, DeviceTypes, HistoryTypes,
                      Points, TypeOK
<1> QED BY <1>1, <1>2, <1>3, PTL DEF Spec
=============================================================================
