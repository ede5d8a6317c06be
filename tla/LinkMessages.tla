---------------------------- MODULE LinkMessages ----------------------------
(***************************************************************************)
(* The vocabulary of the link between the PC application                   *)
(* (USBSimulatorDevice.cs) and the firmware that faces the USB host        *)
(* (simulator.c).  Every message on the wire is                            *)
(*     len_lo  len_hi  cmd  byte3  payload ...                             *)
(* The model keeps cmd, byte3 when the firmware tests it, and for the rest *)
(* of the payload only which request or which piece of data it belongs to. *)
(* The two channels are FIFO: api_interface.c forwards whole packets in    *)
(* the order it reads them, in each direction.                             *)
(***************************************************************************)
EXTENDS Naturals, Sequences, FiniteSets

CONSTANTS
  HostKinds,    \* the kinds of control request the host issues
  MaxRequests,  \* how many of them it issues
  MaxData,      \* pieces of endpoint data the emulated device writes
  MaxOut,       \* OUT packets the host sends to the device
  MaxAttach,    \* AttachDevice and DetachDevice calls of the application
  MaxLost,      \* calls of UsbEndpointWriter.Write that fail
  Banks         \* endpoint banks one piece of endpoint data fills

(* What a control request is to the two sides: answered from the PC's      *)
(* descriptors, SET_CONFIGURATION, a class or vendor request with an IN    *)
(* data stage, with none, and one whose OUT data stage the firmware reads  *)
(* before asking.  (A data stage fits one packet of endpoint 0, 64 bytes.) *)
Kinds == {"descriptor", "configure", "read", "command", "output"}

ASSUME LinkAssumption ==
  /\ HostKinds \subseteq Kinds
  /\ {MaxRequests, MaxData, MaxOut, MaxAttach, MaxLost} \subseteq Nat
  /\ Banks \in Nat \ {0}

VARIABLES
  toSim,        \* packets the PC has written and the simulator has not read
  toPC          \* packets the simulator has sent and the PC has not read

channels == <<toSim, toPC>>

(* byte3 of a 'U' reply: what the PC wants done with the request. *)
Ignore == 0
Handle == 1
Stall  == 2
(* byte3 of any other message: no verdict the firmware recognises.  'O' and *)
(* 'S' carry 1 there (endpoint 0x01, attach), which reads as Handle.        *)
NotAVerdict == 3

PcCommands == {"O", "S", "U", "D"}

(* Payload that belongs to no single message: a receive buffer in which    *)
(* the bytes of two packets are mixed.                                     *)
Mixed == 0

(* A packet from the PC: id is the request it answers or the number of the *)
(* piece of data it carries.                                               *)
PcMessage(cmd, byte3, id) == [cmd |-> cmd, byte3 |-> byte3, id |-> id]
PcMessages == [cmd : PcCommands \cup {"?"}, byte3 : 0 .. 3,
               id : 0 .. MaxRequests + MaxData]

(* Packets from the simulator: acknowledgements ('A', 'E', 'C') name the   *)
(* command received and the command it was waiting for, questions ('U',    *)
(* 'D', 'I') the request or OUT packet they are about.                     *)
Answer(cmd, got, want) == [cmd |-> cmd, got |-> got, want |-> want]
Ask(cmd, id, kind)     == [cmd |-> cmd, id |-> id, kind |-> kind]
SimMessages ==
  [cmd : {"A", "E", "C"}, got : PcCommands \cup {"?"}, want : PcCommands \cup {"?"}]
    \cup [cmd : {"U", "D"}, id : 1 .. MaxRequests, kind : Kinds]
    \cup [cmd : {"I"}, id : 0 .. MaxOut, kind : {"data"}]
=============================================================================
