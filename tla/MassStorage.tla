---------------------------- MODULE MassStorage ----------------------------
(***************************************************************************)
(* MassStorageDevice.cs and the host's bulk-only transport, from which it  *)
(* takes what each packet is by its place alone.  Lengths are in halves of *)
(* a full packet on the bus: a packet of data is 2, a command wrapper 1.   *)
(***************************************************************************)
EXTENDS DevicePath, Integers

CONSTANTS
  SectorPackets,  \* full packets of a sector, 8 in the code
  Sectors,        \* sectors one command reads or writes, the first of the image
  MaxCommands     \* commands the host issues

ASSUME StorageAssumption ==
  {SectorPackets, Sectors} \subseteq Nat \ {0} /\ MaxCommands \in Nat

VARIABLES
  dataRemaining, position,  \* _dataRemaining, and where the file stands
  image,        \* by halves: the write they are of and their place in its data
  command,      \* the host's command
  stage,        \* its stage: "idle", "out", "in", "status", "error"
  tag,          \* and its number
  sent,         \* packets of a write's data sent
  got,          \* the data a read has returned, by halves
  kept,         \* the last write that completed
  wrong,        \* a read completed with other than what was written
  taken,        \* a command was taken for data, or data for a command
  cut           \* a reset fell into the data of a write

disk == <<dataRemaining, position, image>>
transport == <<command, stage, tag, sent, got, kept, wrong, cut>>
storage == <<disk, transport, taken>>

Commands == {"read", "write", "inquiry", "ready", "unknown"}
Packets == Sectors * SectorPackets
Halves == 2 * Packets
Half == [of : 0 .. MaxCommands, at : 0 .. Halves]     \* at = Halves: no data

HostPackets == [is : {"command", "data"}, op : Commands, of : 0 .. MaxCommands, at : 0 .. Packets]
Pieces == [is : {"data", "csw"}, of : 0 .. MaxCommands, halves : Seq(Half)]

StorageTypeOK ==
  /\ PathTypeOK(Pieces, HostPackets)
  /\ dataRemaining \in -1 .. Halves
  /\ position \in 0 .. Halves + 1 /\ image \in [0 .. Halves -> Half]
  /\ command \in Commands /\ stage \in {"idle", "out", "in", "status", "error"}
  /\ tag \in 0 .. MaxCommands /\ sent \in 0 .. Packets /\ kept \in 0 .. MaxCommands
  /\ got \in Seq(Half) /\ {wrong, taken, cut} \subseteq BOOLEAN

StorageInit ==
  /\ PathInit
  /\ dataRemaining = 0 /\ position = 0
  /\ image = [k \in 0 .. Halves |-> [of |-> 0, at |-> k]]
  /\ command = "ready" /\ stage = "idle" /\ tag = 0 /\ sent = 0 /\ got = <<>>
  /\ kept = 0 /\ wrong = FALSE /\ taken = FALSE /\ cut = FALSE

-----------------------------------------------------------------------------
(* OnIncomingDataReceived.                                                 *)
Length(p) == IF p.is = "data" THEN 2 ELSE 1

Stored(p) ==
  [k \in 0 .. Halves |->
     IF k \in position .. position + Length(p) - 1
     THEN [of |-> p.of, at |-> IF p.is = "data" THEN 2 * p.at + k - position ELSE Halves]
     ELSE image[k]]

Piece(is, of, halves) == [is |-> is, of |-> of, halves |-> halves]
Sector(s) ==
  [k \in 1 .. SectorPackets |->
     LET at == 2 * (SectorPackets * (s - 1) + k - 1)
     IN  Piece("data", 0, <<image[at], image[at + 1]>>)]
Answer == <<Piece("data", 0, <<>>)>>
Csw(p) == <<Piece("csw", IF p.is = "command" THEN p.of ELSE 0, <<>>)>>

(* Mutant: only a write is answered with a status. *)
ResponseWithoutCsw(p, c) ==
  CASE c = "read"    -> [s \in 1 .. Sectors |-> Sector(s)]
    [] c = "inquiry" -> <<Answer>>
    [] c = "write"   -> <<Csw(p)>>
    [] OTHER         -> <<>>

(* Mutant: bytesSoFar is not advanced, each piece is the first again. *)
ResponseFromStart(p, c) ==
  CASE c = "read"    -> Append([s \in 1 .. Sectors |-> Sector(1)], Csw(p))
    [] c = "inquiry" -> <<Answer, Csw(p)>>
    [] c = "unknown" -> <<>>
    [] OTHER         -> <<Csw(p)>>

(* _SendMassStorageResponse; a write's status is queued before its data.   *)
Response(p, c) ==
  CASE c = "read"    -> Append([s \in 1 .. Sectors |-> Sector(s)], Csw(p))
    [] c = "inquiry" -> <<Answer, Csw(p)>>
    [] c = "unknown" -> <<>>
    [] OTHER         -> <<Csw(p)>>

(* Mutant: the count is one too many. *)
DueLate == Halves + 1

Due == Halves

StoreData ==
  /\ dataRemaining > 0 /\ Receives("I")
  /\ LET p == Head(toPC).data IN
       /\ image' = Stored(p) /\ position' = position + Length(p)
       /\ dataRemaining' = dataRemaining - Length(p)
       /\ taken' = (taken \/ p.is = "command")
  /\ UNCHANGED <<queue, replying, firmware, asks, resets, resent, transport>>

RunCommand ==
  /\ dataRemaining <= 0 /\ Receives("I")
  /\ LET p == Head(toPC).data IN
       \E c \in IF p.is = "command" THEN {p.op} ELSE Commands :
         /\ WriteOutgoingData(Response(p, c))
         /\ dataRemaining' = IF c = "write" THEN Due ELSE dataRemaining
         /\ position' = CASE c = "write" -> 0 [] c = "read" -> Halves [] OTHER -> position
         /\ taken' = (taken \/ p.is = "data")
  /\ UNCHANGED <<replying, image, transport>>

StorageRequested ==      \* OnControlRequestReceived keeps nothing
  (Requested("configure") \/ Requested("class")) /\ UNCHANGED storage

-----------------------------------------------------------------------------
(* The host. *)
HostCommands ==
  /\ stage = "idle" /\ tag < MaxCommands
  /\ \E c \in Commands :
       /\ HostSends([is |-> "command", op |-> c, of |-> tag + 1, at |-> 0])
       /\ command' = c
       /\ stage' = CASE c = "write" -> "out" [] c \in {"read", "inquiry"} -> "in"
                     [] OTHER -> "status"
  /\ tag' = tag + 1 /\ sent' = 0 /\ got' = <<>>
  /\ UNCHANGED <<disk, kept, wrong, taken, cut>>

HostSendsData ==
  /\ stage = "out"
  /\ HostSends([is |-> "data", op |-> "write", of |-> tag, at |-> sent])
  /\ sent' = sent + 1
  /\ stage' = IF sent + 1 = Packets THEN "status" ELSE "out"
  /\ UNCHANGED <<disk, command, tag, got, kept, wrong, taken, cut>>

(* A status wrapper or an answer in the place of data is a short packet,   *)
(* and ends it.                                                            *)
HostReadsData ==
  /\ stage = "in" /\ HostReads
  /\ got' = got \o bank[1].halves
  /\ stage' = IF bank[1].halves = <<>> \/ command = "inquiry" \/ Len(got') >= Halves
              THEN "status" ELSE "in"
  /\ UNCHANGED <<disk, command, tag, sent, kept, wrong, taken, cut>>

AsWritten == \A k \in 1 .. Halves : got[k].at = k - 1 /\ got[k].of >= kept

(* A read that came short is an error, whatever the status says.           *)
HostReadsStatus ==
  /\ stage = "status" /\ HostReads
  /\ IF bank[1].is = "csw" /\ bank[1].of = tag /\ (command = "read" => Len(got) = Halves)
     THEN /\ stage' = "idle"
          /\ kept' = IF command = "write" THEN tag ELSE kept
          /\ wrong' = (wrong \/ (command = "read" /\ ~AsWritten))
     ELSE stage' = "error" /\ UNCHANGED <<kept, wrong>>
  /\ UNCHANGED <<disk, command, tag, sent, got, taken, cut>>

(* It gives up a command, or the cable is pulled. *)
HostRecovers ==
  /\ HostResets /\ stage' = "idle"
  /\ cut' = (cut \/ stage = "out" \/ (out # <<>> /\ out[1].is = "data"))
  /\ UNCHANGED <<disk, command, tag, sent, got, kept, wrong, taken>>

StorageSteps == \/ StoreData \/ RunCommand \/ StorageRequested
                \/ HostSendsData \/ HostReadsData \/ HostReadsStatus
StorageNext == StorageSteps \/ HostCommands \/ HostRecovers

-----------------------------------------------------------------------------
(* Packets are taken for what they are, unless a reset fell into a write:  *)
(* nothing resets _dataRemaining, so the commands after it are stored as   *)
(* the missing data (MassStorageDevice.cs:104-108).  A read that completes *)
(* returns what the last completed write, or a later one, stored, unless   *)
(* a reply went out again, too.                                            *)
ReadsAsWritten == (taken => cut) /\ (wrong => cut \/ resent > 0)

(* Every command comes to an end for the host, unless a piece of its answer*)
(* is dropped, a reset fell into a write, or the device does not know it   *)
(* (MassStorageDevice.cs:102-232); or a piece that came right behind the   *)
(* reply to a request has hung the firmware (simulator.c:213-217, 422-440),*)
(* or has been forgotten while another was written (simulator.c:247).      *)
CommandEnds ==
  stage # "idle" ~>
    \/ stage = "idle" \/ lost # {} \/ cut \/ command = "unknown"
    \/ waiting = "stuck" \/ receiver = "deaf"
=============================================================================
