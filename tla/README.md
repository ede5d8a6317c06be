# USBSimulator in TLA+

USBSimulator lets a PC pretend to be a USB device. The PC application
(`src/USBPCSimulator`, C#) talks over USB to a first Teensy
(`src/api_interface`), which forwards every packet over a serial line to a
second Teensy (`src/simulator`), which is plugged into the USB host to be
fooled. The second Teensy asks the PC what to do with every control request
and waits for the reply; endpoint data flows both ways in between.

    PC application  <-USB->  api_interface  <-UART->  simulator  <-USB->  host

## The system's parts

| part | state | operations | what makes it correct |
|---|---|---|---|
| `USBSimulatorDevice.cs` | `_messages` (entries ReadyToSend or PendingResponse), reader, writer | `AttachDevice`, `DetachDevice`, `WriteOutgoingData`, the `_SendMessages` thread, the `_reader_DataReceived` callback, `Reset`, `Close` | every message gets through once and in order, ACKs and NACKs find the message they are about, what an old session left over does no harm |
| `simulator.c`, handlers | `receiveBuffer`, `transmitBuffer`, `endpointData` | main's loop, `HandleReceivedPacket`, `EVENT_USB_Device_ControlRequest`, `CALLBACK_USB_GetDescriptor`, `USBIO_Task`, `SendReceive_WaitForPacket` | a request is completed with the reply to that request; data reaches the host whole and in order |
| `simulator.c`, receiving | `bytesSoFar`, `bytesWaiting`, `packetHandled`, `receivedFirst`, `receiveTimeout` | `SendReceive_Task`, `SendReceive_SetHandled`, `SendReceive_IsPacketReady` | packets are framed as sent; a timeout starts over |
| `simulator.c`, sending | `bytesLeftToSend`, `bytesSentSoFar`, `transmitBuffer` | `SendReceive_StartSend`, `SendReceive_Task`, the connect and disconnect events | packets on the wire are whole, also when an event's interrupt sends one |
| `uart.c` (the same file in both firmwares) | two rings with head and tail | `uart_putchar`, `uart_getchar`, `uart_available`, two interrupts | FIFO, no lost wakeup, no endless wait |
| LUFA's device core | endpoints, the current control request, `USB_DeviceState` | `USB_USBTask`, `ProcessControlRequest` and its stages, stream reads and writes, `USB_GEN_vect` | a transfer the host gives up, or a bus event, leaves no answer for the wrong request and no wait for ever |
| `api_interface.c` | `receiveBuffer`, `bytesSoFar`, `bytesWaiting`, a timeout | `SendReceive_Task`, `CheckTimeout` | FIFO of whole packets both ways, and neither direction holds up the other for ever |
| `HIDKeyboard.cs` | `_messages` (reports), `_configured` | `SendString`, `SendKey`, `ClearKeypresses`, the sending thread, the request callback | the host sees the text typed, and no key stays pressed |
| `MassStorageDevice.cs` | the image file, `_dataRemaining` | `OnIncomingDataReceived` and its responses | what is read is what was written, every command ends |
| `DeviceForwarder.cs`, `SerialAdapter.cs`, `Startup.cs`, `Logger.cs` | none of interest | | |

How they interact: packets `len_lo len_hi cmd byte3 ...`. The PC sends `O`
(endpoint data), `S` (attach or detach) and the replies `U` and `D`; the
simulator sends the questions `U` and `D`, `I` (endpoint data), `F` (connected or
not), and `A`, `E`, `C` (acknowledged, refused, not understood). Each packet
from the PC is acknowledged or refused, by its command alone. While the
simulator waits for a reply it refuses everything else.

The hard parts: three threads on the PC's queue; a single `receiveBuffer` read
after further polls of the UART; `USB_USBTask` nested inside a packet handler;
waits without timeouts; interrupts between any two accesses; timeouts that race
late bytes; a write that holds the lock the reader's callback needs; a host that
gives up a request while the PC is asked about it. PROJECT.json lists them under
"hazards", line by line.

## The modules

| module | models | state and actions |
|---|---|---|
| `LinkMessages` | the packets and the two channels between PC and simulator | `toSim`, `toPC`; a packet keeps its command, the third byte when the firmware tests it, and which request or piece of data its payload is |
| `PcQueue` | `USBSimulatorDevice.cs` | `messages` is `_messages`; one action per call, per turn of `_SendMessages` and per case of the reader callback. Each is one `lock (_messages)`; building a reply and queueing it are two actions (`replying`), because other threads run in between |
| `Simulator` | `simulator.c` and the LUFA code it runs | `main` and `task` say where main's loop is (`"stuck"`: in LUFA's status stage, for ever). A step is what happens between two points at which the firmware polls the UART, since only there the receive half of `SendReceive_Task` (`Receive`) can change `receiveBuffer`. `attached` goes from "no" to "new" with an `S` packet and to "yes" when the host resets what it has just seen appear (`HostResets`) |
| `ControlService` | what the simulator promises the host | requests answered one at a time, by replies given to them |
| `Link` | PC, channels, simulator and host together | `Reset` is what the repository's README advises "if the connection becomes messed up": the Teensys are unplugged and F3 is pressed. The properties of the protocol, and the refinement to `ControlService` |
| `SendReceive` | receiving in the second Teensy, byte by byte | a byte is its place in the peer's stream, so "intact" can be said without data |
| `UartTransmit`, `UartReceive` | `uart.c`, one memory access at a time | `txPc`, `rxPc` are the next access; an interrupt is one action, as it runs with interrupts off |
| `Uart` | both rings and the one thread that uses them | the thread is in at most one function of `uart.c`, since `SendReceive_Task` receives and then sends; the properties of the rings |
| `ByteQueue` | what the transmit ring promises | a bounded FIFO of numbered bytes |
| `SendEvents` | sending, access by access, with `EVENT_USB_Device_Connect` and `_Disconnect` in their interrupt | `pc` for main, `isr` for the handler; the counters wrap at `Modulus`; `clash` and `tight` remember when an event came where main's send, or the ring, could not stand it |
| `ApiInterface` | `api_interface.c` between the PC's writer and reader and the UART's rings, byte by byte | `pc` is where `SendReceive_Task` is; `offered`, `reader`, `transfer` are the PC's two threads, `lengths`, `sent`, `abandoned` the second Teensy, which may restart inside a packet; `harm` remembers what has damaged the stream |
| `ControlTransfer` | one control transfer after another on endpoint 0: host, hardware, LUFA's request handling, its interrupt and device states, `EVENT_USB_Device_ControlRequest` | `pc` is the wait the firmware is in; `setup`, `out`, `bank`, `stall` are the endpoint's flags; `kind`, `stage`, `result` the host's transfer. The question to the PC is one action, `Answered` |
| `DevicePath` | what lies between an emulated device and the host, by whole messages | `queue`, `toPC`, `rest` of the piece being written bank by bank, `receiver` (a packet that has begun to arrive meanwhile) and the two endpoints; one action per message taken, refused, written, acknowledged or sent again |
| `HIDKeyboard`, `MassStorage` | the two devices with state, and a host that uses them | one action per report sent, per packet taken, per step of the host |
| `Devices`, `DevicesMC` | the device picked when `Startup.cs` begins | either of the two on a `DevicePath` |
| `LinkProofs`, `LinkOrderProofs`, `SendReceiveProofs`, `UartProofs`, `ApiInterfaceProofs`, `ControlTransferProofs`, `SendEventsProofs`, `DevicesProofs` | | theorems about the module of the name (`LinkOrderProofs`: about `Link`) |

What the models abstract from, and why it is sound for the properties:

* `Link` takes the first Teensy and both UARTs as two FIFO channels of whole
  packets. `Uart` shows the rings are FIFOs and `ApiInterface` that the first
  Teensy is one, and what it takes to break either; a timeout inside a packet is
  the subject of `SendReceive`.
* `Receive` in `Simulator` splits a packet's arrival into the length bytes, some
  bytes, and the rest: the firmware tests only byte 2 (`cmd`) and byte 3, so how
  the remaining bytes are spread over polls makes no difference. A buffer that
  mixes two packets has payload `Mixed`.
* A "descriptor" request is one for the device descriptor, the one that carries
  the endpoint table; one endpoint of each direction stands for all.
* Devices of the repository never stall, and leave descriptor and
  SET_CONFIGURATION requests to LUFA: `Verdicts` says so.
* `SendEvents` leaves out `USB_GEN_vect`'s other causes (they are in
  `ControlTransfer`) and what its handlers receive; `transmitBuffer` is filled in
  one step.
* `ApiInterface` lets the UART move a byte only when the loop has nothing to do
  or is held up (`Settled`): a byte takes some 2800 processor cycles at 57600
  baud, and USB is two hundred times as fast. Length bytes that are not one
  packet's own may say anything (`LengthIn`).
* `ControlTransfer` counts nothing. Of the last transfer the host keeps what it
  has met, and a packet in the endpoint is the last request's own or another's, so
  any number of transfers is one finite state space. Of the hardware it assumes
  what the ATmega's data sheet says and LUFA relies on: a SETUP is always taken,
  discards a pending IN packet and a STALL and leaves RXOUTI; while RXSTPI is set
  everything else is answered NAK; the end of a reset clears ADDEN and endpoint
  0. Of the order of events: the interrupt for the cable comes before a reset on
  it, the host waits for the device after a resume, and a detached bus is as quiet
  as a suspended one.
* What follows a decision is LUFA's: data goes to `Endpoint_Write_Control_Stream_LE`, no data straight to
  `Endpoint_ClearStatusStage`. In `Link` a request whose decision does not fit it is `"stuck"` there, as the host takes no part
  in the stage it waits for; how such a wait may still end is the subject of `ControlTransfer`.
* `DevicePath` takes from `Link` what is proved or checked there: messages arrive in order,
  data that is refused or finds its endpoint busy is gone. What it keeps of the rest: a reply may be sent again after a
  refusal (`ReceiveNack`) or removed by the acknowledgement of another (`ReceiveAck`); data right behind a reply may decide the request
  in its place (`DecideControl`), and in `receiveBuffer` overwrites the banks still to be written (`Overwritten`, `Follows`); `bytesSoFar = 0` then loses
  the packet that has begun to arrive (`WriteBank`). Of the bytes that are still to come of it, taken for a packet, the model keeps that they are
  lost or that nothing is received any more: bytes that happen to read as an `O` packet are in `Link` (`ReceiveShifted`). Reports and packets are
  numbered by the call or command they are of; a mass-storage packet is known by
  its place alone, as `OnIncomingDataReceived` knows it. Lengths there are in
  halves of a full packet: enough to tell a short one from a full one.

## The runs

| run | question | bounds |
|---|---|---|
| `link_quiet` | with no endpoint data on the link, does it implement `ControlService`, and does the PC's queue drain? | 3 requests of every kind (`HostKinds`), so that a request follows one whose ACK is still under way; 1 attach, 1 OUT packet |
| `link_busy` | data crosses replies and is refused: is it in order, does every reply arrive, is unsent data kept, is every request completed? | 2 requests (one to configure, one to cross data), 2 pieces of data (the fewest with an order) |
| `link_rough` | a write fails, and data fills two banks with requests in between: is what the host reads in order, does the write end with the data, and what else can stop a request? | 3 requests (the third in the middle of the data) of every kind but one with data of its own, 1 piece of two banks, 1 loss |
| `link_reset` | after attaching, detaching and F3 at any moment, is every later request still answered? | 2 requests of the same kinds, 2 `S` packets (attach, detach and attach again), 1 reset |
| `link_answer` | is a request decided from the reply to it? It is not | 2 requests, 1 piece of data |
| `sendreceive` | is framing right with a peer that may stall in a packet, and is each packet handled unless a timeout came first? | 3 packets of up to 3 bytes, so each length occurs before and after each other; a limit of 3 turns stands for 0xFFF0 |
| `sendreceive_restart` | does a timeout start over? It does not | the same |
| `uart` | is the transmit ring a FIFO, with no lost wakeup? does `uart_available` ever count too many? does order survive overflow? | a transmit ring of 3 slots and 4 bytes: it wraps and is full and empty; a receive ring of 4 slots, 6 bytes: it wraps, overflows, and holds two bytes beside a third that arrives |
| `sendevents` | a USB event at any access of main's send: when are packets mixed, when does the handler not return? | 2 packets of 5 bytes, 2 events of 4, a ring of 10: an event may or may not find room beside a packet |
| `api` | both directions at once through the first Teensy: whole packets, in order, no wait for ever | 2 packets up of less than, exactly and more than a bank of 4, 2 down, a transmit ring for 2 bytes that fills, a receive ring for 4 that overflows, 1 restart |
| `control` | transfers the host may give up, with resets, suspends, unplugging and detaching anywhere: are answers mixed up, do host and device agree, which waits end? | every kind of request, data stages of 2 packets; no bound on the number of transfers or events |
| `devices` | keyboard and disk against a host that configures, asks and resets, with requests in the middle of a sector | 2 calls with strings `aa`, `b` (a repetition, a change); 2 sectors of 2 banks, 2 commands (a write, or what is taken for its data after a reset, and a read); 1 class request, 1 reset, 1 reply sent again (`MaxResent`) |

All counters of the environment (requests, pieces, events, bytes, calls) are bounded by
the constants named `Max...`; the code's own variables are not bounded
otherwise, except that the 16-bit counters of `SendEvents` wrap at 16 instead of 2^16.

`CHECK_DEADLOCK FALSE` is set where the system really stops: when a reply is
lost the simulator waits for ever and the PC has nothing to send (`link_rough`), as it does when a decision left it in
LUFA's status stage (`link_busy`, `link_rough`, `link_reset`, `link_answer`);
when everything has been sent, typed or commanded (`sendevents`, `api`, `devices`).

### What the runs show

**The protocol.** Without data on the link it is sound. With data, replies are
still all delivered, and what arrives of the data arrives in order, although the
NACK handler re-marks the oldest message of the command the simulator waited for
(`USBSimulatorDevice.cs:230`), not of the one it refused: the refused data stays PendingResponse until an ACK for later data removes it. So data is
lost, but never swapped; a NACK handler that re-marked the refused command (the
mutant `ReceiveNackByGot`) would swap it. Data that comes while the endpoint is
not configured is dropped and acknowledged all the same
(`simulator.c:235`, `:294-300`). After F3 every request is still answered,
whatever the queue holds of the session before. But then unsent data may be forgotten: a
left-over reply is echoed as unknown, data that comes meanwhile takes its place in
`receiveBuffer`, and the acknowledgement of the reply names `O`; so
`UnsentDataKept` speaks of the time before a reset, and of one `S` packet. Two during one request overwrite the
reply like data does, so `link_quiet` attaches once (with `MaxAttach = 3` it finds
`ServiceSpec` violated).

**`receiveBuffer`.** This is what is not sound. A reply may be overwritten before it is
used (`link_answer`), and data of several banks may be overwritten while the
host reads it bank by bank: such chunks are `Mixed`, and `DataInOrder` does not
compare them. After a write of several banks `bytesSoFar = 0`
(`simulator.c:247`) may hit a packet that has begun to arrive; the receiver then never
reports it (`rx = "dead"`) or frames it wrongly (`"shifted"`). This is one of the causes
`EveryRequestAnswered` names. Another is a request decided from what overwrote its reply, or after F3 from an old one: an `O` packet reads as a
verdict to handle the request, with data; for a request without a data stage `Endpoint_Write_Control_Stream_LE` then waits for an OUT packet that
never comes (`Template_Endpoint_Control_W.c:75`), and a verdict without data leaves a read waiting in `Endpoint_ClearStatusStage`. A timeout in a packet stops the receiver for good
(`sendreceive_restart`), so that it cannot deliver a wrong packet either:
`ReadyPacketIntact` holds with stalling peers.

**The UART rings** are correct, even without the `cli` and `sei` that
`uart_putchar` has commented out: its last access enables the interrupt after
the head has moved, and that order is what `NoStrandedByte` rests on.

**Sending from an interrupt** is not. `WirePackets` holds of the packets on the wire unless an event has
come between two of main's accesses that it undoes (`clash`), and both happen: with
`clash` left out of `WirePackets` the run finds two packets mixed. Likewise
`HandlerReturns` without `tight`: with too little room in the ring the handler
waits with interrupts off for room that only an interrupt makes.

**The first Teensy** forwards faithfully towards the simulator, whatever the other direction does.
Towards the PC four things damage the stream: a byte that finds the receive ring
full while the loop is held up; a packet abandoned after one byte, which the timeout
does not cover (`api_interface.c:45`); a write that gives up because the PC reads
nothing; a packet that fills its last bank, which no empty one follows
(`api_interface.c:131-144`), so that the PC reads two packets as one.
`KnownDamage` says there is no fifth. The circle of waits between the PC's lock, its reader
and the loop is real, and only the stream timeout breaks it (`EveryWriteForwarded`;
its mutant takes the timeout away).

**Control transfers.** If the SETUP found the firmware in its main loop, the host
gets what was decided on that very request, whatever was given up before.
Otherwise: a SETUP that comes while the PC is asked about another is handled with
the header of the old one; after a STALL verdict SETUP stays set
(`simulator.c:423-427`), and LUFA goes on with a standard request it knows, and waits
for a host that has gone on. The waits of `Endpoint_ClearStatusStage` end only in the state
Unattached: pulling the cable ends them, but `DetachDevice` with a SETUP pending
does not, as the bus goes quiet and the state is then Suspended
(`Endpoint_AVR8.c:133`). `SetAddress` waits with interrupts off, and an interrupt that finds the
cable gone and a reset ends in the state Default: then not even
pulling the cable helps. And a read that is handled with no data to return, as `SerialAdapter` does with an unknown request (`SerialAdapter.cs:73-90`)
and `DeviceForwarder` with a failed one (`DeviceForwarder.cs:124-129`), hangs by itself: the test at `simulator.c:434`
skips the data stage, and host and firmware wait for each other. `HandlerReturns` excepts it.

**The devices.** Text arrives as typed, if nothing is lost and no
reset comes, but for repeated letters: two equal reports are one press
(`HIDKeyboard.cs:99`), so `aa` arrives as `a`. The first report may be written before
the reply to SET_CONFIGURATION (`:383`), and is then dropped; `_configured` is never cleared. A key
stays pressed only if the report that releases it was lost. The disk returns what was written, unless
a reset fell into a write: `_dataRemaining` is never reset
(`MassStorageDevice.cs:104`), and the next commands are stored as its missing data. The
status of a write is queued before its data has come, and a command the device does not know gets none
(`:224`), so the host waits for ever: `CommandEnds` excepts it.

A sector fills eight banks (two in the run), and a class request between two of them takes its reply, and whatever comes before it, into
the `receiveBuffer` the sector is being written from. `ReadsAsWritten` nevertheless holds: the piece that overwrote the sector is itself refused or lost, so the read comes short
and the host does not complete it. What does give the host wrong data is a reply sent again (`USBSimulatorDevice.cs:232`): taken as the answer to a later SET_CONFIGURATION, it configures
the endpoints before what is left of an earlier command has been dropped, and that is then read as the answer to a new one. For what a read returns `ReadsAsWritten` therefore excepts `resent > 0`; without
the exception the run finds it violated. What the disk stores is right all the same. Reports and pieces right behind a reply can hang the firmware as in `Link`, and a piece forgotten while another was written leaves it deaf: `KeysReleased` and
`CommandEnds` except both, by name.

## Fairness

* `Link`: weak fairness of main's loop, of the `_SendMessages` thread (`Thread.Sleep(0)` in an endless loop), of the
  reader callback, and of the host reading an endpoint that holds data (a USB
  host polls its IN endpoints). Strong fairness of `Receive`: main's loop
  interrupts its polling to run the other calls, but comes back to it for ever,
  and a byte that waits in the ring is then read. Nothing obliges the host to make requests, the
  application to attach or the device to write.
* `SendReceive`: bytes on the wire arrive, and the spin loops keep calling the
  task and the handlers.
* `Uart`: the processor executes `uart_putchar` once called, an enabled
  interrupt is taken, the UART shifts. Nothing obliges the caller to call, and
  nothing else is assumed of the receive side: its properties are safety.
* `SendEvents`: main and the handler run when they can, and the UART sends. In
  both the hardware justifies it: there is no scheduler that could starve them.
* `ApiInterface`: the loop runs (its timeouts with it), the UART shifts out what is in its ring, the
  PC's reader reads and its callback runs when the lock is free. The PC need not write, and the second
  Teensy need not go on in a packet.
* `ControlTransfer`: the processor runs, an enabled interrupt is taken, the PC
  answers, and a host that has begun a transfer goes on with it. It need not begin one,
  and nothing on the bus need happen.
* `Devices`: the PC's threads and the firmware run, the host configures a device
  that is not, reads an IN endpoint that holds data, and goes on with a command. Nobody need type or command.

## The proofs

The eight modules of proofs are about every value of the constants; the only
assumptions are those named in the modules they extend (bounds are natural
numbers, rings have at least two or three slots, packets are not empty, there is a longest packet;
pressing no key is no key). Every safety invariant that a run checks is a theorem, but for `ReadsAsWritten`, half of which is (`DiskHoldsWhatWasWritten`).

`SendReceiveProofs`, for every number and length of packets, every timeout
limit and a peer that may stall:

* `FramingInvariant`: the inductive invariant `Framing`. `TypeOK` and
  `ReadyPacketIntact` are not inductive: that the buffer holds the packet's
  bytes needs where reading is in the stream (`InsidePacket`,
  `BetweenPackets`), that a length byte is read as such needs that the packets
  tile the stream (`PacketsTile`), and both need that the state a timeout leaves
  (`Stuck`) is never left.
* `TypeCorrect` and `PacketsIntact` follow from it.

`UartProofs`, for rings of every size. Four lemmas of modular arithmetic
(`AheadBounds` to `SlotsDistinct`) say what advancing either end of a ring does
to the distance between them and to the slots counted from the tail. On them rest

* `TxInv`: the ring holds the bytes after the last one sent, in order
  (`TxHolds`); a `uart_putchar` that has waited has a free slot, which the
  interrupt can only make more of (`TxPutting`); and a byte in the ring has the
  interrupt enabled but in the one moment before `uart_putchar` enables it
  (`TxAwake`). From it: `NoLostWakeup`, and `QueueImplemented`, by which every
  step of the code is a step of `ByteQueue` or leaves it alone.
* `RxInv`: what `uart_available` has counted between its two reads, and the
  calls still owed on it, are in the ring, because only the thread that counts
  ever takes bytes out (`RxEnough`); the ring ascends from the tail and lies
  after the last byte returned (`RxOrdered`); the bytes add up (`RxAccounted`).
  From it: `GetCharReturns`, `BytesInOrder`, `AllAccounted`.
* `TypeCorrect` needs both: that `dropped` and `gotten` stay below `received`
  is what `RxAccounted` says.

`LinkProofs`, for every number of requests, pieces of data, attaches, resets, failed writes and
banks: `TypeCorrect`. `TypeOK` needs `RequestsKnown` (there is a request
wherever the firmware asks about one, so ids in packets are those of requests)
and `BanksLeft` (a packet being written has a bank left, also after a control
request was answered in the middle of it). `OldestWithFirst` says what the
PC's search of its queue returns.

`LinkOrderProofs`, from the invariant of `LinkProofs` and for the same constants:

* `RepliesOnTheWay`: `ReplyOnItsWay` speaks of any packet of the command that is waited for, which an acknowledgement
  might remove. `WayInv` says which one counts: a question the PC has still to read, with no
  acknowledgement after it (`Asked`), or, with no acknowledgement on the way at all, a reply (`Arriving`).
  It holds because the simulator acknowledges a reply only when it stops waiting, and refuses
  only what it has taken from its buffer (`SendsRight`).
* `DataStaysInOrder`: `OrderInv` follows a piece of data along its whole way. What is ready in the
  PC's queue ascends, and comes after all that is in the channel (`QueueInOrder`, `LinkInOrder`), which comes
  after what is in `receiveBuffer` (`BufferInOrder`), which comes after each chunk the host has read or
  may read, but the banks of the same piece that have been written (`ChunksInOrder`). This rests on
  `RefusalsOK`: a refusal names the reply that is waited for, so data is never marked to be sent again.
* `DataIsKept`: an acknowledgement removes the oldest piece of data in the queue, sent or not, so `UnsentDataKept` is a matter of counting. `PaidFor`: the
  replies, questions, refusals and packets that may yet become an acknowledgement of data, at every place between the two queues,
  are never more than the data sent and not acknowledged, but for one that the request being asked about stands for.
  An acknowledgement that finds no data sent would have to be that one; but it came before the question, which is then still on its way and counts too (`QuestionLast`).
  `AttachedOnce` says that the one `S` packet is over before there are requests, so that
  no echo takes its place; `SentFirst` that the oldest piece is a sent one if any is. Lemmas on `Count` (`CountAppend` to
  `CountSome`) say what each change of a sequence does to the number of its elements in a set.
* `ServiceImplemented`, without data and resets and with at most one other packet of the simulator's: every step
  is one of `ControlService` or leaves it alone. What the host asked, what the PC answered and what completed is read off `Link`'s
  variables (`KindsAsked`, `Outcomes`, `Completed`), so the proof has to say that the packets in
  between are of the one request under way. `QuietInv` does: at most one reply, question or other packet is on its way,
  at one of five places (`OneOnItsWay`), a request is worked on with a reply of its own (`Served`), and
  nothing is refused and no data written (`Undisturbed`). That a request is answered in the end stays with TLC.

`ControlTransferProofs`, for every set of requests and length of the data stages:

* `ControlInvariant`: the inductive invariant `ControlInv` of a request whose
  SETUP found the firmware in the main loop. Until the header is read, SETUP keeps
  the host from everything else (`Unread`); until the PC has answered, there is no
  packet the host could take (`Asking`); and each verdict leaves SETUP and the
  STALL in a state of its own (`Handled`, `Refused`, `Ignored`). `AnswerIsOwn` and
  `ResultIsVerdict` speak of what the host has got; they need where the firmware is when it gets it.
  From it: `AnswersNotMixed` and `HostLearnsVerdict`.
* `AgreementKept`: `HostAndDeviceAgree` speaks only of the main loop. `AgreeInv` says at every
  place of the handlers what of the address and the configuration each side
  has by then (`Address`, `Configuration`), which requests get to which waits (`Places`), and that the SETUP being
  handled is the host's last (`Present`, from `ControlInv`).
* `ControlTyped`, by itself: inside a data stage there is something left to send or to take.

`ApiInterfaceProofs`, for every size of banks, rings and packets:

* `DownwardFaithful`: `DownInOrder` speaks of the bytes received; `DownInv` adds that the bytes in the ring continue
  them (`Joined`, `Chain`), and that the last byte put is as far as the loop is in its packet (`Progress`), which is
  the last one whose write the PC has begun (`Offered`).
* `PacketsWholeAndInOrder`: `KnownDamage` speaks of what the PC's callback got. Its invariant, as long as nothing
  of the four kinds of damage has happened, is `Undamaged`: the bytes that have arrived are one packet after
  the other, each whole but perhaps the last (`Run`); where they begin and end is where the second Teensy is (`InStep`);
  and what is in the bank, with the PC's reader and with its callback are the finished packets, in order, with nothing between two of
  these places (`Delivered`).
* `ApiTyped`, also with damage: a packet then counts as many bytes as its first two said (`UpTypes`, `PutTypes`).

`SendEventsProofs`, for every size of the ring, length of packets and width of the
counters, and a USB event at any access:

* `PacketsWhole`: `WirePackets` speaks of the bytes sent, so the invariant takes what is
  sent and what the ring holds as one `Stream`, to which `uart_putchar` appends a byte (`PutStream`)
  and which the UART, moving one, does not change (`TransmitStream`). As long as `clash` is false,
  `SendInv` says that main and the handler are where their counters tell (`Sending`), which byte is put
  next (`Loaded`), that the stream ends just before it (`Reached`), and which packets have begun
  (`AllBegun`); `AppendGood` is the one step that then needs an argument.
* `TypeCorrect`, also after a `clash`, when the counters may wrap.

`DevicesProofs`, for every text, number of banks and sectors, and number of commands, resets and replies sent again:

* `KeysComeUp`: a key down at the host, with nothing under way, says that a report was lost. By `KeyboardInv` the reports
  of a call travel in the order they are written in, and none between the host's last one and the last one written is missing unless `lost`
  says so; the last of a call presses no key.
* `TextArrives`: `TextInv` says, as long as nothing is lost, that what the host has made of the reports it has read is
  what a host would make of the same number of reports of the text (`ReadSet`), whatever is still under way.
* `DiskHoldsWhatWasWritten`: the disk knows a command and its data apart by their place alone, yet as long as no reset has fallen into a write it takes none for
  the other, and every half of its image lies where it belongs and is of the last write that completed for the host, or of a later one, but for what the disk still awaits.
  The invariant is that the two sides count alike: each packet of data under way follows the one before it or is the next
  that the disk awaits (`dataRemaining`, `position`), and the one after it follows or is still to be sent (`StreamInOrder`, `StreamWhole`).
  The image is as new as the last write the host knows of (`ImageAsWritten`), because a status says no more than the image holds (`Honest`), wherever it is on its way: whatever is refused,
  repeated, torn or overwritten below moves pieces about and makes none. So this theorem, unlike `ReadsAsWritten`, needs no exception for replies sent again.
* `DevicesTyped`: messages of several banks all have the length of a sector, which `Overwritten` needs, and the disk's count of missing data and its position add up (`StorageTypes`).

Only model-checked: the liveness properties, which this prover cannot reach (that of `ControlService` among them), and of `ReadsAsWritten` that a read which completes returns what the disk holds. Every other invariant
and every property of a step that a passing run checks is proved, type correctness included.

## What is left

* `SendReceive` with bytes lost in the ring, and the receiving half of
  `SendReceive_Task` inside the event handlers.
* `Link` with more than two `S` packets, whose states are too many for one run beside a reset.
* `Endpoint_ConfigureEndpoint_Prv` (`Endpoint_AVR8.c`), which reallocates endpoint memory in order when a
  device's table is not ascending.

## Not modelled

`DeviceForwarder` (a real device behind a library; no state of its own), `SerialAdapter` (constant
descriptors and stubs; what both do to the protocol is in `ControlTransfer`), `Logger` and the key presses of `Startup` (text, and calls of operations that are modelled).
Of LUFA: feature requests, GET_CONFIGURATION and halted endpoints, by which a host recovers from errors
of an endpoint; that the interrupt for the end of a reset leaves endpoint 0 selected for the code it
interrupts (`USBInterrupt_AVR8.c:173`); and everything neither firmware reaches: class
drivers, board drivers, host mode, the other architectures, bootloaders and demos. These are most of
the repository's lines: LUFA is vendored whole, and the program's own code is some 2700 of them.
