\* A peer that may pause for longer than the timeout inside a packet.
SPECIFICATION LiveSpec
CONSTANTS
  MaxPackets = 3
  MaxLength = 3
  TimeoutLimit = 3
INVARIANTS TypeOK ReadyPacketIntact
PROPERTY EveryPacketHandled
