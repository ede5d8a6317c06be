\* Plugged in or out at any time, with any room in the ring.
SPECIFICATION Spec
CONSTANTS
  MaxPackets = 2
  PacketBytes = 5
  EventBytes = 4
  MaxEvents = 2
  TX_BUFFER_SIZE = 10
  Modulus = 16
INVARIANTS TypeOK WirePackets
PROPERTY HandlerReturns
\* Every packet has been sent and the cable is left alone.
CHECK_DEADLOCK FALSE
