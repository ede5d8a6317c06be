\* Each piece of data fills two endpoint banks, and a write may fail.
SPECIFICATION LiveSpec
CONSTANTS
  HostKinds = {"descriptor", "configure", "read", "command"}
  MaxRequests = 3
  MaxData = 1
  MaxOut = 0
  MaxAttach = 1
  MaxLost = 1
  MaxResets = 0
  Banks = 2
INVARIANTS TypeOK DataInOrder
PROPERTY EveryRequestAnswered
\* A lost reply leaves the simulator in WaitForPacket, which has no timeout.
CHECK_DEADLOCK FALSE
