\* uart.c against its two interrupts.
SPECIFICATION LiveSpec
CONSTANTS
  TX_BUFFER_SIZE = 3
  MaxSent = 4
  RX_BUFFER_SIZE = 4
  MaxReceived = 6
  MaxPacket = 2
INVARIANTS TypeOK NoStrandedByte GetCharNeverSpins Accounted
PROPERTIES QueueSpec PutCharReturns InOrder
