\* Both directions at once, packets of less than, exactly and more than a bank.
SPECIFICATION Spec
CONSTANTS
  MaxUp = 2
  UpLengths = {3, 4, 6}
  MaxDown = 2
  DownBytes = 3
  BANK = 4
  TX_ROOM = 2
  RX_ROOM = 4
  MaxRestarts = 1
INVARIANTS TypeOK KnownDamage DownInOrder
PROPERTIES EveryPacketHandled EveryWriteForwarded
\* All packets have been sent.
CHECK_DEADLOCK FALSE
