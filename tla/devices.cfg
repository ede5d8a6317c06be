\* Either device on the path to a host that asks and resets.
SPECIFICATION Spec
CONSTANTS
  MaxAsks = 1
  MaxResets = 1
  MaxResent = 1
  Strings <- TheStrings
  MaxCalls = 2
  SectorPackets = 2
  Sectors = 2
  MaxCommands = 2
INVARIANTS TypeOK TextAsTyped StuckKey ReadsAsWritten
PROPERTIES KeysReleased CommandEnds
\* All calls made and all commands done.
CHECK_DEADLOCK FALSE
