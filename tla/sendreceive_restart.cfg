\* The receiver after a timeout (violated).
SPECIFICATION LiveSpec
CONSTANTS
  MaxPackets = 3
  MaxLength = 3
  TimeoutLimit = 3
PROPERTY StartsOver
