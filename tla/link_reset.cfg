\* The Teensys are unplugged and F3 is pressed at any time.
SPECIFICATION LiveSpec
CONSTANTS
  HostKinds = {"descriptor", "configure", "read", "command"}
  MaxRequests = 2
  MaxData = 0
  MaxOut = 0
  MaxAttach = 2
  MaxLost = 0
  MaxResets = 1
  Banks = 1
PROPERTY EveryRequestAnswered
\* A request decided from data, or from an old reply, may leave the firmware in
\* LUFA's status stage for ever: nothing more happens then.
CHECK_DEADLOCK FALSE
