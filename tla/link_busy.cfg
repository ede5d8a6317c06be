\* Data the device writes crosses the replies.
SPECIFICATION LiveSpec
CONSTANTS
  HostKinds = {"descriptor", "configure", "read", "command", "output"}
  MaxRequests = 2
  MaxData = 2
  MaxOut = 0
  MaxAttach = 1
  MaxLost = 0
  MaxResets = 0
  Banks = 1
INVARIANTS DataInOrder ReplyOnItsWay
PROPERTIES UnsentDataKept EveryRequestAnswered
\* A request decided from data, or from an old reply, may leave the firmware in
\* LUFA's status stage for ever: nothing more happens then.
CHECK_DEADLOCK FALSE
