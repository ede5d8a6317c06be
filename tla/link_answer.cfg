\* A reply overwritten or out of turn (violated).
SPECIFICATION Spec
CONSTANTS
  HostKinds = {"descriptor", "configure", "read", "command", "output"}
  MaxRequests = 2
  MaxData = 1
  MaxOut = 0
  MaxAttach = 1
  MaxLost = 0
  MaxResets = 0
  Banks = 1
INVARIANT AnswerIsForRequest
