\* Requests only: no endpoint data crosses the replies.
SPECIFICATION LiveSpec
CONSTANTS
  HostKinds = {"descriptor", "configure", "read", "command", "output"}
  MaxRequests = 3
  MaxData = 0
  MaxOut = 1
  MaxAttach = 1
  MaxLost = 0
  MaxResets = 0
  Banks = 1
PROPERTIES ServiceSpec QueueDrains
\* All requests done and the queue empty, main's loop goes on: no deadlock.
