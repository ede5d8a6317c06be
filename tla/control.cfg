\* Any number of transfers of any kind, given up or not, and of bus events.
SPECIFICATION Spec
CONSTANTS
  Kinds = {"address", "configure", "descriptor", "status", "in", "none", "out"}
  DataPackets = 2
INVARIANTS TypeOK AnswerIsOwn ResultIsVerdict HostAndDeviceAgree
PROPERTIES HandlerReturns UnpluggingEndsWaits
