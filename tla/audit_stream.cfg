\* Two connections of two applications, one request.
SPECIFICATION FairStreamSpec
CONSTANTS
  Conns = {c1, c2}
  Apps = {a1, a2}
  Requests = {r1}
  Capacity = 1
  PeerFaults = {"stalled", "gone"}
  MaxLogs = 3
  Dispatcher = Dispatcher
  None = None
INVARIANTS GaplessStream
PROPERTIES StreamFlows
CHECK_DEADLOCK FALSE
