\* One connection, which leaves; a peer never stalls.
SPECIFICATION FairStreamSpec
CONSTANTS
  Conns = {c1}
  Apps = {a1}
  Requests = {r1}
  Capacity = 1
  PeerFaults = {"gone"}
  MaxLogs = 2
  Dispatcher = Dispatcher
  None = None
PROPERTIES LogsAreStreamed
CHECK_DEADLOCK FALSE
