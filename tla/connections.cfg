SPECIFICATION Spec
CONSTANTS
  op = op  a = a  b = b  near = near  far = far
  Conns = {op, a, b}
  Hosts = {near, far}
  HostOf <- MCHostOf
  Says <- MCSays
  StoredBans = {}
  MaxClients = 2
  MaxPerHost = 1
  EventCap = 2
  OutCap = 1
  MaxLines <- MCMaxLines
  Flaky = {b}
INVARIANTS TypeOK SlotsAreExact GateIsEnough BannedIsOut UnlinkedIsLeaving
CHECK_DEADLOCK FALSE
