SPECIFICATION Spec
CONSTANTS
  ann = ann  bob = bob  s1 = s1  s2 = s2  bridge = bridge  side = side
  Clients = {ann, bob}
  Stations = {s1, s2}
  Chans = {bridge, side}
  Configured = {bridge}
  Radio = {bridge}
  Operators <- MCOperators
  Opers = {ann}
  Owners = {bob}
  MaxChannels = 1
  MaxPeers = 1
  Requests <- MCRequests
  MaxModes = 2
INVARIANTS TypeOK MembershipAgrees OpOnBridge StationsAgree
SYMMETRY Interchangeable
CHECK_DEADLOCK FALSE
