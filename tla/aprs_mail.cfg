CONSTANTS
  a = a
  b = b
  c = c
  Stations <- Three
  Airc <- OnlyB
  Speakers <- Radio2
  Messages <- Mail
  Lines <- Said
  PerStation = 2
  Total = 3
  Batch = 2
  MaxWaiting = 1
  MaxAttempts = 2
  MsgidTtl = 2
  MsgidMax = 2
  Budget <- Few
  MaxTime = 2
SPECIFICATION Spec
INVARIANTS TypeOK FatesAreTrue ShownOnce
CHECK_DEADLOCK FALSE
