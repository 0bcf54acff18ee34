SPECIFICATION Spec
CONSTANTS
  Gateway = Gateway
  Station = Station
  NoMsg = NoMsg
  Garbled = Garbled
  long = long
  longAll = longAll
  short = short
  other = other
  up = up
  helloA = helloA
  helloB = helloB
  welcome = welcome
  Msgs <- MCMsgs
  Size <- MCSize
  Hellos <- MCHellos
  EpochOf <- MCEpochOf
  SeqSpace = 16
  MaxRetries = 0
  MaxQueue = 1
  DedupWindow = 4
  MaxReasm = 1
  Outbox <- ShortUp
  Broadcasts <- Nobody
  Replies <- Welcomes
  BootHello <- SaysHello
  Echo = FALSE
  MaxDrops = 1
  MaxExpiries = 0
  MaxIdles = 0
  MaxRestarts <- StationRestarts
INVARIANT FreshNumbers
CHECK_DEADLOCK FALSE
