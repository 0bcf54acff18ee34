SPECIFICATION Spec
CONSTANTS
  Gateway = Gateway
  Station = Station
  NoMsg = NoMsg
  Garbled = Garbled
  long = long
  longAll = longAll
  short = short
  other = other
  up = up
  helloA = helloA
  helloB = helloB
  welcome = welcome
  Msgs <- MCMsgs
  Size <- MCSize
  Hellos <- MCHellos
  EpochOf <- MCEpochOf
  SeqSpace = 16
  MaxRetries = 1
  MaxQueue = 1
  DedupWindow = 4
  MaxReasm = 1
  Outbox <- ShortsDown
  Broadcasts <- Nobody
  Replies <- NoReplies
  BootHello <- Established
  Echo = TRUE
  MaxDrops = 0
  MaxExpiries = 0
  MaxIdles = 1
  MaxRestarts <- NoRestarts
INVARIANTS AtMostOnce
PROPERTIES Downlink
CHECK_DEADLOCK FALSE
