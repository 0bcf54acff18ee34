SPECIFICATION Spec
CONSTANTS
  Gateway = Gateway
  Station = Station
  NoMsg = NoMsg
  Garbled = Garbled
  long = long
  longAll = longAll
  short = short
  other = other
  up = up
  helloA = helloA
  helloB = helloB
  welcome = welcome
  Msgs <- MCMsgs
  Size <- MCSize
  Hellos <- MCHellos
  EpochOf <- MCEpochOf
  SeqSpace = 16
  MaxRetries = 1
  MaxQueue = 1
  DedupWindow = 4
  MaxReasm = 1
  Outbox <- LongDown
  Broadcasts <- Nobody
  Replies <- NoReplies
  BootHello <- Established
  Echo = FALSE
  MaxDrops = 0
  MaxExpiries = 1
  MaxIdles = 0
  MaxRestarts <- NoRestarts
INVARIANTS AckedIsHeard
CHECK_DEADLOCK FALSE
