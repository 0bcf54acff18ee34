SPECIFICATION Spec
CONSTANTS
  chat = chat  chatBig = chatBig  mail = mail  mailBig = mailBig  ack = ack  id = id
  Frames <- SignedLong
  Depth <- DepthTwo
  ClassOf <- MCClassOf
  AccountOf <- MCAccountOf
  CostOf <- MCCostOf
  WantsReply <- MCWantsReply
  NoFrame = NoFrame
  MaxHold = 1
  MinGap = 1
  ReplyWindow = 3
  RxGuard = 2
  Aging = 2
  Penalty = 3
  Price = 3
  Burst = 1
  MaxDebt = 1
  MaxAccounts = 1
  Costs <- OneOrTwo
  RunGap = 2
  MaxContinuous = 2
  Cooldown = 3
  Window = 6
  Hour = 1
  HourBudget = 0
  Configured = 50
  Overrides <- None
  MinDelay = 1
  MaxBackoff = 4
  MaxTime = 3
  MaxOffs = 1
  MaxTrips = 1
  MaxDowns = 1
  MaxHeard = 0
INVARIANTS TypeOK Accounted OwedIsKept SilentWhileOff ShownWithinAFrame
CHECK_DEADLOCK FALSE
