SPECIFICATION Spec
CONSTANTS
  chat = chat  chatBig = chatBig  mail = mail  mailBig = mailBig  ack = ack  id = id
  Frames <- Answered
  Depth <- DepthTwo
  ClassOf <- MCClassOf
  AccountOf <- MCAccountOf
  CostOf <- MCCostOf
  WantsReply <- MCWantsReply
  NoFrame = NoFrame
  MaxHold = 6
  MinGap = 1
  ReplyWindow = 3
  RxGuard = 2
  Aging = 2
  Penalty = 3
  Price = 3
  Burst = 6
  MaxDebt = 1
  MaxAccounts = 1
  Costs <- OneOrTwo
  RunGap = 2
  MaxContinuous = 3
  Cooldown = 3
  Window = 8
  Hour = 1
  HourBudget = 0
  Configured = 50
  Overrides <- None
  MinDelay = 1
  MaxBackoff = 4
  MaxTime = 5
  MaxOffs = 0
  MaxTrips = 0
  MaxDowns = 1
  MaxHeard = 1
INVARIANT ListensFirst
PROPERTY DrivesTheGovernor
CHECK_DEADLOCK FALSE
