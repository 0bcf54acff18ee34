SPECIFICATION Spec
CONSTANTS
  Costs <- ShortAndLong
  RunGap = 2
  MaxContinuous = 3
  Cooldown = 4
  Window = 8
  Hour = 12
  HourBudget = 5
  Configured = 80
  Overrides <- Halved
  MinDelay = 1
  MaxBackoff = 4
  MaxTime = 18
INVARIANTS TypeOK UnbrokenRun DeferralEnds HourCeiling DutyCeiling EstimateIsHonest
CHECK_DEADLOCK FALSE
