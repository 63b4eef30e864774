CONSTANTS
  Replicas = {r1, r2}
  Kind = "cron"
  Period = 2
  Horizon = 3
  MaxAttempts = 2
  Threshold = 2
  Changes = {"on", "off", "gone", "empty"}
  MaxTrouble = 2
SPECIFICATION FairSpec
INVARIANTS
  OneWaitingTick
  ChainUnbroken
PROPERTIES
  TickReturns
  GoneIsReaped
CHECK_DEADLOCK FALSE
