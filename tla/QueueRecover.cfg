CONSTANTS
  j1 = j1
  w1 = w1
  w2 = w2
  p1 = p1
  p2 = p2
  Jobs = {j1}
  InSession = {}
  Limits = {3}
  Workers = {w1}
  Producers = {}
  Sweepers = {w1}
  DeliveryLimit = 0
  Counting = FALSE
  Prefetch = 1
  Delays = {FALSE, TRUE}
  Backlog = {j1}
  MaxCopies = 0
  Failures = {"finish", "spawn", "publish", "sweep"}
  MaxFaults = 3
SPECIFICATION FairSpec
CHECK_DEADLOCK FALSE
PROPERTIES
  EveryJobFinishesOrIsLost
  BrokerDrains
