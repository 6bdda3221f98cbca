CONSTANTS
  j1 = j1
  w1 = w1
  w2 = w2
  p1 = p1
  p2 = p2
  Jobs = {j1}
  InSession = {}
  Limits = {2}
  Workers = {w1}
  Producers = {p1}
  Sweepers = {w1}
  DeliveryLimit = 0
  Counting = FALSE
  Prefetch = 1
  Delays = {FALSE}
  Backlog = {}
  MaxCopies = 0
  Failures = {"worker_crash"}
  MaxFaults = 1
SPECIFICATION Spec
CHECK_DEADLOCK FALSE
INVARIANTS
  NoJobLost
