CONSTANTS
  j1 = j1
  w1 = w1
  w2 = w2
  NoJob = NoJob
  Jobs = {j1}
  InSession = {}
  Limits = {1, 2}
  Workers = {w1}
  Halting = {w1}
  Slow = {w1}
  MaxFaults <- MCAnswerable
SPECIFICATION FairSpec
CHECK_DEADLOCK FALSE
INVARIANTS
  DecisionIsOutcome
  StoppedForCause
  ChildGoneBetweenTurns
  EveryLeaseAnswered
PROPERTIES
  SolveWithoutStandingStops
  CapEndsTurn
  StopHalts
