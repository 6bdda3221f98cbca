CONSTANTS
  Lease = 13
  ExtendEvery = 3
  SolveTimeout = 16
  Grace = 1
  Prompt = 1
  MaxMisses = 1
  Report = 1
  MaxSkew = 1
SPECIFICATION Spec
CHECK_DEADLOCK FALSE
INVARIANTS
  TypeOK
  LeaseOutlastsMisses
  LapsedSolveStops
  StopsInTime
