CONSTANTS
  j1 = j1
  w1 = w1
  w2 = w2
  NoJob = NoJob
  Jobs = {j1}
  InSession = {}
  Limits = {2}
  Workers = {w1, w2}
  Halting = {}
  Slow = {}
  MaxFaults <- MCRace
SPECIFICATION Spec
CHECK_DEADLOCK FALSE
INVARIANTS
  TypeOK
  ResultIsOwn
