CONSTANTS
  NoKey = NoKey
  Tabs = {t1}
  Keys = {k1}
  Backlog = 0
  QueueSize = 2
  MaxTurns = 1
  MaxChunks = 0
  ResumeLimit = 2
  Leaving = {}
  MayDrain = FALSE
  Failures = {"start"}
  MaxFaults = 1
SPECIFICATION Spec
CHECK_DEADLOCK FALSE
INVARIANTS
  AckedHasReply
