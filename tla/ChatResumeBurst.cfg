CONSTANTS
  NoKey = NoKey
  Tabs = {t1}
  Keys = {}
  Backlog = 3
  QueueSize = 2
  MaxTurns = 1
  MaxChunks = 0
  ResumeLimit = 3
  Leaving = {}
  MayDrain = FALSE
  Failures = {}
  MaxFaults = 0
SPECIFICATION ReconnectingSpec
CHECK_DEADLOCK FALSE
PROPERTIES
  ResumeCatchesUp
