CONSTANTS
  NoKey = NoKey
  Tabs = {t1}
  Keys = {k1}
  Backlog = 0
  QueueSize = 2
  MaxTurns = 1
  MaxChunks = 1
  ResumeLimit = 2
  Leaving = {t1}
  MayDrain = TRUE
  Failures <- MCAllFailures
  MaxFaults = 1
SPECIFICATION FairSpec
CHECK_DEADLOCK FALSE
INVARIANTS
  TypeOK
  OneReplyPerKey
  DoneIsFinal
  NoTurnOutlivesConnection
PROPERTIES
  ConnectionEnds
  StreamedReplySettles
