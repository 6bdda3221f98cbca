CONSTANTS
  j1 = j1
  j2 = j2
  Jobs <- MCJobs
  InSession <- MCInSession
  Limits <- MCLimits
SPECIFICATION Spec
INVARIANTS
  TypeOK
  LiveLeaseIsNewest
  AckedOwnsResult
  HandOutsCountedAndBounded
  CancelNeverFailure
  LogTellsState
PROPERTIES
  EachTransitionRecordedOnce
  FinishedStaysFinished
  ImplementsLifecycle
