CONSTANTS
  Players = {p1, p2}
  Starts = 2
SPECIFICATION FairSpec
INVARIANTS
  TypeOK
  ThreadJoined
  SafeWhileRunning
  DanglingOnlyLate
  FindsEntry
  JoinKept
PROPERTIES
  StopReturns
  JoinAnswered
CHECK_DEADLOCK FALSE
