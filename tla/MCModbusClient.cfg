SPECIFICATION FairSpec
CONSTANTS
  Bits = 2
  MaxCoilsForRead = 3
  MaxCoilsForWrite = 3
  MaxRegistersForRead = 2
  MaxRegistersForWrite = 2
  Room = 6
  Calls <- MCCalls
  Size = 3
  Words = {0, 1}
  MaxTid = 3
  MaxBehind = 2
INVARIANTS
  AcceptedAnswers
  DataTrue
  IdentifierTells
  SilenceKept
PROPERTIES
  CallReturns
CHECK_DEADLOCK FALSE
