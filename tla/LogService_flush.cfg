SPECIFICATION LogFairSpec
CONSTANTS
  Char = {}
  FlowChar = {}
  NoChar = NoChar
  capacity = 1
  logBufferSize = 2
  Priority = {"debug", "notice"}
  Masks <- MCMasks
  FlushCounts = {0, 1}
  MaxEntries = 4
INVARIANT EntriesAccounted
PROPERTY FlushEnds
CHECK_DEADLOCK FALSE
