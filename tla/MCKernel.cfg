SPECIFICATION FairSpec
CONSTANTS
  NCores = 2
  NTasks = 3
  ThreadsPerTable = 2
  MaxCalls = 4
  ProgramVectors <- MCProgramVectors
  Named <- MCNamed
  Garbage <- MCGarbage
INVARIANTS DeadlockNeedsLostBoot HeapAlone ThreadsInsideArray
PROPERTIES SystemCallsReturn
CHECK_DEADLOCK FALSE
