SPECIFICATION Spec
CONSTANTS
  PageSize = 2
  MaxPage = 47
  MemoryMaps <- MCMemoryMaps
  LowLength = 8
  BootAllocs <- MCBootAllocs
  Tables = 9
  Entries = 4
  Spaces = 2
  Sizes = {1, 2}
  StaleBits <- MCStaleBits
  StaleEntries <- MCStaleEntries
  MaxFrees = 1
INVARIANTS HandsOutRam SpacesIsolated LeftWhenFull
CHECK_DEADLOCK FALSE
