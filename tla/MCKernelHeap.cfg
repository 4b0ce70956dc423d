\* Ten blocks and half as many table entries, as in the code; requests of
\* one to three blocks.  A fault ends the run of the kernel.
CONSTANTS
  KBitmapSize = 10
  TableEntries = 5
  BlockSize = 32
  PageDirectories = 50
  Requests = {20, 64, 65}
  Growths = {16, 32, 63}
SPECIFICATION Spec
INVARIANTS
  TypeOK
  FaultsOnlyWhenFull
  LiveDisjoint
  BitmapMatchesLive
  TableMatchesLive
  ScanIsFirstFit
CHECK_DEADLOCK FALSE
