\* Two cores, three ports with a CD drive on the middle one, two slots; three
\* files in two sectors (see MCBfs.tla), and callers that ask for one sector;
\* drawBmp reads three sectors into a buffer of one.
CONSTANTS
  Cores = {c1, c2}
  BootCore = c1
  Ports = {0, 1, 2}
  Implemented = {0, 1, 2}
  Ata = {0, 2}
  Slots = {0, 1}
  Sectors = {0, 1, 2, 3}
  LbaLimit = 4
  Pages = {0, 1, 2, 3}
  Values = {a}
  Super = super
  None = none
  Inodes = {0, 1, 2}
  nameLength <- MCNameLength
  blockNumber <- MCBlockNumber
  FileLength <- MCFileLength
  SuperSectors = 1
  Garbage = 1
  MaxCount = 1
  BmpSector = 0
  BmpRoom = 1
  Direct = {2}
SPECIFICATION FairSpec
INVARIANTS
  TableUnused
  LookupComplete
PROPERTIES
  WritesStayInFiles
  TransfersStayInBuffers
  ImplementsDisk
  OperationsEnd
\* A drive that fails during the boot stops the kernel.
CHECK_DEADLOCK FALSE
