\* A heap of four blocks fills up at once.
CONSTANTS
  KBitmapSize = 4
  TableEntries = 4
  BlockSize = 32
  PageDirectories = 50
  Requests = {20}
  Growths = {16}
SPECIFICATION Spec
INVARIANT
  ExhaustionIsReported
