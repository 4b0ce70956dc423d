\* Two cores and seven pages, two of them reserved with a free page between
\* them, so that free runs of all lengths come up and memory runs out.
CONSTANTS
  Cores = {c1, c2}
  TotalPages = 7
  Reserved = {0, 2}
  Counts = {1, 2, 3}
SPECIFICATION FairSpec
INVARIANTS
  TypeOK
  NoDoubleAllocation
  BitmapExact
PROPERTIES
  ImplementsPageAllocator
  CallsReturn
