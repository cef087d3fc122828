SPECIFICATION Spec
CONSTANTS
  Capacity = 2
  MaxResponseBytes = 5
  ChunkSizes <- OneOrTwo
  MaxChunks = 4
INVARIANT
  CleanEndIsWhole
