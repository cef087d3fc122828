SPECIFICATION FairSpec
CONSTANTS
  e1 = e1
  e2 = e2
  e3 = e3
  e4 = e4
  Events <- AllEvents
  Abandoned <- Dropped
  Oversized <- TooLong
  Directories = 2
  MaxStarts = 3
INVARIANTS
  TypeOK
  AckedIsDurable
  NoJoinedLines
PROPERTIES
  EveryAppendReturns
  ImplementsSink
