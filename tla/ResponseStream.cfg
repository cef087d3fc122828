SPECIFICATION FairSpec
CONSTANTS
  Capacity = 2
  MaxResponseBytes = 5
  ChunkSizes <- OneOrTwo
  MaxChunks = 4
INVARIANTS
  TypeOK
  LastChunkWithheld
  InOrder
  ErrorAfterAudit
  AtMostOneTerminalEvent
  AccountedBytes
  HangUpIsRecorded
  NoMissedFailure
PROPERTIES
  TaskEndsUnlessStalled
