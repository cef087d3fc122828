SPECIFICATION Spec
CONSTANTS
  r1 = r1
  r2 = r2
  r3 = r3
  Requests <- TwoRequests
  Disconnecting <- TwoRequests
  Outgrowing = {}
  MaxConcurrent = 2
  MaxSequence = 2
  Allocated = {0}
INVARIANTS
  EveryExchangeAudited
