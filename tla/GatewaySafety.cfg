SPECIFICATION Spec
CONSTANTS
  r1 = r1
  r2 = r2
  r3 = r3
  Requests <- ThreeRequests
  Disconnecting <- ThreeRequests
  Outgrowing <- ThreeRequests
  MaxConcurrent = 2
  MaxSequence = 3
  Allocated = {0, 1}
SYMMETRY Symmetry
INVARIANTS
  TypeOK
  NoSendAfterClose
  NoUnauditedAnswer
  OneEventPerRequest
  LogTellsContact
  UpstreamConcurrencyBounded
  LostOnlyByHangUpOrPanic
PROPERTIES
  ImplementsContract
