SPECIFICATION Spec
CONSTANTS
  Targets <- PlainTargets
  UpstreamStatuses <- OkOrFailed
INVARIANTS
  TypeOK
  EveryEventReadBack
  AuthorityNotDisguised
  UpstreamTargetIsForwarded
