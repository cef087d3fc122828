SPECIFICATION Spec
CONSTANTS
  Targets <- AllTargets
  UpstreamStatuses <- OkOrFailed
INVARIANTS
  JoinedTargetParses
