SPECIFICATION Spec
CONSTANTS
  Arguments <- OneChanged
  Tokens = {t1, t2, t3}
  ZeroToken = zero
  MaxPermits = 1024
  MaxStarts = 3
  MaxEvents = 2
SYMMETRY TokenSymmetry
INVARIANTS
  TypeOK
  FailClosed
  IdsUnique
  FailsOnlyWhenItMust
PROPERTIES
  ConfigErrorLeavesNoTrace
