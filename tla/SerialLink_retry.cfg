SPECIFICATION Spec
CONSTANTS
  MaxInvoke = 1
  MaxTmo = 2
INVARIANTS JobReported
