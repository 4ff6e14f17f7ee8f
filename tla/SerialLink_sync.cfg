SPECIFICATION Spec
CONSTANTS
  MaxInvoke = 3
  MaxTmo = 2
INVARIANTS TypeOK InSync
PROPERTIES Ends
