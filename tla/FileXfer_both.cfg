SPECIFICATION FairSpec
CONSTANTS
  Cap = 2
  SockCap = 3
  MaxLen = 4
  Kinds = {"text", "long", "QUIT"}
  Absent = Absent
INVARIANTS TypeOK PutIntact GetIntact NoPartialFile
PROPERTIES TransferEnds DaemonFreed
CHECK_DEADLOCK FALSE
