SPECIFICATION FairSpec
CONSTANTS
  Cap = 2
  SockCap = 3
  MaxLen = 4
  Kinds = {"text", "long", "QUIT"}
  Absent = Absent
PROPERTY RefusalEnds
CHECK_DEADLOCK FALSE
