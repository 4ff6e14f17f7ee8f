SPECIFICATION Spec
CONSTANTS
  Clients = {a, b}
  Names = {f, g}
  Pair = {}
  Root = Root
  Null = Null
  HashStr <- MCHashStr
  Hash64 <- MCHash64
  Procs = {"MNT", "LOOKUP", "GETATTR", "READ", "SETATTR", "WRITE", "CREATE", "MKDIR", "REMOVE", "RMDIR", "RENAME", "LINK"}
  OldIdx = {2}
  Slots = 2
  TTL = 0
  MaxCalls = 2
  MaxStores = 4
  MaxTime = 1
  MaxLives = 2
CONSTRAINT Apart
SYMMETRY Swap
INVARIANTS AtMostOnce OwnAnswer HandleDenotesPath
