SPECIFICATION Spec
CONSTANTS
  Clients = {a}
  Names = {f, g}
  Pair = {f, g}
  Root = Root
  Null = Null
  HashStr <- MCHashStr
  Hash64 <- MCHash64
  Procs = {"GETATTR", "LOOKUP"}
  OldIdx = {2}
  Slots = 2
  TTL = 0
  MaxCalls = 2
  MaxStores = 2
  MaxTime = 0
  MaxLives = 1
INVARIANT IndexIsRight
