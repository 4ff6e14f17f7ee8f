SPECIFICATION Spec
CONSTANTS
  Clients = {a}
  Names = {f, g}
  Pair = {}
  Root = Root
  Null = Null
  HashStr <- MCHashStr
  Hash64 <- MCHash64
  Procs = {"GETATTR", "RENAME"}
  OldIdx = {2}
  Slots = 2
  TTL = 0
  MaxCalls = 2
  MaxStores = 2
  MaxTime = 0
  MaxLives = 1
INVARIANT GenuinelyStale
