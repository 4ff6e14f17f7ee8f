SPECIFICATION Spec
CONSTANTS
  a = a
  b = b
  x = x
  d1 = d1
  d2 = d2
  NoClient = NoClient
  Dirs = {d1, d2}
  NoDir = NoDir
  TmpDir = TmpDir
  StartDir = d1
  Live = TRUE
  TmpRel = FALSE
  JobMax = 2
  MaxLives = 2
  Invocations <- AllInvocations
  MaxInvoke = 2
  MaxTmo = 1
  MaxDrops = 1
  Clients = {a, b, x}
  Denied = {x}
  MaxConn = 2
SYMMETRY Swap
INVARIANTS OwnExitCode OwnOutput GivesUpOnlyWhenLost RunsWhereAsked
