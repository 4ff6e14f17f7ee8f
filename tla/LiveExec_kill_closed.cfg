SPECIFICATION FairSpec
CONSTANTS
  Modes = {"RUN", "RUNI"}
  Cap = 0
  PipeCap = 1
  MaxWrite = 1
  MaxInput = 0
  MaxCtl = 0
  MayClose = TRUE
PROPERTY KillAlwaysEnds
