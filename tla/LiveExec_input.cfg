SPECIFICATION StubbornSpec
CONSTANTS
  Modes = {"RUN", "RUNI"}
  Cap = 0
  PipeCap = 1
  MaxWrite = 1
  MaxInput = 2
  MaxCtl = 0
  MayClose = FALSE
PROPERTY KillEnds
