SPECIFICATION FairSpec
CONSTANTS
  Modes = {"RUN", "RUNI"}
  Cap = 0
  PipeCap = 1
  MaxWrite = 0
  MaxInput = 2
  MaxCtl = 1
  MayClose = TRUE
PROPERTIES KillEnds LossEnds CtlServed
