SPECIFICATION Spec
CONSTANTS
  Modes = {"RUN", "RUNI", "JOB"}
  Cap = 1
  PipeCap = 1
  MaxWrite = 2
  MaxInput = 1
  MaxCtl = 1
  MayClose = TRUE
INVARIANTS OutputComplete NoOrphans
PROPERTIES ImplementsSupervise KillEnds LossEnds CtlAnswered
