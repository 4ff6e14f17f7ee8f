SPECIFICATION Spec
CONSTANTS
  Modes = {"RUN", "RUNI", "JOB"}
  Cap = 1
  PipeCap = 1
  MaxWrite = 6
  MaxInput = 1
  MaxCtl = 1
  MayClose = TRUE
INVARIANTS TypeOK OutputComplete NoOrphans OutputBounded
PROPERTIES ImplementsSupervise
