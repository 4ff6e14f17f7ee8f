SPECIFICATION Spec
CONSTANTS
  Setups <- MCSetups
  OutUnits <- MCOutUnits
  ErrTexts <- MCErrTexts
  MaxUnits = 3
  Chunk = 4
  CwdMax = 12
  MbLine = 24
INVARIANTS TypeOK ChunkingInvisible RoundTrip
