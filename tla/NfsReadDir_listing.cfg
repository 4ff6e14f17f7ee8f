SPECIFICATION Spec
CONSTANTS
  Names = {a, b, c, u}
  Big = {c}
  Unlisted = {u}
  Counts = {0, 2, 9}
  RD_MAXDATA = 3
  MaxChange = 2
  MaxFault = 1
INVARIANTS NoneMissed NoneTwice
PROPERTIES Progress ListingEnds
