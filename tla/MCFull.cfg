SPECIFICATION Spec
CONSTANTS
  MaxQueue = 2
  MaxAttach = 1
INVARIANT
  NoRestInTransit
