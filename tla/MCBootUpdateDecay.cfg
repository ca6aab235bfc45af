CONSTANTS
  MaxGen = 2
  Images = {i1, i2}
  BadVectors = {i2}
  Blank = Blank
  Chunks = 1
  SeqLimit = 100
  Faults = {"write", "backup", "power", "health", "image", "factory", "metadata"}
  MaxFaults = 2
  BoundFaults = TRUE
SPECIFICATION Spec
PROPERTY KeepsPromise
CHECK_DEADLOCK FALSE
