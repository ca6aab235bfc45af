CONSTANTS
  h1 = h1
  h2 = h2
  i1 = i1
  i2 = i2
  Hosts = {h1, h2}
  Payload <- MCPayload
  Attempts = 2
  MaxGen = 2
  Images = {i1, i2}
  BadVectors = {}
  Blank = Blank
  Chunks = 2
  SeqLimit = 100
  Faults = {"write", "power"}
  MaxFaults = 1
  BoundFaults = TRUE
SPECIFICATION InstallSpec
INVARIANTS OneImagePerGeneration RollbackRemains
PROPERTIES PassedIsInstalled
CHECK_DEADLOCK FALSE
