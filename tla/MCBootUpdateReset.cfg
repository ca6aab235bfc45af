CONSTANTS
  MaxGen = 1
  Images = {i1}
  BadVectors = {}
  Blank = Blank
  Chunks = 1
  SeqLimit = 100
  Faults = {}
  MaxFaults = 0
  BoundFaults = FALSE
SPECIFICATION FairSpec
PROPERTY PromisedReset
CHECK_DEADLOCK FALSE
