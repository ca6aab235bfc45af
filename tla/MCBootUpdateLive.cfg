CONSTANTS
  MaxGen = 2
  Images = {i1}
  BadVectors = {}
  Blank = Blank
  Chunks = 1
  SeqLimit = 100
  Faults = {"write", "power"}
  MaxFaults = 2
  BoundFaults = TRUE
SPECIFICATION FairSpec
PROPERTIES RecoveryHandsOver TrialFallsBack
CHECK_DEADLOCK FALSE
