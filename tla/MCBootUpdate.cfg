CONSTANTS
  MaxGen = 3
  Images = {i1, i2}
  BadVectors = {}
  Blank = Blank
  Chunks = 2
  SeqLimit = 100
  Faults = {"write", "power"}
  MaxFaults = 0
  BoundFaults = FALSE
SPECIFICATION Spec
INVARIANTS ReferencedImagesIntact UploadTargetUnreferenced TrialBootBudget OnlyAcceptedConfirmed RequestConsumed
PROPERTIES FreshActivations NoRollback KeepsPromise
