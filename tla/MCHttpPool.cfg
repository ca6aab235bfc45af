CONSTANTS
  None = None
  Pcbs = {p1, p2, p3}
  Slots = {s1, s2}
  RequestMax = 2
  ResponseMax = 2
  SendBuffer = 1
SPECIFICATION FairSpec
INVARIANTS SlotsOwned AnsweredWhole
PROPERTY SlotsReclaimed
