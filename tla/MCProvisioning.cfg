CONSTANTS
  None = None
  Boards = {b1, b2}
  Probes = {p1, p2}
  MaxKeys = 2
  Leavings <- MCLeavings
SYMMETRY MCSymmetry
SPECIFICATION Spec
INVARIANTS StageZeroLast KeyShared
PROPERTIES OnlyConfirmedBoards PassedAsPlanned
