CONSTANTS
  short = short
  long = long
  other = other
  Data = {short, long, other}
  MaxParts = 2
  Length <- MCLength
  HalfRange = 4
  Empty = Empty
SPECIFICATION Spec
INVARIANT SaveProgress
PROPERTY AtomicConfiguration
CHECK_DEADLOCK FALSE
