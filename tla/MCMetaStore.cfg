CONSTANTS
  Data = {d1, d2}
  HalfRange = 4
  Empty = Empty
SPECIFICATION Spec
INVARIANTS ReadableConsecutive WriterState
PROPERTY AtomicRegister
CHECK_DEADLOCK FALSE
