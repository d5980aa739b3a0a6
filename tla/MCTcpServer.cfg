SPECIFICATION Spec
CONSTANTS
  c1 = c1
  c2 = c2
  Conn = {c1, c2}
  Frames <- MCFrames
  MaxSent = 2
SYMMETRY MCSymmetry
INVARIANTS TypeOK InOrder ClosedForCause
CHECK_DEADLOCK FALSE
