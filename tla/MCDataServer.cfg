SPECIFICATION FairSpec
CONSTANTS
  c1 = c1
  HasData = TRUE
  NRegisters = 3
  MaxTicks = 2
  Conn = {c1}
  Frames <- MCFrames
  MaxSent = 2
INVARIANTS TypeOK Understood NotTorn NeverBack
PROPERTIES Answered Ends
CHECK_DEADLOCK FALSE
