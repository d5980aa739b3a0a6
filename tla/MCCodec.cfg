SPECIFICATION Spec
CONSTANTS
  NCoils = 2000
  NRegs = 125
  Calls <- MCCalls
  InitMem <- MCInitMem
  Junk = {0, 3, 255}
  Missing = {1, 2}
INVARIANTS RequestReadBack RequestFits ReplyReadBack SpanFilled TableIsRemainder
CHECK_DEADLOCK FALSE
