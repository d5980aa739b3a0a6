SPECIFICATION Spec
CONSTANTS
  NCoils = 10
  NRegs = 124
  Calls <- LengthCalls
  InitMem <- MCInitMem
  Refusals = {}
  StartTid = 0
  MaxCalls = 1
  AnswersBroadcast = FALSE
INVARIANT Honest
CHECK_DEADLOCK FALSE
