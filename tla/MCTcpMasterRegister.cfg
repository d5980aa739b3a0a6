SPECIFICATION Spec
CONSTANTS
  NCoils = 10
  NRegs = 1
  Calls <- RegisterCalls
  InitMem <- MCInitMem
  Refusals = {}
  StartTid = 0
  MaxCalls = 1
  AnswersBroadcast = FALSE
INVARIANT Honest
CHECK_DEADLOCK FALSE
