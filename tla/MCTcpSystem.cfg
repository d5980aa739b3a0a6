SPECIFICATION SystemSpec
CONSTANTS
  c1 = c1
  conn = c1
  NCoils = 1
  NRegs = 6
  NRegisters = 6
  MaxTicks = 2
  Calls <- MCCalls
  InitMem <- MCInitMem
  Refusals = {}
  StartTid = 65533
  MaxCalls = 5
  AnswersBroadcast = TRUE
INVARIANTS NoFalseSuccess Fresh
CHECK_DEADLOCK FALSE
