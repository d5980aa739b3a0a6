SPECIFICATION FairSpec
CONSTANTS
  NCoils = 10
  NRegs = 2
  Calls <- MCCalls
  InitMem <- MCInitMem
  Refusals = {6}
  StartTid = 65534
  MaxCalls = 3
  AnswersBroadcast = FALSE
INVARIANTS TypeOK InSync Honest
PROPERTIES Implements CallReturns
CHECK_DEADLOCK FALSE
