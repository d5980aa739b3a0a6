SPECIFICATION FairSpec
CONSTANTS
  NCoils = 10
  NRegs = 2
  Calls <- NoisyCalls
  InitMem <- MCInitMem
  Refusals = {6}
  Faults = {"late", "noise", "unsent"}
  MaxCalls = 2
  MaxNoise = 1
INVARIANT NoFalseSuccess
PROPERTY CallReturns
CHECK_DEADLOCK FALSE
