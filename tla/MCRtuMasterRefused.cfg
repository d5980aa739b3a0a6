SPECIFICATION Spec
CONSTANTS
  NCoils = 10
  NRegs = 2
  Calls <- RefusedCalls
  InitMem <- MCInitMem
  Refusals = {6}
  Faults = {}
  MaxCalls = 1
  MaxNoise = 0
INVARIANT ExceptionReported
CHECK_DEADLOCK FALSE
