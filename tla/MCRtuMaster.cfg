SPECIFICATION Spec
CONSTANTS
  NCoils = 10
  NRegs = 125
  Calls <- MCCalls
  InitMem <- MCInitMem
  Refusals = {}
  Faults = {}
  MaxCalls = 3
  MaxNoise = 0
INVARIANTS TypeOK Drained Honest WithinBuffer
PROPERTY Implements
CHECK_DEADLOCK FALSE
