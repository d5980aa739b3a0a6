SPECIFICATION FairSpec
CONSTANTS
  MaxBytes = 4
  MaxReads = 5
INVARIANTS TypeOK NoByteLost
PROPERTY CallReturns
CHECK_DEADLOCK FALSE
