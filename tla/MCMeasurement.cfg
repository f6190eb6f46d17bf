CONSTANTS
  Readings <- MCReadings
  Windows = {0, 1, 2, 3}
  Leftovers <- MCLeftovers
  PtrBytes = 8
  MaxRounds = 4
SPECIFICATION Spec
INVARIANT TypeOK
INVARIANT AverageIsBounded
INVARIANT MeanWhileFilling
