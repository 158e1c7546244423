\* Six pairs f, g; one pass of reduce() a level, with any quotient of 0s and 1s.
CONSTANTS
  n = 4
  q = 17
  Short <- MCShort
  NormBound = 12
  Quotients <- MCQuotients
  MaxPasses = 1
  PRECISION = 3
  WORD = 2
  P = 8191
  Unit <- MCUnit
  Sigma2 = 7
  Points <- MCPoints
  Tapes <- MCTapes
SPECIFICATION Spec
INVARIANTS
  SolvesRightly
  PreimageFits
  LengthIsErrors
  SameInBothForms
  TablesHoldRoots
\* It ends with a preimage.
CHECK_DEADLOCK FALSE
