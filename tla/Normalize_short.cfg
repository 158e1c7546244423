\* Four coefficients, 0 or -1 (mod 5), with two to a word.
CONSTANTS
  n = 4
  PACK = 2
  q = 5
  sigBound = 4
  Coef = {0, 4}
  FREE = 4
SPECIFICATION Spec
INVARIANTS
  AcceptsOnlyShort
\* The verdict is in.
CHECK_DEADLOCK FALSE
