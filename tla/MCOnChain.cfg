\* Four coefficients mod 17, hints within and beyond the modulus; and four
\* coefficients, 0 or -1, with two to a word.
CONSTANTS
  n = 4
  q = 17
  Mul <- MCMul
  NTT <- MCNTT
  Norm <- MCNorm
  sigBound = 3
  Hint = {0, 1, 2, 3, 4, 5, 6, 7, 8, 9, 10, 11, 12, 13, 14, 15, 16, 17, 18}
  Signature <- MCSignature
  PACK = 2
  Coef = {0, 16}
  FREE = 4
SPECIFICATION OnChainSpec
INVARIANTS
  InverseChecked
  KeyFits
  RightHintRecovers
  WritesInS1
  AcceptsShort
\* A key is recovered or the call reverted; the verdict is in.
CHECK_DEADLOCK FALSE
