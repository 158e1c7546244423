\* Three coefficients from six samples: blocks of 3, words of 2.  With q = 3 a
\* sample below kq = 6 is one of two that reduce to the same coefficient.
\* Eleven samples squeezed to three: four passes, every pattern of rejections.
CONSTANTS
  n = 3
  q = 3
  kq = 6
  Sample = {0, 4, 5, 6}
  Samples = 6
  BLOCK = 3
  WORD = 2
  over = 8
  Invalid = Invalid
SPECIFICATION HashSpec
INVARIANTS
  SamePoint
  FirstAccepted
  Squeezed
\* The loops end.
CHECK_DEADLOCK FALSE
