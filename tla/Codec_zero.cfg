\* A sign and two low bits are a byte; two coefficients, memories of four bytes.
CONSTANTS
  n = 2
  LOW = 2
  MAX = 11
  slen = 3
  q = 23
  modq_bits = 5
  trim_bits = 2
  word_bits = 6
  positive = 5
  LARGEST = 23
  max_out_len = 3
  MEMORY = 4
  max_in_len = 4
SPECIFICATION Spec
INVARIANTS
  NoMinusZero
\* One call is made, and ends.
CHECK_DEADLOCK FALSE
