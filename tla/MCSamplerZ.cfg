\* Buffers of 23 bytes: samples of 11 to 18 bytes end everywhere in them.
CONSTANTS
  SIZE = 23
  WORD = 8
  MaxBlocks = 2
  Centres <- MCCentres
  Deviations <- MCDeviations
  sigmin <- MCsigmin
  Draws <- MCDraws
SPECIFICATION SamplerSpec
INVARIANTS
  ReadsInBounds
  SameBytesUnlessExact
  ExponentNotNegative
  ExponentialHalves
  WholeComparison
PROPERTIES
  EachByteOnce
