\* Blocks and digests of 3 bytes; pieces and reads end inside, at and beyond a
\* block; messages of up to 7 bytes, reads of up to 7, of 9 to 14 bytes in all.
CONSTANTS
  Byte = {x, y}
  PadStart = pad1f
  PadEnd = pad80
  RATE = 3
  Data <- MCData
  MaxMessage = 7
  MaxLength = 7
  MaxTotal = 9
  HASH_OUTPUT = 3
  MAX_BUFFER_SIZE = 3
  CtrPieces <- MCCtrPieces
  MaxCtr = 14
  DIGEST = 3
  ChainPieces <- MCChainPieces
  MaxChained = 3
  MaxChain = 10
SPECIFICATION XofSpec
INVARIANTS
  SameSponge
PROPERTIES
  ImplementsXof
  AreXofs
  EveryCallReturns
\* The chain has handed out all the bytes of its bound.
CHECK_DEADLOCK FALSE
