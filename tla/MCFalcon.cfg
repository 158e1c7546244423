\* Two messages, a salt; a bit of a signature may change on its way; nine
\* scripts, two messages, one kill; two keys, two strings of data.
CONSTANTS
  n = 2
  q = 12289
  Keys <- MCKeys
  Message <- MCMessage
  Salt <- MCSalt
  Sampled <- MCSampled
  PER_WORD = 2
  KILLS = 1
  KILLED = {2, 5}
  KEYS_GENERATED = 2
  RATE = 38
  Hash <- MCHash
  Blake2s <- MCBlake2s
  Preimage <- MCPreimage
  sk_h <- MCKey
  list_of_messages <- MCMessages
  Stream <- MCStream
  SecretKeys <- MCSecretKeys
  DATA <- MCData
  Permuted <- MCPermuted
SPECIFICATION AllSpec
INVARIANTS
  SignedIsAccepted
  AcceptedIsPreimage
  TestsPass
  Reproducible
  SignedIsValid
  OnlySignerVerifies
  ValidOnChain
PROPERTIES
  MakeSessionEnds
CHECK_DEADLOCK FALSE
