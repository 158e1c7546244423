\* The instance of MCFalcon; the command sign_tx.
CONSTANTS
  n = 2
  q = 12289
  Keys <- MCKeys
  Message <- MCMessage
  Salt <- MCSalt
  Sampled <- MCSampled
  PER_WORD = 2
  KILLS = 1
  KILLED = {2, 5}
  KEYS_GENERATED = 2
  RATE = 38
  Hash <- MCHash
  Blake2s <- MCBlake2s
  Preimage <- MCPreimage
  sk_h <- MCKey
  list_of_messages <- MCMessages
  Stream <- MCStream
  SecretKeys <- MCSecretKeys
  DATA <- MCData
  Permuted <- MCPermuted
SPECIFICATION AllSpec
INVARIANTS
  SignTxPrints
CHECK_DEADLOCK FALSE
