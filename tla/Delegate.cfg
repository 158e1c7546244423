\* Two accounts that share a verifier and a key, frames three deep, nonces 0 and
\* 1: calls across accounts, calls that re-enter the account that makes them, and
\* calls from inside those.
CONSTANTS
  Account = {a1, a2}
  Key = {k1}
  Op = {o1}
  Verifier = {v1}
  Empty = empty
  Zero = zero
  AlgoID = {1}
  MaxNonce = 2
  MaxDepth = 3
SPECIFICATION Spec
INVARIANTS
  EachNonceOnce
  ExecutedWasSigned
PROPERTIES
  InitializedForGood
  ImplementsAuthorizedLog
