\* The nonce of one wallet at two endpoints, two operations
SPECIFICATION Spec
CONSTANTS
  Wallets = {w1}
  Endpoints = {e1, e2}
  NoKey = NoKey
  NoClient = NoClient
  AutoMode = auto
  Me = me
  Payers = {}
  FixedNonces = {}
  Limits = {}
  RcValues = {0, 10}
  Scale = 10
  DefaultLimit = 1
  MaxNonce = 2
  MaxOps = 2
  MaxCachedNonce = 3
SYMMETRY Symmetry
INVARIANTS CacheExact SubmitsExpectedNonce
