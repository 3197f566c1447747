\* One wallet, two networks, a fixed nonce: the first way to a wrong nonce
SPECIFICATION Spec
CONSTANTS
  Wallets = {w1}
  Endpoints = {e1, e2}
  NoKey = NoKey
  NoClient = NoClient
  AutoMode = auto
  Me = me
  Payers = {}
  FixedNonces = {1}
  Limits = {}
  RcValues = {10}
  Scale = 10
  DefaultLimit = 1
  MaxNonce = 2
  MaxOps = 2
  MaxCachedNonce = 3
INVARIANT AutoMeansQueried
