\* rclimit 0
SPECIFICATION Spec
CONSTANTS
  Wallets = {w1}
  Endpoints = {e1}
  NoKey = NoKey
  NoClient = NoClient
  AutoMode = auto
  Me = me
  Payers = {}
  FixedNonces = {}
  Limits = {0, 5}
  RcValues = {10}
  Scale = 10
  DefaultLimit = 1
  MaxNonce = 1
  MaxOps = 1
  MaxCachedNonce = 1
INVARIANT RcLimitHonoured
