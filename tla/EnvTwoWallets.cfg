\* Two wallets of one user, another payer, an absolute limit
SPECIFICATION Spec
CONSTANTS
  Wallets = {w1, w2}
  Endpoints = {e1}
  NoKey = NoKey
  NoClient = NoClient
  AutoMode = auto
  Me = me
  Payers = {p1}
  FixedNonces = {}
  Limits = {5}
  RcValues = {10}
  Scale = 10
  DefaultLimit = 1
  MaxNonce = 1
  MaxOps = 1
  MaxCachedNonce = 2
SYMMETRY Symmetry
INVARIANTS OnlineWhileCalling CacheExact SubmissionFollowsSettings
