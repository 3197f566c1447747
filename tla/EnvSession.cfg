\* Sessions of two operations, settings by hand, offline signing; liveness
SPECIFICATION FairSpec
CONSTANTS
  Wallets = {w1}
  Endpoints = {e1}
  NoKey = NoKey
  NoClient = NoClient
  AutoMode = auto
  Me = me
  Payers = {}
  FixedNonces = {0, 1}
  Limits = {0}
  RcValues = {10}
  Scale = 10
  DefaultLimit = 1
  MaxNonce = 2
  MaxOps = 2
  MaxCachedNonce = 2
INVARIANTS TypeOK ConfirmedOnce LeavesWhole SubmitsExpectedNonce SubmissionFollowsSettings
PROPERTIES ImplementsOutbox Responds
