\* Two wallets and a third address, sessions of two transfers, amounts below and above a unit
SPECIFICATION Spec
CONSTANTS
  Wallets = {w1, w2}
  Others = {shop}
  NoKey = NoKey
  Unit = 10
  Fine = 2
  Amounts = {1, 3, 4}
  Limits = {0, 20}
  Credits = {0, 5, 15}
  Supply = 2
  MaxStaged = 2
SYMMETRY WalletSymmetry
INVARIANTS TransferTypeOK RevertedOnlyIfSpent PercentageHonoured AdviceHelps
