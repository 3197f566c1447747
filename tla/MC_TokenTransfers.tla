------------------------- MODULE MC_TokenTransfers -------------------------
(***************************************************************************)
(* Instance of TokenTransfers for TLC.                                     *)
(***************************************************************************)
EXTENDS TokenTransfers, TLC

WalletSymmetry == Permutations(Wallets)
=============================================================================
