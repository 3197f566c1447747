---------------------------- MODULE MC_WalletFiles ----------------------------
(***************************************************************************)
(* Instances of WalletFiles for TLC.                                       *)
(***************************************************************************)
EXTENDS WalletFiles, TLC

Symmetry == Permutations(Files) \cup Permutations(Passwords)
===============================================================================
