------------------------ MODULE MC_ExecutionEnvironment ------------------------
(***************************************************************************)
(* Instances of ExecutionEnvironment for TLC.  Wallets are interchangeable *)
(* in it, and so are endpoints.                                            *)
(***************************************************************************)
EXTENDS ExecutionEnvironment, TLC

Symmetry == Permutations(Wallets) \cup Permutations(Endpoints)
===============================================================================
