----------------------------- MODULE WalletVault -----------------------------
(***************************************************************************)
(* What create, import, open and close promise while nobody else uses the  *)
(* files: a vault whose places are filled once and for all.  A wallet is   *)
(* put into a free place, opened and announced in one step, and opened     *)
(* again any number of times; what fails half way leaves no trace.         *)
(***************************************************************************)
CONSTANTS Users, Places,
          Free,   \* a place without a wallet
          NoKey   \* no open wallet

VARIABLES
  vault,     \* [Places -> Free or a wallet, its key under a password]
  opened,    \* [Users -> the key in use]
  announced  \* [file, wallet] of the wallets put in

vaultVars == <<vault, opened, announced>>

VaultInit ==
  /\ vault = [f \in Places |-> Free]
  /\ opened = [u \in Users |-> NoKey]
  /\ announced = {}

PutIn(u, f) ==
  /\ vault[f] = Free /\ vault'[f] # Free
  /\ vault' = [vault EXCEPT ![f] = vault'[f]]
  /\ opened' = [opened EXCEPT ![u] = vault'[f].key]
  /\ announced' = announced \cup {[file |-> f, wallet |-> vault'[f]]}

Unlock(u, f) ==
  /\ vault[f] # Free
  /\ opened' = [opened EXCEPT ![u] = vault[f].key]
  /\ UNCHANGED <<vault, announced>>

Lock(u) ==
  /\ opened' = [opened EXCEPT ![u] = NoKey]
  /\ UNCHANGED <<vault, announced>>

VaultNext ==
  \E u \in Users : Lock(u) \/ \E f \in Places : PutIn(u, f) \/ Unlock(u, f)

VaultSpec == VaultInit /\ [][VaultNext]_vaultVars
===============================================================================
