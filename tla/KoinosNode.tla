------------------------------ MODULE KoinosNode ------------------------------
(***************************************************************************)
(* The Koinos networks the CLI talks to, seen through the RPC methods that *)
(* internal/cliutil/rpc.go calls.  This code is not in the repository: it  *)
(* is modelled only as far as the CLI depends on it.  Per network and      *)
(* account there are two nonces, the one of the last transaction in a      *)
(* block and the one of the last transaction still pending in the mempool  *)
(* (0 when there is none, rpc.go:299).                                     *)
(***************************************************************************)
EXTENDS Naturals

CONSTANTS Wallets,    \* the keys (one address each) the user owns
          Endpoints,  \* RPC endpoints, each serving a network of its own
          MaxNonce    \* bound: transactions per account and network

ASSUME NodeConstants == MaxNonce \in Nat

VARIABLES accountNonce,  \* [Endpoints -> [Wallets -> Nat]]: chain.get_account_nonce
          pendingNonce   \* [Endpoints -> [Wallets -> Nat]]: mempool.get_pending_nonce

nodeVars == <<accountNonce, pendingNonce>>

NodeTypeOK == /\ accountNonce \in [Endpoints -> [Wallets -> Nat]]
              /\ pendingNonce \in [Endpoints -> [Wallets -> Nat]]

NodeInit == /\ accountNonce = [e \in Endpoints |-> [w \in Wallets |-> 0]]
            /\ pendingNonce = [e \in Endpoints |-> [w \in Wallets |-> 0]]

\* The nonce of the last transaction the network knows of account w.
LatestNonce(e, w) ==
  IF pendingNonce[e][w] # 0 THEN pendingNonce[e][w] ELSE accountNonce[e][w]

\* The network takes the transaction that comes next, made for this network.
Accepts(e, w, nonce, chain) == /\ nonce = LatestNonce(e, w) + 1
                               /\ chain = e
                               /\ nonce <= MaxNonce

\* The accepted transaction becomes the last pending one of its account.
AddToMempool(e, w, nonce) ==
  /\ pendingNonce' = [pendingNonce EXCEPT ![e][w] = nonce]
  /\ UNCHANGED accountNonce

\* A block takes account w's pending transactions.
ProduceBlock(e, w) ==
  /\ pendingNonce[e][w] # 0
  /\ accountNonce' = [accountNonce EXCEPT ![e][w] = pendingNonce[e][w]]
  /\ pendingNonce' = [pendingNonce EXCEPT ![e][w] = 0]
===============================================================================
