------------------------- MODULE ExecutionEnvironment -------------------------
(***************************************************************************)
(* The execution environment of the CLI (internal/cli/interpreter.go), the *)
(* transaction session (session.go), the commands that change them         *)
(* (commands.go) and the submission of a transaction through the RPC       *)
(* client (cliutil/rpc.go).                                                *)
(*                                                                         *)
(* The CLI runs one command at a time.  A command blocks at every RPC, and *)
(* the rest of the world moves meanwhile: blocks are produced, another     *)
(* program uses the same key, the nonce cache grows old, the process is    *)
(* killed.  Hence one action per RPC: it takes the answer and runs the     *)
(* handler up to its next RPC or to the prompt; `pc' names the RPC the     *)
(* handler is blocked at.                                                  *)
(***************************************************************************)
EXTENDS KoinosNode, Sequences

CONSTANTS NoKey, NoClient,  \* ee.Key = nil, ee.RPCClient = nil
          AutoMode, Me,         \* the settings "auto" and "me"
          Payers,           \* addresses `payer' is called with
          FixedNonces,      \* numbers `nonce' is called with
          Limits,           \* values `rclimit' is called with
          RcValues,         \* resource credits an account may have
          Scale,            \* the fixed-point 1.0 (10^8 in the code)
          DefaultLimit,     \* the relative rc limit at start (10%)
          MaxOps,           \* bound: operation commands issued
          MaxCachedNonce    \* bound: the nonce a cache entry grows to

ASSUME EnvConstants ==
  /\ NoKey \notin Wallets /\ NoClient \notin Endpoints
  /\ AutoMode \notin Nat \cup Endpoints /\ Me \notin Payers
  /\ FixedNonces \subseteq Nat /\ Limits \subseteq Nat /\ RcValues \subseteq Nat
  /\ Scale \in Nat \ {0} /\ DefaultLimit \in Nat
  /\ MaxOps \in Nat /\ MaxCachedNonce \in Nat

VARIABLES
  key, client,                          \* open wallet, connected endpoint
  nonceMode, rcLimit, payer, chainID,   \* the settings
  session,                              \* [active, ops]: ops = nil is inactive
  nonceMap,                             \* the nonce cache, by wallet
  pc, call                              \* the command being executed

\* What left the CLI, kept to state properties; no action reads it back
\* except `signed', the text the user can hand to submit_transaction.
VARIABLES
  issued,     \* number of operation commands issued so far
  delivered,  \* transactions a network accepted: [ops, confirmed]
  signed,     \* transactions signed offline
  source,     \* per wallet, the endpoint its nonce was last queried from
  astray      \* per wallet, what has set cache and account apart since then

settings    == <<nonceMode, rcLimit, payer, chainID>>
nonceVars   == <<nonceMap, source, astray>>
outVars     == <<delivered, signed>>
vars == <<key, client, settings, session, pc, call, issued, nonceVars, outVars, nodeVars>>

-------------------------------------------------------------------------------
\* Data

Op       == [id : Nat, author : Wallets]
Session  == [active : BOOLEAN, ops : Seq(Op)]
NoSession == [active |-> FALSE, ops |-> <<>>]

RpcCalls == {"pendingNonce", "accountNonce", "accountRc",  \* GetSubmissionParams
             "chainNonce", "wholeRc", "chainId", "submit", \* SubmitTransactionOpsWithPayer
             "rcHint"}                                     \* createInsufficientRCMessage

\* One command in flight: what it is for, and the transaction it builds.
Call == [purpose : {"view", "submit"}, signer : Wallets, ops : Seq(Op),
         fromSession : BOOLEAN, nonce : Nat, rc : Nat,
         chain : Endpoints \cup {NoClient}, payer : Payers \cup Wallets]
NoCall == [purpose |-> "none"]

SignedTx == [signer : Wallets, ops : Seq(Op), nonce : Nat, rc : Nat,
             chain : Endpoints, payer : Payers \cup Wallets]

\* An absent cache entry behaves like one whose time is zero.
CacheEntry == [nonce : Nat, time : {"zero", "fresh", "expired"}]
NoEntry    == [nonce |-> 0, time |-> "zero"]

\* What sets a cached nonce and its account apart: another program submits, the
\* user submits past the cache, or a nonce is taken and the submission given up.
Causes == {"foreign", "bypassed", "unused"}

TypeOK ==
  /\ NodeTypeOK
  /\ key \in Wallets \cup {NoKey} /\ client \in Endpoints \cup {NoClient}
  /\ nonceMode \in Nat \cup {AutoMode} /\ chainID \in Endpoints \cup {AutoMode}
  /\ rcLimit \in [value : Nat, absolute : BOOLEAN] /\ payer \in Payers \cup {Me}
  /\ session \in Session /\ issued \in Nat
  /\ nonceMap \in [Wallets -> CacheEntry]
  /\ \/ pc = "prompt" /\ call = NoCall
     \/ pc \in RpcCalls /\ call \in Call
  /\ delivered \in Seq([ops : Seq(Op), confirmed : BOOLEAN])
  /\ signed \subseteq SignedTx
  /\ source \in [Wallets -> Endpoints \cup {NoClient}] /\ astray \in [Wallets -> SUBSET Causes]

-------------------------------------------------------------------------------
\* Control of a submission, between two RPCs

AtPrompt == pc = "prompt" /\ call = NoCall

\* The payer named in a transaction: the setting, or the open wallet.
PayerAddress == IF payer = Me THEN key ELSE payer

\* GetRcLimit, relative case: the fraction value/Scale of the account's credits.
RelativeLimit(rc) == (rc * rcLimit.value) \div Scale

\* Mutant of FirstMissing: the limit is always taken from the chain.
FirstMissingLimitIgnored(nonce, rc) == IF nonce = 0 THEN "chainNonce" ELSE "wholeRc"

\* SubmitTransactionOpsWithPayer queries what it takes to be missing: a zero.
FirstMissing(nonce, rc) == IF nonce = 0 THEN "chainNonce"
                           ELSE IF rc = 0 THEN "wholeRc" ELSE "chainId"

\* Where the handler blocks once GetNextNonce has returned `nonce'.
AfterNonce(nonce) == IF rcLimit.absolute THEN FirstMissing(nonce, rcLimit.value)
                                         ELSE "accountRc"

NewCall(purpose, ops, fromSession) ==
  [purpose |-> purpose, signer |-> key, ops |-> ops, fromSession |-> fromSession,
   nonce |-> 0, rc |-> IF rcLimit.absolute THEN rcLimit.value ELSE 0,
   chain |-> NoClient, payer |-> PayerAddress]

ReturnToPrompt == pc' = "prompt" /\ call' = NoCall

\* History: wallet w and its cache entry have come apart; they are together.
GoesAstray(w, cause) == astray' = [astray EXCEPT ![w] = @ \cup {cause}]
Together(w)          == astray' = [astray EXCEPT ![w] = {}]

\* The account of w has moved at e, past the cache if that is where w's nonce is from.
MovedPastCache(e, w, cause) ==
  IF source[w] = e THEN GoesAstray(w, cause) ELSE UNCHANGED astray

\* Mutants of ResetNonce: it is forgotten, or resets the wrong wallets.
ResetForgotten == UNCHANGED nonceMap
ResetOthers == nonceMap' = [w \in Wallets |-> IF w = call.signer THEN nonceMap[w] ELSE NoEntry]

\* ResetNonce: forget the nonce of the open wallet (it is call.signer).
ResetNonce == nonceMap' = [nonceMap EXCEPT ![call.signer] = NoEntry]

-------------------------------------------------------------------------------
\* GetNextNonce, up to the first RPC.  `c' is the command in flight.

\* Mutants of UseFixedNonce: the fixed nonce is taken for the last one used, ...
UseFixedNonceNext(c) ==
  /\ nonceMode # AutoMode
  /\ call' = [c EXCEPT !.nonce = nonceMode + 1]
  /\ pc' = AfterNonce(nonceMode + 1)
  /\ UNCHANGED nonceVars

\* ... or the cache counts along, whatever becomes of it.
UseFixedNonceCounted(c) ==
  /\ nonceMode # AutoMode
  /\ nonceMap[key].nonce < MaxCachedNonce
  /\ nonceMap' = [nonceMap EXCEPT ![key].nonce = @ + 1]
  /\ call' = [c EXCEPT !.nonce = nonceMode]
  /\ pc' = AfterNonce(nonceMode)
  /\ UNCHANGED <<source, astray>>

UseFixedNonce(c) ==
  /\ nonceMode # AutoMode
  /\ call' = [c EXCEPT !.nonce = nonceMode]
  /\ pc' = AfterNonce(nonceMode)
  /\ UNCHANGED nonceVars

UseCachedNonce(c) ==
  /\ nonceMode = AutoMode
  /\ nonceMap[key].time = "fresh"
  /\ nonceMap[key].nonce < MaxCachedNonce
  /\ LET next == nonceMap[key].nonce + 1 IN
       /\ nonceMap' = [nonceMap EXCEPT ![key].nonce = next]
       /\ call' = [c EXCEPT !.nonce = next]
       /\ pc' = AfterNonce(next)
  /\ UNCHANGED <<source, astray>>

FetchNonce(c) ==
  /\ nonceMode = AutoMode
  /\ nonceMap[key].time # "fresh"
  /\ call' = c /\ pc' = "pendingNonce"
  /\ UNCHANGED nonceVars

\* SubmitTransaction, up to the first RPC.
SubmitTransaction(ops, fromSession) ==
  LET c == NewCall("submit", ops, fromSession) IN
    UseFixedNonce(c) \/ UseCachedNonce(c) \/ FetchNonce(c)

-------------------------------------------------------------------------------
\* Commands, from the prompt

\* create, import and open end by installing a key; close removes it.
OpenWallet(w) ==
  /\ AtPrompt
  /\ key' = w
  /\ UNCHANGED <<client, settings, session, pc, call, issued, nonceVars, outVars, nodeVars>>

CloseWallet ==
  /\ AtPrompt
  /\ key # NoKey
  /\ key' = NoKey
  /\ UNCHANGED <<client, settings, session, pc, call, issued, nonceVars, outVars, nodeVars>>

\* A new client replaces the old one; nothing else is reset.
Connect(e) ==
  /\ AtPrompt
  /\ client' = e
  /\ UNCHANGED <<key, settings, session, pc, call, issued, nonceVars, outVars, nodeVars>>

Disconnect ==
  /\ AtPrompt
  /\ client # NoClient
  /\ client' = NoClient
  /\ UNCHANGED <<key, settings, session, pc, call, issued, nonceVars, outVars, nodeVars>>

SetNonce(n) ==
  /\ AtPrompt
  /\ nonceMode' = n
  /\ UNCHANGED <<key, client, rcLimit, payer, chainID, session, pc, call, issued,
                 nonceVars, outVars, nodeVars>>

\* A percentage is refused above 100%.
SetRcLimit(value, absolute) ==
  /\ AtPrompt
  /\ ~absolute => value <= Scale
  /\ rcLimit' = [value |-> value, absolute |-> absolute]
  /\ UNCHANGED <<key, client, nonceMode, payer, chainID, session, pc, call, issued,
                 nonceVars, outVars, nodeVars>>

SetPayer(p) ==
  /\ AtPrompt
  /\ payer' = p
  /\ UNCHANGED <<key, client, nonceMode, rcLimit, chainID, session, pc, call, issued,
                 nonceVars, outVars, nodeVars>>

SetChainID(c) ==
  /\ AtPrompt
  /\ chainID' = c
  /\ UNCHANGED <<key, client, nonceMode, rcLimit, payer, session, pc, call, issued,
                 nonceVars, outVars, nodeVars>>

\* `nonce' without argument shows the next nonce; only a query changes state.
ShowNonce ==
  /\ AtPrompt
  /\ key # NoKey /\ client # NoClient
  /\ FetchNonce(NewCall("view", <<>>, FALSE))
  /\ UNCHANGED <<key, client, settings, session, issued, outVars, nodeVars>>

BeginSession ==
  /\ AtPrompt
  /\ key # NoKey
  /\ ~session.active
  /\ session' = [active |-> TRUE, ops |-> <<>>]
  /\ UNCHANGED <<key, client, settings, pc, call, issued, nonceVars, outVars, nodeVars>>

CancelSession ==
  /\ AtPrompt
  /\ key # NoKey
  /\ session.active
  /\ session' = NoSession
  /\ UNCHANGED <<key, client, settings, pc, call, issued, nonceVars, outVars, nodeVars>>

\* Mutant of CanIssue: the online check is missing.
CanIssueUnchecked == key # NoKey

\* Offline, an operation can only join a session.
CanIssue == key # NoKey /\ (client # NoClient \/ session.active)

\* Mutant of AddOrSubmit: an operation joins its session at the front.
AddOrSubmitFirst(op) ==
  \/ /\ session.active
     /\ session' = [session EXCEPT !.ops = <<op>> \o @]
     /\ UNCHANGED <<pc, call, nonceVars>>
  \/ /\ ~session.active
     /\ SubmitTransaction(<<op>>, FALSE)
     /\ UNCHANGED session

\* How every operation command ends: AddOperation puts the operation into the
\* session or, when it finds none, the operation is submitted at once.
AddOrSubmit(op) ==
  \/ /\ session.active
     /\ session' = [session EXCEPT !.ops = Append(@, op)]
     /\ UNCHANGED <<pc, call, nonceVars>>
  \/ /\ ~session.active
     /\ SubmitTransaction(<<op>>, FALSE)
     /\ UNCHANGED session

\* upload, call, set_system_call, set_system_contract, <token>.transfer and the
\* commands of a contract's write methods.
OperationCommand ==
  /\ AtPrompt
  /\ issued < MaxOps
  /\ CanIssue
  /\ issued' = issued + 1
  /\ AddOrSubmit([id |-> issued, author |-> key])
  /\ UNCHANGED <<key, client, settings, outVars, nodeVars>>

\* Mutant of SignsOffline: the nonce may be left to be queried.
SignsOfflineNonceUnset == chainID # AutoMode /\ rcLimit.absolute

\* What `session submit' requires when there is no endpoint.
SignsOffline == nonceMode # AutoMode /\ chainID # AutoMode /\ rcLimit.absolute

SubmitEmptySession ==
  /\ AtPrompt
  /\ key # NoKey
  /\ client = NoClient => SignsOffline
  /\ session = [active |-> TRUE, ops |-> <<>>]
  /\ session' = NoSession
  /\ UNCHANGED <<key, client, settings, pc, call, issued, nonceVars, outVars, nodeVars>>

SubmitSessionOnline ==
  /\ AtPrompt
  /\ key # NoKey /\ client # NoClient
  /\ session.active /\ session.ops # <<>>
  /\ SubmitTransaction(session.ops, TRUE)
  /\ UNCHANGED <<key, client, settings, session, issued, outVars, nodeVars>>

\* Offline the transaction is signed with the settings and printed.
SubmitSessionOffline ==
  /\ AtPrompt
  /\ key # NoKey /\ client = NoClient
  /\ SignsOffline
  /\ session.active /\ session.ops # <<>>
  /\ signed' = signed \cup
       {[signer |-> key, ops |-> session.ops, nonce |-> nonceMode,
         rc |-> rcLimit.value, chain |-> chainID, payer |-> PayerAddress]}
  /\ session' = NoSession
  /\ UNCHANGED <<key, client, settings, pc, call, issued, nonceVars, delivered, nodeVars>>

-------------------------------------------------------------------------------
\* Answers of the endpoint

\* What no answer changes.
RpcLeaves == UNCHANGED <<key, client, settings, issued, signed>>

\* GetNextNonce stores the nonce it fetched and, to submit, takes the next one.
NonceFetched(n) ==
  \/ /\ call.purpose = "submit"
     /\ nonceMap' = [nonceMap EXCEPT ![call.signer] = [nonce |-> n + 1, time |-> "fresh"]]
     /\ call' = [call EXCEPT !.nonce = n + 1]
     /\ pc' = AfterNonce(n + 1)
  \/ /\ call.purpose = "view"
     /\ nonceMap' = [nonceMap EXCEPT ![call.signer] = [nonce |-> n, time |-> "fresh"]]
     /\ ReturnToPrompt

\* Mutant of PendingNonceAnswer: the transactions in the mempool do not count.
PendingNonceIgnored ==
  /\ pc = "pendingNonce"
  /\ pc' = "accountNonce"
  /\ source' = [source EXCEPT ![call.signer] = client]
  /\ Together(call.signer)
  /\ RpcLeaves /\ UNCHANGED <<session, call, nonceMap, delivered, nodeVars>>

PendingNonceAnswer ==
  /\ pc = "pendingNonce"
  /\ LET n == pendingNonce[client][call.signer] IN
       \/ n # 0 /\ NonceFetched(n)
       \/ n = 0 /\ pc' = "accountNonce" /\ UNCHANGED <<call, nonceMap>>
  /\ source' = [source EXCEPT ![call.signer] = client]
  /\ Together(call.signer)
  /\ RpcLeaves /\ UNCHANGED <<session, delivered, nodeVars>>

\* Mutant of AccountNonceAnswer: a zero is asked for again.
AccountNonceRetried ==
  /\ pc = "accountNonce"
  /\ LET n == accountNonce[client][call.signer] IN
       \/ n # 0 /\ NonceFetched(n)
       \/ n = 0 /\ pc' = "pendingNonce" /\ UNCHANGED <<call, nonceMap>>
  /\ RpcLeaves /\ UNCHANGED <<session, delivered, source, astray, nodeVars>>

AccountNonceAnswer ==
  /\ pc = "accountNonce"
  /\ NonceFetched(accountNonce[client][call.signer])
  /\ RpcLeaves /\ UNCHANGED <<session, delivered, source, astray, nodeVars>>

AccountRcAnswer(rc) ==
  /\ pc = "accountRc"
  /\ call' = [call EXCEPT !.rc = RelativeLimit(rc)]
  /\ pc' = FirstMissing(call.nonce, RelativeLimit(rc))
  /\ RpcLeaves /\ UNCHANGED <<session, nonceVars, delivered, nodeVars>>

\* SubmitTransactionOpsWithPayer replaces a nonce that is 0, ...
ChainNonceAnswer ==
  /\ pc = "chainNonce"
  /\ LET next == accountNonce[client][call.signer] + 1 IN
       /\ call' = [call EXCEPT !.nonce = next]
       /\ pc' = FirstMissing(next, call.rc)
  /\ RpcLeaves /\ UNCHANGED <<session, nonceVars, delivered, nodeVars>>

\* ... then a limit that is 0, once, ...
WholeRcAnswer(rc) ==
  /\ pc = "wholeRc"
  /\ call' = [call EXCEPT !.rc = rc]
  /\ pc' = "chainId"
  /\ RpcLeaves /\ UNCHANGED <<session, nonceVars, delivered, nodeVars>>

\* ... and always the chain id: GetSubmissionParams never provides one.
ChainIdAnswer ==
  /\ pc = "chainId"
  /\ call' = [call EXCEPT !.chain = client]
  /\ pc' = "submit"
  /\ RpcLeaves /\ UNCHANGED <<session, nonceVars, delivered, nodeVars>>

\* The network took a transaction of wallet w: the cache is right about it when
\* the nonce came from the cache, and behind when a nonce setting bypassed it.
CacheKnows(w) ==
  IF nonceMode = AutoMode
  THEN source' = [source EXCEPT ![w] = client] /\ Together(w)
  ELSE MovedPastCache(client, w, "bypassed") /\ UNCHANGED source

\* Mutant of SessionAfterReceipt: the session is not ended.
SessionKept == session

\* SessionCommand ends the session it has submitted.
SessionAfterReceipt == IF call.fromSession THEN NoSession ELSE session

SubmitConfirmed ==
  /\ pc = "submit"
  /\ Accepts(client, call.signer, call.nonce, call.chain)
  /\ AddToMempool(client, call.signer, call.nonce)
  /\ delivered' = Append(delivered, [ops |-> call.ops, confirmed |-> TRUE])
  /\ session' = SessionAfterReceipt
  /\ CacheKnows(call.signer)
  /\ ReturnToPrompt
  /\ RpcLeaves /\ UNCHANGED nonceMap

\* The network took it, but the connection broke before the receipt arrived.
SubmitReplyLost ==
  /\ pc = "submit"
  /\ Accepts(client, call.signer, call.nonce, call.chain)
  /\ AddToMempool(client, call.signer, call.nonce)
  /\ delivered' = Append(delivered, [ops |-> call.ops, confirmed |-> FALSE])
  /\ ResetNonce /\ UNCHANGED <<source, astray>>
  /\ ReturnToPrompt
  /\ RpcLeaves /\ UNCHANGED session

\* Mutant of SubmitRefused: the session is ended although nothing was delivered.
SubmitRefusedEndsSession ==
  /\ pc = "submit"
  /\ ResetNonce /\ session' = NoSession
  /\ ReturnToPrompt
  /\ RpcLeaves /\ UNCHANGED <<source, astray, delivered, nodeVars>>

\* Refused by the network (always possible: the contract may refuse), or never
\* sent.  Out of credits, an absolute limit makes the CLI query the credits.
SubmitRefused ==
  /\ pc = "submit"
  /\ ResetNonce
  /\ \/ ReturnToPrompt
     \/ rcLimit.absolute /\ pc' = "rcHint" /\ UNCHANGED call
  /\ RpcLeaves /\ UNCHANGED <<session, source, astray, delivered, nodeVars>>

\* GetSubmissionParams failed: SubmitTransaction returns, and does not reset the
\* nonce it has taken from the cache when it is the credits that did not come.
ParametersFail ==
  /\ pc \in {"pendingNonce", "accountNonce", "accountRc"}
  /\ IF pc = "accountRc" /\ nonceMode = AutoMode THEN GoesAstray(call.signer, "unused")
                                                   ELSE UNCHANGED astray
  /\ ReturnToPrompt
  /\ RpcLeaves /\ UNCHANGED <<session, nonceMap, source, delivered, nodeVars>>

\* SubmitTransactionOpsWithPayer failed before it sent anything.
SubmissionFails ==
  /\ pc \in {"chainNonce", "wholeRc", "chainId"}
  /\ ResetNonce
  /\ ReturnToPrompt
  /\ RpcLeaves /\ UNCHANGED <<session, source, astray, delivered, nodeVars>>

\* createInsufficientRCMessage only writes messages, whatever the answer.
RcHintReturns ==
  /\ pc = "rcHint"
  /\ ReturnToPrompt
  /\ RpcLeaves /\ UNCHANGED <<session, nonceVars, delivered, nodeVars>>

RpcReturns ==
  \/ PendingNonceAnswer \/ AccountNonceAnswer
  \/ \E rc \in RcValues : AccountRcAnswer(rc) \/ WholeRcAnswer(rc)
  \/ ChainNonceAnswer \/ ChainIdAnswer
  \/ SubmitConfirmed \/ SubmitReplyLost \/ SubmitRefused
  \/ ParametersFail \/ SubmissionFails \/ RcHintReturns

-------------------------------------------------------------------------------
\* submit_transaction needs an endpoint and no wallet; it is one RPC, and it
\* leaves the cache and the session alone.
RawSubmit(t) ==
  /\ AtPrompt
  /\ client # NoClient
  /\ Accepts(client, t.signer, t.nonce, t.chain)
  /\ AddToMempool(client, t.signer, t.nonce)
  /\ \E confirmed \in BOOLEAN :
       delivered' = Append(delivered, [ops |-> t.ops, confirmed |-> confirmed])
  /\ MovedPastCache(client, t.signer, "bypassed")
  /\ UNCHANGED <<key, client, settings, session, pc, call, issued, nonceMap, source, signed>>

-------------------------------------------------------------------------------
\* The rest of the world

\* Another program submits a transaction with one of the user's keys.
OtherClientSubmits(e, w) ==
  /\ LatestNonce(e, w) < MaxNonce
  /\ AddToMempool(e, w, LatestNonce(e, w) + 1)
  /\ MovedPastCache(e, w, "foreign")
  /\ UNCHANGED <<key, client, settings, session, pc, call, issued, nonceMap, source, outVars>>

BlockProduced(e, w) ==
  /\ ProduceBlock(e, w)
  /\ UNCHANGED <<key, client, settings, session, pc, call, issued, nonceVars, outVars>>

\* NonceCheckTime (30 s) passes.
NonceExpires(w) ==
  /\ nonceMap[w].time = "fresh"
  /\ nonceMap' = [nonceMap EXCEPT ![w].time = "expired"]
  /\ UNCHANGED <<key, client, settings, session, pc, call, issued, source, astray, outVars, nodeVars>>

\* exit, or the process is killed at any point, and the CLI is started again.
Restart ==
  /\ client' \in Endpoints \cup {NoClient}
  /\ key' = NoKey
  /\ nonceMode' = AutoMode /\ chainID' = AutoMode /\ payer' = Me
  /\ rcLimit' = [value |-> DefaultLimit, absolute |-> FALSE]
  /\ session' = NoSession
  /\ nonceMap' = [w \in Wallets |-> NoEntry]
  /\ source' = [w \in Wallets |-> NoClient] /\ astray' = [w \in Wallets |-> {}]
  /\ ReturnToPrompt
  /\ UNCHANGED <<issued, outVars, nodeVars>>

-------------------------------------------------------------------------------
Init ==
  /\ NodeInit
  /\ key = NoKey /\ client \in Endpoints \cup {NoClient}
  /\ nonceMode = AutoMode /\ chainID = AutoMode /\ payer = Me
  /\ rcLimit = [value |-> DefaultLimit, absolute |-> FALSE]
  /\ session = NoSession /\ pc = "prompt" /\ call = NoCall
  /\ nonceMap = [w \in Wallets |-> NoEntry]
  /\ issued = 0 /\ delivered = <<>> /\ signed = {}
  /\ source = [w \in Wallets |-> NoClient] /\ astray = [w \in Wallets |-> {}]

UserCommand ==
  \/ \E w \in Wallets : OpenWallet(w)
  \/ CloseWallet
  \/ \E e \in Endpoints : Connect(e)
  \/ Disconnect
  \/ \E n \in FixedNonces \cup {AutoMode} : SetNonce(n)
  \/ \E value \in Limits, absolute \in BOOLEAN : SetRcLimit(value, absolute)
  \/ \E p \in Payers \cup {Me} : SetPayer(p)
  \/ \E c \in Endpoints \cup {AutoMode} : SetChainID(c)
  \/ ShowNonce
  \/ BeginSession \/ CancelSession \/ OperationCommand
  \/ SubmitEmptySession \/ SubmitSessionOnline \/ SubmitSessionOffline
  \/ \E t \in signed : RawSubmit(t)

Environment ==
  \/ \E e \in Endpoints, w \in Wallets : OtherClientSubmits(e, w) \/ BlockProduced(e, w)
  \/ \E w \in Wallets : NonceExpires(w)
  \/ Restart

Next == UserCommand \/ RpcReturns \/ Environment

Spec == Init /\ [][Next]_vars

\* Every RPC returns, with an answer or an error: the HTTP connection breaks at
\* the latest when the endpoint dies.  The CLI itself sets no time limit.
FairSpec == Spec /\ WF_vars(RpcReturns)

-------------------------------------------------------------------------------
\* Properties

Ids(ops) == {ops[i].id : i \in DOMAIN ops}

\* A command that blocks at an RPC has a client to send it with, and the wallet
\* it signs with is the open one whose nonce it took: the nil checks at the top
\* of the commands (IsWalletOpen, IsOnline, Session.IsValid) are enough for the
\* dereferences deep in GetNextNonce, GetRcLimit and SubmitTransaction.
OnlineWhileCalling ==
  pc # "prompt" => client \in Endpoints /\ key \in Wallets /\ call.signer = key

\* The nonce of the command in flight has been taken from the cache.
Taken(w) == /\ pc \in {"accountRc", "chainNonce", "wholeRc", "chainId", "submit"}
            /\ call.signer = w /\ nonceMode = AutoMode

\* With nonce n where m is right: n is too high only if a nonce was taken and not
\* used, too low only if the account moved past the cache, and hence right if
\* neither has happened.
Explained(w, n, m) == /\ "unused" \notin astray[w] => n <= m
                      /\ astray[w] \subseteq {"unused"} => n >= m

\* A cached nonce still in use is the last nonce its account has at the network it
\* was queried from (which need not be the one connected now), or one more while a
\* submission that took the next one is in flight: across submissions, refusals,
\* lost receipts, blocks and changes of wallet and endpoint (GetNextNonce,
\* ResetNonce).  It differs only as `Explained' says, in the direction it says.
CacheExact ==
  \A w \in Wallets : nonceMap[w].time = "fresh" =>
    Explained(w, nonceMap[w].nonce, LatestNonce(source[w], w) + (IF Taken(w) THEN 1 ELSE 0))

\* With `nonce auto', and at the network the nonce was queried from, a submission
\* carries the nonce the network expects when it is sent, although it was read
\* several RPCs, and maybe several commands, earlier.  It is ahead only after
\* GetRcLimit failed with a nonce taken (interpreter.go:317), and behind only after
\* another program, a fixed nonce or submit_transaction used the key.  All but the
\* other program is the CLI's own doing, and so is a nonce of another network, of
\* which nothing is said here: see AutoMeansQueried below, which is violated.
SubmitsExpectedNonce ==
  pc = "submit" /\ Taken(call.signer) /\ source[call.signer] = client =>
    Explained(call.signer, call.nonce, LatestNonce(client, call.signer) + 1)

\* What is sent is what the user set: nonce and absolute limit (zero excepted,
\* which rpc.go takes for missing) and payer, the signer itself by default.  The
\* chain id is not: ChainIdAnswer ignores the setting.
SubmissionFollowsSettings ==
  pc = "submit" =>
    /\ nonceMode \notin {AutoMode, 0} => call.nonce = nonceMode
    /\ rcLimit.absolute /\ rcLimit.value # 0 => call.rc = rcLimit.value
    /\ call.payer = IF payer = Me THEN call.signer ELSE payer

\* An operation whose transaction was confirmed is never delivered again, by a
\* session that stayed open, a resubmission or a transaction signed offline.
ConfirmedOnce ==
  \A i, j \in DOMAIN delivered : i < j /\ delivered[i].confirmed =>
    Ids(delivered[i].ops) \cap Ids(delivered[j].ops) = {}

\* A transaction that leaves the CLI holds operations issued one right after the
\* other: none is missing between its first and its last, none is doubled or out of
\* order, however often the session was refused, its reply lost, the wallet closed
\* or the endpoint changed before it left (session.go, commands.go:1290).
Run(ops) == \A k \in DOMAIN ops : ops[k].id = ops[1].id + k - 1
LeavesWhole ==
  /\ \A i \in DOMAIN delivered : Run(delivered[i].ops)
  /\ \A t \in signed : Run(t.ops)

\* Every command gives the prompt back (no RPC leads round in a circle).
Responds == pc # "prompt" ~> pc = "prompt"

-------------------------------------------------------------------------------
\* What the command descriptions promise (commands.go:110, 115)

\* "'auto' will default to querying for nonce": the nonce sent is the one a query
\* would have led to, unless another program has used the key since.  It is not after
\* GetRcLimit failed with a nonce taken (interpreter.go:317), after a fixed nonce or
\* submit_transaction (interpreter.go:152, commands.go:657), nor after `connect' to
\* another network (commands.go:184): each of them leaves an entry that is no answer.
AutoMeansQueried ==
  pc = "submit" /\ Taken(call.signer) /\ "foreign" \notin astray[call.signer] =>
    call.nonce = LatestNonce(client, call.signer) + 1

\* "Set or show the current rc limit": a transaction offers no more than it.
RcLimitHonoured ==
  pc = "submit" /\ rcLimit.absolute => call.rc <= rcLimit.value

-------------------------------------------------------------------------------
\* The session and the command in flight, seen as an outbox of operations.

Submitting == pc # "prompt" /\ call.purpose = "submit"

Outbox == INSTANCE OperationOutbox WITH
  Authors <- Wallets, Nobody <- NoKey,
  author <- key, open <- session.active, staged <- session.ops,
  submitting <- Submitting,
  hand <- IF Submitting /\ ~call.fromSession THEN call.ops ELSE <<>>,
  exported <- {t.ops : t \in signed}

\* Sessions leave whole and in order, survive every failed submission, and are
\* emptied by nothing but a confirmed delivery, an export, the user or the end
\* of the process (session.go and SessionCommand.Execute).
ImplementsOutbox == Outbox!OutboxSpec
===============================================================================
