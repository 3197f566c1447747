---------------------- MODULE ExecutionEnvironmentProofs ----------------------
(***************************************************************************)
(* Safety of ExecutionEnvironment, for every set of wallets and endpoints, *)
(* every setting and every bound.                                          *)
(***************************************************************************)
EXTENDS ExecutionEnvironment, TLAPS

\* The integer quotient of GetRcLimit is a credit amount again.
LEMMA QuotientType ==
  ASSUME NEW a \in Nat, NEW b \in Nat \ {0}
  PROVE  a \div b \in Nat
OBVIOUS

\* What the handler of an RPC may rely on: types, and a client and a wallet.
CallOK == TypeOK /\ OnlineWhileCalling

LEMMA RelativeLimitType ==
  ASSUME TypeOK, NEW rc \in RcValues
  PROVE  RelativeLimit(rc) \in Nat
<1>1. rc \in Nat /\ rcLimit.value \in Nat /\ Scale \in Nat \ {0}
  BY EnvConstants DEF TypeOK
<1>2. rc * rcLimit.value \in Nat
  BY <1>1
<1> QED
  BY <1>1, <1>2, QuotientType DEF RelativeLimit

LEMMA CallOKInit == Init => CallOK
BY EnvConstants, NodeConstants
DEF Init, CallOK, TypeOK, OnlineWhileCalling, NodeInit, NodeTypeOK, Session, NoSession,
    CacheEntry, NoEntry, NoCall

\* Writing one account's nonce keeps the table of nonces well-typed.
LEMMA NonceTableType ==
  ASSUME NEW f \in [Endpoints -> [Wallets -> Nat]],
         NEW e \in Endpoints, NEW w \in Wallets, NEW n \in Nat
  PROVE  [f EXCEPT ![e][w] = n] \in [Endpoints -> [Wallets -> Nat]]
<1>1. f[e] \in [Wallets -> Nat]
  OBVIOUS
<1>2. [f[e] EXCEPT ![w] = n] \in [Wallets -> Nat]
  BY <1>1
<1> QED
  BY <1>2

LEMMA NodeTypeStep ==
  ASSUME NodeTypeOK, NEW e \in Endpoints, NEW w \in Wallets, NEW n \in Nat,
         AddToMempool(e, w, n) \/ ProduceBlock(e, w)
  PROVE  NodeTypeOK'
<1>1. pendingNonce[e][w] \in Nat
  BY DEF NodeTypeOK
<1>2. CASE AddToMempool(e, w, n)
  BY <1>2, NonceTableType DEF NodeTypeOK, AddToMempool
<1>3. CASE ProduceBlock(e, w)
  BY <1>1, <1>3, NonceTableType DEF NodeTypeOK, ProduceBlock
<1> QED
  BY <1>2, <1>3

\* A command that sets a value, opens or closes something, from the prompt.
LEMMA SettingsStep ==
  ASSUME CallOK,
         \/ \E w \in Wallets : OpenWallet(w)
         \/ CloseWallet
         \/ \E e \in Endpoints : Connect(e)
         \/ Disconnect
         \/ \E n \in FixedNonces \cup {AutoMode} : SetNonce(n)
         \/ \E value \in Limits, absolute \in BOOLEAN : SetRcLimit(value, absolute)
         \/ \E p \in Payers \cup {Me} : SetPayer(p)
         \/ \E c \in Endpoints \cup {AutoMode} : SetChainID(c)
         \/ BeginSession \/ CancelSession \/ SubmitEmptySession
  PROVE  CallOK'
<1> USE DEF CallOK, TypeOK, OnlineWhileCalling, NodeTypeOK, AtPrompt,
            settings, nonceVars, outVars, nodeVars
<1>1. CASE \E w \in Wallets : OpenWallet(w)
  BY <1>1 DEF OpenWallet
<1>2. CASE CloseWallet
  BY <1>2 DEF CloseWallet
<1>3. CASE \E e \in Endpoints : Connect(e)
  BY <1>3 DEF Connect
<1>4. CASE Disconnect
  BY <1>4 DEF Disconnect
<1>5. CASE \E n \in FixedNonces \cup {AutoMode} : SetNonce(n)
  BY <1>5, EnvConstants DEF SetNonce
<1>6. CASE \E value \in Limits, absolute \in BOOLEAN : SetRcLimit(value, absolute)
  BY <1>6, EnvConstants DEF SetRcLimit
<1>7. CASE \E p \in Payers \cup {Me} : SetPayer(p)
  BY <1>7 DEF SetPayer
<1>8. CASE \E c \in Endpoints \cup {AutoMode} : SetChainID(c)
  BY <1>8 DEF SetChainID
<1>9. [active |-> TRUE, ops |-> <<>>] \in Session /\ NoSession \in Session
  BY DEF Session, NoSession
<1>10. CASE BeginSession
  BY <1>9, <1>10 DEF BeginSession
<1>11. CASE CancelSession
  BY <1>9, <1>11 DEF CancelSession
<1>12. CASE SubmitEmptySession
  BY <1>9, <1>12 DEF SubmitEmptySession
<1> QED
  BY <1>1, <1>2, <1>3, <1>4, <1>5, <1>6, <1>7, <1>8, <1>10, <1>11, <1>12

\* Control after GetNextNonce is at one of the calls of the submission.
LEMMA AfterNonceType == \A nonce : AfterNonce(nonce) \in RpcCalls \ {"pendingNonce", "accountNonce"}
BY DEF AfterNonce, FirstMissing, RpcCalls

LEMMA NewCallType ==
  ASSUME TypeOK, key \in Wallets, NEW purpose \in {"view", "submit"},
         NEW ops \in Seq(Op), NEW fromSession \in BOOLEAN
  PROVE  /\ NewCall(purpose, ops, fromSession) \in Call
         /\ NewCall(purpose, ops, fromSession).signer = key
         /\ NewCall(purpose, ops, fromSession).purpose = purpose
<1>1. PayerAddress \in Payers \cup Wallets
  BY DEF PayerAddress, TypeOK
<1>2. (IF rcLimit.absolute THEN rcLimit.value ELSE 0) \in Nat
  BY DEF TypeOK
<1> QED
  BY <1>1, <1>2 DEF NewCall, Call

\* A command takes a nonce, or asks for one, and blocks at an RPC.
LEMMA TakeNonceStep ==
  ASSUME CallOK, key \in Wallets, client \in Endpoints, NEW c \in Call, c.signer = key,
         UseFixedNonce(c) \/ UseCachedNonce(c) \/ FetchNonce(c)
  PROVE  /\ pc' \in RpcCalls /\ call' \in Call /\ call'.signer = key
         /\ nonceMap' \in [Wallets -> CacheEntry]
         /\ source' \in [Wallets -> Endpoints \cup {NoClient}] /\ astray' \in [Wallets -> SUBSET Causes]
<1> USE DEF CallOK, TypeOK
<1>1. CASE UseFixedNonce(c)
  <2>1. nonceMode \in Nat
    BY <1>1 DEF UseFixedNonce
  <2>2. [c EXCEPT !.nonce = nonceMode] \in Call /\ [c EXCEPT !.nonce = nonceMode].signer = key
    BY <2>1 DEF Call
  <2> QED
    BY <1>1, <2>2, AfterNonceType DEF UseFixedNonce, nonceVars
<1>2. CASE UseCachedNonce(c)
  <2> DEFINE next == nonceMap[key].nonce + 1
  <2>1. next \in Nat
    BY DEF CacheEntry
  <2>2. [c EXCEPT !.nonce = next] \in Call /\ [c EXCEPT !.nonce = next].signer = key
    BY <2>1 DEF Call
  <2>3. [nonceMap EXCEPT ![key].nonce = next] \in [Wallets -> CacheEntry]
    BY <2>1 DEF CacheEntry
  <2> QED
    BY <1>2, <2>2, <2>3, AfterNonceType DEF UseCachedNonce
<1>3. CASE FetchNonce(c)
  BY <1>3 DEF FetchNonce, nonceVars, RpcCalls
<1> QED
  BY <1>1, <1>2, <1>3

\* What a step that only starts a command leaves well-typed.
LEMMA CommandStep ==
  ASSUME CallOK, ShowNonce \/ OperationCommand \/ SubmitSessionOnline
  PROVE  CallOK'
<1> USE DEF CallOK, TypeOK, OnlineWhileCalling, AtPrompt, settings, nonceVars, outVars, nodeVars
<1>1. CASE ShowNonce
  <2> DEFINE c == NewCall("view", <<>>, FALSE)
  <2>1. key \in Wallets /\ client \in Endpoints
    BY <1>1 DEF ShowNonce
  <2>2. c \in Call /\ c.signer = key
    <3>1. <<>> \in Seq(Op) /\ FALSE \in BOOLEAN /\ "view" \in {"view", "submit"}
      OBVIOUS
    <3> QED
      BY <2>1, <3>1, NewCallType
  <2>3. FetchNonce(c)
    BY <1>1 DEF ShowNonce
  <2> HIDE DEF c
  <2>4. /\ pc' \in RpcCalls /\ call' \in Call /\ call'.signer = key
        /\ nonceMap' \in [Wallets -> CacheEntry]
        /\ source' \in [Wallets -> Endpoints \cup {NoClient}] /\ astray' \in [Wallets -> SUBSET Causes]
    BY <2>1, <2>2, <2>3, TakeNonceStep
  <2> QED
    BY <1>1, <2>1, <2>4 DEF ShowNonce, NodeTypeOK
<1>2. ASSUME NEW ops \in Seq(Op), NEW fromSession \in BOOLEAN, key \in Wallets,
             client \in Endpoints, SubmitTransaction(ops, fromSession)
      PROVE  /\ pc' \in RpcCalls /\ call' \in Call /\ call'.signer = key
             /\ nonceMap' \in [Wallets -> CacheEntry]
             /\ source' \in [Wallets -> Endpoints \cup {NoClient}] /\ astray' \in [Wallets -> SUBSET Causes]
  <2> DEFINE c == NewCall("submit", ops, fromSession)
  <2>1. c \in Call /\ c.signer = key
    BY <1>2, NewCallType
  <2>2. UseFixedNonce(c) \/ UseCachedNonce(c) \/ FetchNonce(c)
    BY <1>2 DEF SubmitTransaction
  <2> HIDE DEF c
  <2> QED
    BY <1>2, <2>1, <2>2, TakeNonceStep
<1>3. CASE OperationCommand
  <2> DEFINE op == [id |-> issued, author |-> key]
  <2>1. key \in Wallets /\ op \in Op
    BY <1>3 DEF OperationCommand, AddOrSubmit, CanIssue, Op
  <2>2. CASE session.active /\ session' = [session EXCEPT !.ops = Append(@, op)]
             /\ UNCHANGED <<pc, call, nonceVars>>
    <3>1. Append(session.ops, op) \in Seq(Op)
      BY <2>1 DEF Session
    <3>2. session' \in Session
      BY <2>2, <3>1 DEF Session
    <3> QED
      BY <1>3, <2>2, <3>2 DEF OperationCommand, AddOrSubmit, NodeTypeOK
  <2>3. CASE ~session.active /\ SubmitTransaction(<<op>>, FALSE) /\ UNCHANGED session
    <3>1. client \in Endpoints /\ <<op>> \in Seq(Op)
      BY <1>3, <2>1, <2>3 DEF OperationCommand, AddOrSubmit, CanIssue
    <3>2. /\ pc' \in RpcCalls /\ call' \in Call /\ call'.signer = key
          /\ nonceMap' \in [Wallets -> CacheEntry]
          /\ source' \in [Wallets -> Endpoints \cup {NoClient}] /\ astray' \in [Wallets -> SUBSET Causes]
      BY <1>2, <2>1, <2>3, <3>1
    <3> QED
      BY <1>3, <2>1, <2>3, <3>1, <3>2 DEF OperationCommand, AddOrSubmit, NodeTypeOK
  <2> QED
    BY <1>3, <2>2, <2>3 DEF OperationCommand, AddOrSubmit
<1>4. CASE SubmitSessionOnline
  <2>1. key \in Wallets /\ client \in Endpoints /\ session.ops \in Seq(Op)
    BY <1>4 DEF SubmitSessionOnline, Session
  <2>2. /\ pc' \in RpcCalls /\ call' \in Call /\ call'.signer = key
        /\ nonceMap' \in [Wallets -> CacheEntry]
        /\ source' \in [Wallets -> Endpoints \cup {NoClient}] /\ astray' \in [Wallets -> SUBSET Causes]
    BY <1>2, <1>4, <2>1 DEF SubmitSessionOnline
  <2> QED
    BY <1>4, <2>1, <2>2 DEF SubmitSessionOnline, NodeTypeOK
<1> QED
  BY <1>1, <1>3, <1>4

\* The history keeps its type.
LEMMA AstrayStep ==
  ASSUME TypeOK, NEW w \in Wallets, NEW cause \in Causes, NEW e,
         GoesAstray(w, cause) \/ Together(w) \/ MovedPastCache(e, w, cause)
  PROVE  astray' \in [Wallets -> SUBSET Causes]
BY DEF TypeOK, GoesAstray, Together, MovedPastCache

\* Transactions signed offline are complete, and handing one to a network
\* leaves the types alone.
LEMMA OfflineStep ==
  ASSUME CallOK, SubmitSessionOffline \/ \E t \in signed : RawSubmit(t)
  PROVE  CallOK'
<1> USE DEF CallOK, TypeOK, OnlineWhileCalling, AtPrompt, settings, nonceVars, outVars, nodeVars
<1>1. CASE SubmitSessionOffline
  <2> DEFINE t == [signer |-> key, ops |-> session.ops, nonce |-> nonceMode,
                   rc |-> rcLimit.value, chain |-> chainID, payer |-> PayerAddress]
  <2>1. key \in Wallets /\ PayerAddress \in Payers \cup Wallets
    BY <1>1 DEF SubmitSessionOffline, PayerAddress
  <2>2. nonceMode \in Nat /\ chainID \in Endpoints /\ session.ops \in Seq(Op)
    BY <1>1 DEF SubmitSessionOffline, SignsOffline, Session
  <2>3. t \in SignedTx
    BY <2>1, <2>2 DEF SignedTx
  <2>4. NoSession \in Session
    BY DEF NoSession, Session
  <2>5. signed' = signed \cup {t}
    BY <1>1 DEF SubmitSessionOffline
  <2> HIDE DEF t
  <2>6. signed' \subseteq SignedTx
    BY <2>3, <2>5
  <2> QED
    BY <1>1, <2>4, <2>6 DEF SubmitSessionOffline, NodeTypeOK
<1>2. ASSUME NEW t \in signed, RawSubmit(t) PROVE CallOK'
  <2>1. t \in SignedTx /\ t.signer \in Wallets /\ t.nonce \in Nat /\ t.ops \in Seq(Op)
    BY DEF SignedTx
  <2>2. client \in Endpoints /\ NodeTypeOK'
    BY <1>2, <2>1, NodeTypeStep DEF RawSubmit
  <2>3. delivered' \in Seq([ops : Seq(Op), confirmed : BOOLEAN])
    BY <1>2, <2>1 DEF RawSubmit
  <2>4. astray' \in [Wallets -> SUBSET Causes]
    BY <1>2, <2>1, AstrayStep DEF RawSubmit, Causes
  <2> QED
    BY <1>2, <2>2, <2>3, <2>4 DEF RawSubmit
<1> QED
  BY <1>1, <1>2

\* Storing a fetched nonce, for either purpose.
LEMMA NonceFetchedStep ==
  ASSUME CallOK, pc # "prompt", NEW n \in Nat, NonceFetched(n)
  PROVE  /\ nonceMap' \in [Wallets -> CacheEntry]
         /\ \/ pc' = "prompt" /\ call' = NoCall
            \/ pc' \in RpcCalls /\ call' \in Call /\ call'.signer = call.signer
<1> USE DEF CallOK, TypeOK, OnlineWhileCalling
<1>1. call \in Call /\ call.signer \in Wallets /\ n + 1 \in Nat
  BY DEF Call
<1>2. \A m \in Nat : [nonce |-> m, time |-> "fresh"] \in CacheEntry
  BY DEF CacheEntry
<1>3. [call EXCEPT !.nonce = n + 1] \in Call
      /\ [call EXCEPT !.nonce = n + 1].signer = call.signer
  BY <1>1 DEF Call
<1> QED
  BY <1>1, <1>2, <1>3, AfterNonceType DEF NonceFetched, ReturnToPrompt

LEMMA FirstMissingType == \A nonce, rc : FirstMissing(nonce, rc) \in RpcCalls
BY DEF FirstMissing, RpcCalls

\* Forgetting a nonce keeps the cache well-typed.
LEMMA ResetNonceStep ==
  ASSUME CallOK, pc # "prompt", ResetNonce
  PROVE  nonceMap' \in [Wallets -> CacheEntry]
BY DEF CallOK, TypeOK, OnlineWhileCalling, ResetNonce, NoEntry, CacheEntry

\* An answer on the way to the submission.
LEMMA ParameterStep ==
  ASSUME CallOK,
         \/ PendingNonceAnswer \/ AccountNonceAnswer \/ ChainNonceAnswer \/ ChainIdAnswer
         \/ \E rc \in RcValues : AccountRcAnswer(rc) \/ WholeRcAnswer(rc)
  PROVE  CallOK'
<1> USE DEF CallOK, TypeOK, OnlineWhileCalling, settings, nonceVars, nodeVars, RpcLeaves, NodeTypeOK
<1>1. pc \in RpcCalls /\ client \in Endpoints /\ call \in Call /\ call.signer \in Wallets
      /\ call.signer = key
  BY DEF PendingNonceAnswer, AccountNonceAnswer, ChainNonceAnswer, ChainIdAnswer,
         AccountRcAnswer, WholeRcAnswer
<1>2. pendingNonce[client][call.signer] \in Nat /\ accountNonce[client][call.signer] \in Nat
  BY <1>1
<1>3. CASE PendingNonceAnswer
  <2>1. source' \in [Wallets -> Endpoints \cup {NoClient}] /\ astray' \in [Wallets -> SUBSET Causes]
    BY <1>1, <1>3, AstrayStep DEF PendingNonceAnswer, Causes
  <2>2. CASE NonceFetched(pendingNonce[client][call.signer])
    BY <1>1, <1>2, <1>3, <2>1, <2>2, NonceFetchedStep DEF PendingNonceAnswer, RpcCalls
  <2>3. CASE pc' = "accountNonce" /\ UNCHANGED <<call, nonceMap>>
    BY <1>1, <1>3, <2>1, <2>3 DEF PendingNonceAnswer, RpcCalls
  <2> QED
    BY <1>3, <2>2, <2>3 DEF PendingNonceAnswer
<1>4. CASE AccountNonceAnswer
  BY <1>1, <1>2, <1>4, NonceFetchedStep DEF AccountNonceAnswer
<1>5. CASE ChainNonceAnswer
  <2> DEFINE next == accountNonce[client][call.signer] + 1
  <2>1. call' = [call EXCEPT !.nonce = next] /\ pc' = FirstMissing(next, call.rc)
    BY <1>5 DEF ChainNonceAnswer
  <2>2. next \in Nat
    BY <1>2
  <2> HIDE DEF next
  <2>3. [call EXCEPT !.nonce = next] \in Call /\ [call EXCEPT !.nonce = next].signer = key
    BY <1>1, <2>2 DEF Call
  <2> QED
    <3>1. pc' \in RpcCalls /\ call' \in Call /\ call'.signer = key
      BY <2>1, <2>3, FirstMissingType
    <3>2. RpcLeaves /\ UNCHANGED <<session, nonceVars, delivered, nodeVars>>
      BY <1>5 DEF ChainNonceAnswer
    <3> QED
      BY <1>1, <3>1, <3>2
<1>6. CASE ChainIdAnswer
  <2>1. [call EXCEPT !.chain = client] \in Call /\ [call EXCEPT !.chain = client].signer = key
    BY <1>1 DEF Call
  <2> QED
    BY <1>1, <1>6, <2>1 DEF ChainIdAnswer, RpcCalls
<1>7. ASSUME NEW rc \in Nat
      PROVE  [call EXCEPT !.rc = rc] \in Call /\ [call EXCEPT !.rc = rc].signer = key
  BY <1>1 DEF Call
<1>8. ASSUME NEW rc \in RcValues, AccountRcAnswer(rc) PROVE CallOK'
  <2>1. RelativeLimit(rc) \in Nat
    BY RelativeLimitType
  <2> QED
    BY <1>1, <1>7, <1>8, <2>1, FirstMissingType DEF AccountRcAnswer
<1>9. ASSUME NEW rc \in RcValues, WholeRcAnswer(rc) PROVE CallOK'
  <2>1. rc \in Nat
    BY EnvConstants
  <2> QED
    BY <1>1, <1>7, <1>9, <2>1 DEF WholeRcAnswer, RpcCalls
<1> QED
  BY <1>3, <1>4, <1>5, <1>6, <1>8, <1>9

\* The submission ends, one way or another.
LEMMA OutcomeStep ==
  ASSUME CallOK,
         SubmitConfirmed \/ SubmitReplyLost \/ SubmitRefused
           \/ ParametersFail \/ SubmissionFails \/ RcHintReturns
  PROVE  CallOK'
<1> USE DEF CallOK, TypeOK, OnlineWhileCalling, settings, nonceVars, nodeVars, RpcLeaves,
            ReturnToPrompt
<1>1. pc # "prompt" /\ pc \in RpcCalls /\ client \in Endpoints /\ call \in Call
      /\ call.signer \in Wallets /\ call.signer = key
      /\ call.nonce \in Nat /\ call.ops \in Seq(Op)
  BY DEF SubmitConfirmed, SubmitReplyLost, SubmitRefused, ParametersFail, SubmissionFails,
         RcHintReturns, Call
<1>2. ASSUME NEW confirmed \in BOOLEAN,
             delivered' = Append(delivered, [ops |-> call.ops, confirmed |-> confirmed])
      PROVE  delivered' \in Seq([ops : Seq(Op), confirmed : BOOLEAN])
  BY <1>1, <1>2
<1>3. CASE SubmitConfirmed
  <2>1. NodeTypeOK'
    BY <1>1, <1>3, NodeTypeStep DEF SubmitConfirmed
  <2>2. session' \in Session
    BY <1>3 DEF SubmitConfirmed, SessionAfterReceipt, NoSession, Session
  <2>3. source' \in [Wallets -> Endpoints \cup {NoClient}] /\ astray' \in [Wallets -> SUBSET Causes]
    <3>1. \/ source' = [source EXCEPT ![call.signer] = client] /\ Together(call.signer)
          \/ source' = source /\ MovedPastCache(client, call.signer, "bypassed")
      BY <1>3 DEF SubmitConfirmed, CacheKnows
    <3>2. "bypassed" \in Causes
      BY DEF Causes
    <3>3. astray' \in [Wallets -> SUBSET Causes]
      BY <1>1, <3>1, <3>2, AstrayStep
    <3> QED
      BY <1>1, <3>1, <3>3
  <2>4. delivered' \in Seq([ops : Seq(Op), confirmed : BOOLEAN])
    BY <1>2, <1>3 DEF SubmitConfirmed
  <2> QED
    BY <1>1, <1>3, <2>1, <2>2, <2>3, <2>4 DEF SubmitConfirmed
<1>4. CASE SubmitReplyLost
  <2>1. NodeTypeOK'
    BY <1>1, <1>4, NodeTypeStep DEF SubmitReplyLost
  <2>2. delivered' \in Seq([ops : Seq(Op), confirmed : BOOLEAN])
    BY <1>2, <1>4 DEF SubmitReplyLost
  <2> QED
    BY <1>1, <1>4, <2>1, <2>2, ResetNonceStep DEF SubmitReplyLost
<1>5. CASE SubmitRefused
  BY <1>1, <1>5, ResetNonceStep DEF SubmitRefused, RpcCalls, NodeTypeOK
<1>6. CASE ParametersFail
  <2>1. "unused" \in Causes /\ (GoesAstray(call.signer, "unused") \/ UNCHANGED astray)
    BY <1>6 DEF ParametersFail, Causes
  <2>2. astray' \in [Wallets -> SUBSET Causes]
    BY <1>1, <2>1, AstrayStep
  <2> QED
    BY <1>1, <1>6, <2>2 DEF ParametersFail, NodeTypeOK
<1>7. CASE SubmissionFails
  BY <1>1, <1>7, ResetNonceStep DEF SubmissionFails, NodeTypeOK
<1>8. CASE RcHintReturns
  BY <1>1, <1>8 DEF RcHintReturns, NodeTypeOK
<1> QED
  BY <1>3, <1>4, <1>5, <1>6, <1>7, <1>8

\* The rest of the world, whatever the CLI is doing.
LEMMA EnvironmentStep ==
  ASSUME CallOK, Environment
  PROVE  CallOK'
<1> USE DEF CallOK, TypeOK, OnlineWhileCalling, settings, nonceVars, outVars, nodeVars
<1>1. ASSUME NEW e \in Endpoints, NEW w \in Wallets, OtherClientSubmits(e, w) PROVE CallOK'
  <2>1. LatestNonce(e, w) + 1 \in Nat
    BY DEF LatestNonce, NodeTypeOK
  <2>2. NodeTypeOK'
    BY <1>1, <2>1, NodeTypeStep DEF OtherClientSubmits
  <2>3. astray' \in [Wallets -> SUBSET Causes]
    BY <1>1, AstrayStep DEF OtherClientSubmits, Causes
  <2> QED
    BY <1>1, <2>2, <2>3 DEF OtherClientSubmits
<1>2. ASSUME NEW e \in Endpoints, NEW w \in Wallets, BlockProduced(e, w) PROVE CallOK'
  <2>1. NodeTypeOK'
    BY <1>2, NodeTypeStep DEF BlockProduced
  <2> QED
    BY <1>2, <2>1 DEF BlockProduced
<1>3. ASSUME NEW w \in Wallets, NonceExpires(w) PROVE CallOK'
  <2>1. nonceMap' \in [Wallets -> CacheEntry]
    BY <1>3 DEF NonceExpires, CacheEntry
  <2> QED
    BY <1>3, <2>1 DEF NonceExpires, NodeTypeOK
<1>4. CASE Restart
  <2>1. NoSession \in Session /\ NoEntry \in CacheEntry
    BY DEF NoSession, Session, NoEntry, CacheEntry
  <2> QED
    BY <1>4, <2>1, EnvConstants DEF Restart, ReturnToPrompt, NodeTypeOK
<1> QED
  BY <1>1, <1>2, <1>3, <1>4 DEF Environment

LEMMA CallOKStep ==
  ASSUME CallOK, [Next]_vars
  PROVE  CallOK'
<1>1. CASE UserCommand
  BY <1>1, SettingsStep, CommandStep, OfflineStep DEF UserCommand
<1>2. CASE RpcReturns
  BY <1>2, ParameterStep, OutcomeStep DEF RpcReturns
<1>3. CASE Environment
  BY <1>3, EnvironmentStep
<1>4. CASE UNCHANGED vars
  BY <1>4 DEF vars, settings, nonceVars, outVars, nodeVars, CallOK, TypeOK,
              OnlineWhileCalling, NodeTypeOK
<1> QED
  BY <1>1, <1>2, <1>3, <1>4 DEF Next

\* The variables of the execution environment keep their types: in particular a
\* transaction signed offline always has a nonce and a chain id of its own.
THEOREM TypesHold == Spec => []TypeOK
<1>1. Init => CallOK
  BY CallOKInit
<1>2. CallOK /\ [Next]_vars => CallOK'
  BY CallOKStep
<1>3. CallOK => TypeOK
  BY DEF CallOK
<1> QED
  BY <1>1, <1>2, <1>3, PTL DEF Spec

\* No command reaches an RPC without a client, or signs with a wallet other than
\* the one whose nonce it took: the checks at the top of the commands suffice.
THEOREM CallsAreOnline == Spec => []OnlineWhileCalling
<1>1. Init => CallOK
  BY CallOKInit
<1>2. CallOK /\ [Next]_vars => CallOK'
  BY CallOKStep
<1>3. CallOK => OnlineWhileCalling
  BY DEF CallOK
<1> QED
  BY <1>1, <1>2, <1>3, PTL DEF Spec

-------------------------------------------------------------------------------
\* The nonce cache.  CacheExact is not inductive: it says nothing of a command
\* between two RPCs, which carries the nonce (TakenExact), relies on what the
\* first query found (EmptyMempool), and never lacks a nonce of its own.

\* A cache entry in use comes from an endpoint.
SourceKnown == \A w \in Wallets : nonceMap[w].time = "fresh" => source[w] \in Endpoints

\* The nonce taken is the cached one and, but for what has gone astray, the next one.
TakenExact ==
  Taken(call.signer) =>
    /\ call.nonce # 0 /\ nonceMap[call.signer].nonce = call.nonce
    /\ source[call.signer] = client =>
         Explained(call.signer, call.nonce, LatestNonce(client, call.signer) + 1)

\* Between the two nonce queries nothing is pending, unless the account moved.
EmptyMempool ==
  pc = "accountNonce" =>
    /\ source[call.signer] = client
    /\ astray[call.signer] \subseteq {"unused"} => pendingNonce[client][call.signer] = 0

\* What is pending comes after what is in a block: a nonce read is never too high.
MempoolAhead ==
  \A e \in Endpoints, w \in Wallets : pendingNonce[e][w] # 0 => accountNonce[e][w] < pendingNonce[e][w]

\* Nonces are queried only under `nonce auto', chain nonces only otherwise.
ModeOfQuery == /\ pc \in {"pendingNonce", "accountNonce"} => nonceMode = AutoMode
               /\ pc = "chainNonce" => nonceMode # AutoMode

\* The network is asked only when the cached nonce is not in use.
QueryWhenOld ==
  pc \in {"pendingNonce", "accountNonce"} => nonceMap[call.signer].time # "fresh"

NonceInv == /\ CacheExact /\ SourceKnown /\ TakenExact
            /\ EmptyMempool /\ MempoolAhead /\ ModeOfQuery /\ QueryWhenOld

LEMMA LatestNonceType ==
  ASSUME NodeTypeOK, NEW e \in Endpoints, NEW w \in Wallets
  PROVE  LatestNonce(e, w) \in Nat
BY DEF NodeTypeOK, LatestNonce

\* A transaction moves the nonce of its own account at its own network only.
LEMMA LatestAfterSubmit ==
  ASSUME NodeTypeOK, NEW e \in Endpoints, NEW w \in Wallets, NEW n \in Nat \ {0},
         AddToMempool(e, w, n)
  PROVE  \A f \in Endpoints, v \in Wallets :
           LatestNonce(f, v)' = IF f = e /\ v = w THEN n ELSE LatestNonce(f, v)
<1> TAKE f \in Endpoints, v \in Wallets
<1>1. pendingNonce'[f][v] = IF f = e /\ v = w THEN n ELSE pendingNonce[f][v]
  BY DEF NodeTypeOK, AddToMempool
<1>2. accountNonce'[f][v] = accountNonce[f][v]
  BY DEF AddToMempool
<1> QED
  BY <1>1, <1>2 DEF LatestNonce

\* A block moves no nonce, it only empties the mempool.
LEMMA LatestAfterBlock ==
  ASSUME NodeTypeOK, NEW e \in Endpoints, NEW w \in Wallets, ProduceBlock(e, w)
  PROVE  \A f \in Endpoints, v \in Wallets :
           /\ LatestNonce(f, v)' = LatestNonce(f, v)
           /\ pendingNonce[f][v] = 0 => pendingNonce'[f][v] = 0
<1> TAKE f \in Endpoints, v \in Wallets
<1>1. pendingNonce'[f][v] = IF f = e /\ v = w THEN 0 ELSE pendingNonce[f][v]
  BY DEF NodeTypeOK, ProduceBlock
<1>2. accountNonce'[f][v] = IF f = e /\ v = w THEN pendingNonce[e][w] ELSE accountNonce[f][v]
  BY DEF NodeTypeOK, ProduceBlock
<1>3. pendingNonce[e][w] # 0
  BY DEF ProduceBlock
<1> QED
  BY <1>1, <1>2, <1>3 DEF LatestNonce

\* The network's next transaction, a block, or neither keep the mempool ahead.
LEMMA AheadStep ==
  ASSUME NodeTypeOK, MempoolAhead,
         \/ UNCHANGED nodeVars
         \/ \E e \in Endpoints, w \in Wallets :
              AddToMempool(e, w, LatestNonce(e, w) + 1) \/ ProduceBlock(e, w)
  PROVE  MempoolAhead'
<1>1. CASE UNCHANGED nodeVars
  BY <1>1 DEF MempoolAhead, nodeVars
<1>2. ASSUME NEW e \in Endpoints, NEW w \in Wallets, AddToMempool(e, w, LatestNonce(e, w) + 1)
      PROVE  MempoolAhead'
  BY <1>2 DEF MempoolAhead, AddToMempool, LatestNonce, NodeTypeOK
<1>3. ASSUME NEW e \in Endpoints, NEW w \in Wallets, ProduceBlock(e, w)
      PROVE  MempoolAhead'
  BY <1>3 DEF MempoolAhead, ProduceBlock, NodeTypeOK
<1> QED
  BY <1>1, <1>2, <1>3

LEMMA NonceInvInit == Init => NonceInv
BY DEF Init, NonceInv, CacheExact, SourceKnown, TakenExact, EmptyMempool, MempoolAhead,
       ModeOfQuery, QueryWhenOld, Taken, NoEntry, NodeInit

\* Everything NonceInv speaks about.
nonceView == <<client, nonceMode, nonceMap, pc, call, source, astray, nodeVars>>

LEMMA NonceViewUnchanged ==
  ASSUME NonceInv, UNCHANGED nonceView
  PROVE  NonceInv'
BY DEF nonceView, nodeVars, NonceInv, CacheExact, Explained, SourceKnown, TakenExact, EmptyMempool,
       MempoolAhead, ModeOfQuery, QueryWhenOld, Taken, LatestNonce

\* A command that stays at the prompt may change any setting and the client.
LEMMA NonceAtPrompt ==
  ASSUME NonceInv, pc = "prompt", pc' = "prompt", UNCHANGED <<nonceVars, nodeVars>>
  PROVE  NonceInv'
BY DEF nonceVars, nodeVars, NonceInv, CacheExact, Explained, SourceKnown, TakenExact, EmptyMempool,
       MempoolAhead, ModeOfQuery, QueryWhenOld, Taken, LatestNonce

\* A command that takes a nonce from the setting or the cache, or asks for it.
LEMMA NonceTaken ==
  ASSUME CallOK, NonceInv, pc = "prompt", key \in Wallets, client \in Endpoints,
         NEW c \in Call, c.signer = key,
         UseFixedNonce(c) \/ UseCachedNonce(c) \/ FetchNonce(c),
         UNCHANGED <<client, nonceMode, nodeVars>>
  PROVE  NonceInv'
<1> USE DEF nonceVars, nodeVars, NonceInv, CacheExact, Explained, SourceKnown, TakenExact, EmptyMempool,
            MempoolAhead, ModeOfQuery, QueryWhenOld, Taken, LatestNonce
<1>1. CASE UseFixedNonce(c)
  <2>1. pc' \notin {"prompt", "pendingNonce", "accountNonce"}
    BY <1>1 DEF UseFixedNonce, AfterNonce, FirstMissing
  <2> QED
    BY <1>1, <2>1 DEF UseFixedNonce
<1>2. CASE UseCachedNonce(c)
  <2> DEFINE next == nonceMap[key].nonce + 1
  <2>1. nonceMap[key].nonce \in Nat /\ next # 0
    BY DEF CallOK, TypeOK, CacheEntry
  <2>2. pc' \in {"accountRc", "wholeRc", "chainId"}
    BY <1>2, <2>1 DEF UseCachedNonce, AfterNonce, FirstMissing
  <2>3. call'.signer = key /\ call'.nonce = next
    BY <1>2 DEF UseCachedNonce, Call
  <2>4. \A w \in Wallets : /\ nonceMap'[w].nonce = IF w = key THEN next ELSE nonceMap[w].nonce
                           /\ nonceMap'[w].time = nonceMap[w].time
    BY <1>2 DEF UseCachedNonce, CallOK, TypeOK, CacheEntry
  <2>5. \A e, w : LatestNonce(e, w)' = LatestNonce(e, w)
    OBVIOUS
  <2> HIDE DEF LatestNonce, next
  <2>6. Explained(key, next, LatestNonce(source[key], key) + 1)
    <3>1. source[key] \in Endpoints /\ LatestNonce(source[key], key) \in Nat
      BY <1>2, LatestNonceType DEF UseCachedNonce, CallOK, TypeOK
    <3>2. Explained(key, nonceMap[key].nonce, LatestNonce(source[key], key) + 0)
      BY <1>2 DEF UseCachedNonce
    <3> QED
      BY <2>1, <3>1, <3>2 DEF next
  <2>7. CacheExact' /\ SourceKnown' /\ TakenExact'
    BY <1>2, <2>1, <2>2, <2>3, <2>4, <2>5, <2>6 DEF UseCachedNonce
  <2>8. EmptyMempool' /\ MempoolAhead' /\ ModeOfQuery' /\ QueryWhenOld'
    BY <1>2, <2>2 DEF UseCachedNonce
  <2> QED
    BY <2>7, <2>8
<1>3. CASE FetchNonce(c)
  BY <1>3 DEF FetchNonce
<1> QED
  BY <1>1, <1>2, <1>3

\* The cause noted for an account that moved past its cache lifts the lower bound
\* on its cached nonce, and no more.
LEMMA HistoryMoved ==
  ASSUME TypeOK, NEW e, NEW w \in Wallets, NEW cause \in {"foreign", "bypassed"},
         MovedPastCache(e, w, cause), NEW v \in Wallets
  PROVE  /\ "unused" \in astray'[v] <=> "unused" \in astray[v]
         /\ astray'[v] \subseteq {"unused"} <=>
              astray[v] \subseteq {"unused"} /\ ~(v = w /\ source[w] = e)
<1>1. CASE v = w /\ source[w] = e
  <2>1. astray'[v] = astray[v] \cup {cause}
    BY <1>1 DEF MovedPastCache, GoesAstray, TypeOK
  <2>2. cause \in astray'[v] /\ cause \notin {"unused"}
    BY <2>1
  <2> QED
    BY <1>1, <2>1, <2>2
<1>2. CASE ~(v = w /\ source[w] = e)
  <2>1. astray'[v] = astray[v]
    BY <1>2 DEF MovedPastCache, GoesAstray, TypeOK
  <2> QED
    BY <1>2, <2>1
<1> QED
  BY <1>1, <1>2

\* The next transaction of account w went to network e past the cache.  If the cache
\* was about that account there, it is behind now, and a cause is noted.
LEMMA NonceMoved ==
  ASSUME CallOK, NonceInv, NEW e \in Endpoints, NEW w \in Wallets,
         AddToMempool(e, w, LatestNonce(e, w) + 1),
         NEW cause \in {"foreign", "bypassed"}, MovedPastCache(e, w, cause),
         UNCHANGED <<client, nonceMode, nonceMap, pc, call, source>>
  PROVE  NonceInv'
<1>1. \A f \in Endpoints, v \in Wallets :
        /\ LatestNonce(f, v) \in Nat
        /\ LatestNonce(f, v)' = LatestNonce(f, v) + (IF f = e /\ v = w THEN 1 ELSE 0)
  BY LatestNonceType, LatestAfterSubmit DEF CallOK, TypeOK
<1>2. \A f \in Endpoints, v \in Wallets : ~(f = e /\ v = w) => pendingNonce'[f][v] = pendingNonce[f][v]
  BY DEF AddToMempool, CallOK, TypeOK, NodeTypeOK
<1>3. pc # "prompt" => client \in Endpoints /\ call.signer \in Wallets /\ call.nonce \in Nat
  BY DEF CallOK, OnlineWhileCalling, TypeOK, Call
<1>4. \A v \in Wallets :
        /\ "unused" \in astray'[v] <=> "unused" \in astray[v]
        /\ astray'[v] \subseteq {"unused"} <=>
             astray[v] \subseteq {"unused"} /\ ~(v = w /\ source[w] = e)
  BY HistoryMoved DEF CallOK
<1>5. \A v \in Wallets : nonceMap[v].nonce \in Nat
  BY DEF CallOK, TypeOK, CacheEntry
<1> USE DEF NonceInv
<1>6. CacheExact' /\ SourceKnown'
  <2>1. ASSUME NEW v \in Wallets, nonceMap[v].time = "fresh"
        PROVE  Explained(v, nonceMap[v].nonce, LatestNonce(source[v], v) + (IF Taken(v) THEN 1 ELSE 0))'
    <3>1. source[v] \in Endpoints
          /\ Explained(v, nonceMap[v].nonce, LatestNonce(source[v], v) + (IF Taken(v) THEN 1 ELSE 0))
      BY <2>1 DEF CacheExact, SourceKnown
    <3>2. Taken(v)' <=> Taken(v)
      BY DEF Taken
    <3>3. LatestNonce(source[v], v)' = LatestNonce(source[v], v) + (IF source[v] = e /\ v = w THEN 1 ELSE 0)
      BY <1>1, <3>1
    <3>4. LatestNonce(source[v], v) \in Nat
      BY <1>1, <3>1
    <3>5. /\ "unused" \notin astray'[v] =>
                nonceMap[v].nonce <= LatestNonce(source[v], v)' + (IF Taken(v) THEN 1 ELSE 0)
          /\ astray'[v] \subseteq {"unused"} =>
                nonceMap[v].nonce >= LatestNonce(source[v], v)' + (IF Taken(v) THEN 1 ELSE 0)
      <4> HIDE DEF Taken, LatestNonce
      <4> QED
        BY <1>4, <1>5, <3>1, <3>3, <3>4 DEF Explained
    <3> QED
      BY <3>2, <3>5 DEF Explained
  <2> QED
    BY <2>1 DEF CacheExact, SourceKnown
<1>7. TakenExact'
  <2> SUFFICES ASSUME Taken(call.signer)
               PROVE  /\ call.nonce # 0 /\ nonceMap[call.signer].nonce = call.nonce
                      /\ source[call.signer] = client =>
                           Explained(call.signer, call.nonce, LatestNonce(client, call.signer) + 1)'
    BY DEF TakenExact, Taken
  <2>1. client \in Endpoints /\ call.signer \in Wallets /\ call.nonce \in Nat
    BY <1>3 DEF Taken
  <2>2. LatestNonce(client, call.signer) \in Nat
        /\ LatestNonce(client, call.signer)' =
             LatestNonce(client, call.signer) + (IF client = e /\ call.signer = w THEN 1 ELSE 0)
    BY <1>1, <2>1
  <2>3. call.nonce # 0 /\ nonceMap[call.signer].nonce = call.nonce
    BY DEF TakenExact
  <2>4. ASSUME source[call.signer] = client
        PROVE  /\ "unused" \notin astray'[call.signer] =>
                    call.nonce <= LatestNonce(client, call.signer)' + 1
               /\ astray'[call.signer] \subseteq {"unused"} =>
                    call.nonce >= LatestNonce(client, call.signer)' + 1
    BY <1>4, <2>1, <2>2, <2>4 DEF TakenExact, Explained
  <2> QED
    BY <2>3, <2>4 DEF Explained
<1>8. EmptyMempool' /\ ModeOfQuery' /\ QueryWhenOld'
  BY <1>2, <1>3, <1>4 DEF EmptyMempool, ModeOfQuery, QueryWhenOld
<1>9. MempoolAhead'
  BY AheadStep DEF CallOK, TypeOK
<1> QED
  BY <1>6, <1>7, <1>8, <1>9

LEMMA NonceUserCommand ==
  ASSUME CallOK, NonceInv, UserCommand
  PROVE  NonceInv'
<1>1. ASSUME NEW purpose \in {"view", "submit"}, NEW ops \in Seq(Op), NEW fromSession \in BOOLEAN,
             key \in Wallets, client \in Endpoints, pc = "prompt",
             \/ UseFixedNonce(NewCall(purpose, ops, fromSession))
             \/ UseCachedNonce(NewCall(purpose, ops, fromSession))
             \/ FetchNonce(NewCall(purpose, ops, fromSession)),
             UNCHANGED <<client, settings, nodeVars>>
      PROVE  NonceInv'
  <2> DEFINE c == NewCall(purpose, ops, fromSession)
  <2>1. c \in Call /\ c.signer = key
    BY <1>1, NewCallType DEF CallOK
  <2>2. UseFixedNonce(c) \/ UseCachedNonce(c) \/ FetchNonce(c)
    BY <1>1
  <2> HIDE DEF c
  <2> QED
    BY <1>1, <2>1, <2>2, NonceTaken DEF settings
<1>2. CASE ShowNonce
  <2>1. key \in Wallets /\ client \in Endpoints
    BY <1>2 DEF ShowNonce, CallOK, TypeOK
  <2>2. <<>> \in Seq(Op) /\ FALSE \in BOOLEAN /\ "view" \in {"view", "submit"}
    OBVIOUS
  <2> QED
    BY <1>1, <1>2, <2>1, <2>2 DEF ShowNonce, AtPrompt
<1>3. CASE OperationCommand
  <2> DEFINE op == [id |-> issued, author |-> key]
  <2>1. key \in Wallets /\ op \in Op
    BY <1>3 DEF OperationCommand, AddOrSubmit, CanIssue, Op, CallOK, TypeOK
  <2>2. CASE session.active /\ UNCHANGED <<pc, call, nonceVars>>
    BY <1>3, <2>2, NonceAtPrompt DEF OperationCommand, AddOrSubmit, AtPrompt
  <2>3. CASE ~session.active /\ SubmitTransaction(<<op>>, FALSE)
    <3>1. client \in Endpoints /\ <<op>> \in Seq(Op) /\ FALSE \in BOOLEAN
          /\ "submit" \in {"view", "submit"}
      BY <1>3, <2>1, <2>3 DEF OperationCommand, AddOrSubmit, CanIssue, CallOK, TypeOK
    <3> QED
      BY <1>1, <1>3, <2>1, <2>3, <3>1 DEF OperationCommand, AddOrSubmit, SubmitTransaction, AtPrompt
  <2> QED
    BY <1>3, <2>2, <2>3 DEF OperationCommand, AddOrSubmit
<1>4. CASE SubmitSessionOnline
  <2>1. key \in Wallets /\ client \in Endpoints /\ session.ops \in Seq(Op)
        /\ TRUE \in BOOLEAN /\ "submit" \in {"view", "submit"}
    BY <1>4 DEF SubmitSessionOnline, Session, CallOK, TypeOK
  <2> QED
    BY <1>1, <1>4, <2>1 DEF SubmitSessionOnline, SubmitTransaction, AtPrompt
<1>5. ASSUME NEW t \in signed, RawSubmit(t) PROVE NonceInv'
  <2>1. t.signer \in Wallets /\ t.nonce \in Nat /\ client \in Endpoints
    BY <1>5 DEF RawSubmit, CallOK, TypeOK, SignedTx
  <2>2. AddToMempool(client, t.signer, LatestNonce(client, t.signer) + 1)
    BY <1>5 DEF RawSubmit, Accepts
  <2>3. MovedPastCache(client, t.signer, "bypassed")
    BY <1>5 DEF RawSubmit
  <2>4. UNCHANGED <<client, nonceMode, nonceMap, pc, call, source>>
    BY <1>5 DEF RawSubmit, settings
  <2> QED
    BY <2>1, <2>2, <2>3, <2>4, NonceMoved
<1>6. CASE \/ \E w \in Wallets : OpenWallet(w)
           \/ CloseWallet
           \/ \E e \in Endpoints : Connect(e)
           \/ Disconnect
           \/ \E n \in FixedNonces \cup {AutoMode} : SetNonce(n)
           \/ \E value \in Limits, absolute \in BOOLEAN : SetRcLimit(value, absolute)
           \/ \E p \in Payers \cup {Me} : SetPayer(p)
           \/ \E c \in Endpoints \cup {AutoMode} : SetChainID(c)
           \/ BeginSession \/ CancelSession \/ SubmitEmptySession \/ SubmitSessionOffline
  <2>1. pc = "prompt" /\ pc' = "prompt" /\ UNCHANGED <<nonceVars, nodeVars>>
    BY <1>6 DEF AtPrompt, OpenWallet, CloseWallet, Connect, Disconnect, SetNonce, SetRcLimit,
                SetPayer, SetChainID, BeginSession, CancelSession, SubmitEmptySession,
                SubmitSessionOffline
  <2> QED
    BY <2>1, NonceAtPrompt
<1> QED
  BY <1>2, <1>3, <1>4, <1>5, <1>6 DEF UserCommand

\* The nonce fetched is the account's last one, but for what has gone astray meanwhile.
LEMMA NonceStored ==
  ASSUME CallOK, NonceInv, pc \in {"pendingNonce", "accountNonce"},
         NEW n \in Nat, NonceFetched(n),
         "unused" \notin astray'[call.signer] => n <= LatestNonce(client, call.signer),
         astray'[call.signer] \subseteq {"unused"} => n >= LatestNonce(client, call.signer),
         source'[call.signer] = client,
         \A v \in Wallets \ {call.signer} : source'[v] = source[v] /\ astray'[v] = astray[v],
         UNCHANGED <<client, nonceMode, nodeVars>>
  PROVE  NonceInv'
<1>1. client \in Endpoints /\ call.signer \in Wallets /\ call \in Call /\ nonceMode = AutoMode
  BY DEF CallOK, OnlineWhileCalling, TypeOK, Call, NonceInv, ModeOfQuery
<1>2. \A e, w : LatestNonce(e, w)' = LatestNonce(e, w)
  BY DEF LatestNonce, nodeVars
<1>3. LatestNonce(client, call.signer) \in Nat
  BY <1>1, LatestNonceType DEF CallOK, TypeOK
<1>4. MempoolAhead'
  BY AheadStep DEF NonceInv, CallOK, TypeOK
<1>5. CASE call.purpose = "submit"
  <2>1. call'.signer = call.signer /\ call'.nonce = n + 1
        /\ nonceMap' = [nonceMap EXCEPT ![call.signer] = [nonce |-> n + 1, time |-> "fresh"]]
    BY <1>1, <1>5 DEF NonceFetched, Call
  <2>2. pc' \in {"accountRc", "wholeRc", "chainId"}
    BY <1>5 DEF NonceFetched, AfterNonce, FirstMissing
  <2>3. \A v \in Wallets : nonceMap'[v] = IF v = call.signer THEN [nonce |-> n + 1, time |-> "fresh"]
                                                             ELSE nonceMap[v]
    BY <2>1 DEF CallOK, TypeOK
  <2>4. \A v \in Wallets : Taken(v)' <=> v = call.signer
    BY <1>1, <2>1, <2>2 DEF Taken
  <2>5. \A v \in Wallets \ {call.signer} : ~Taken(v)
    BY DEF Taken
  <2>6. CacheExact' /\ SourceKnown'
    BY <1>1, <1>2, <1>3, <2>3, <2>4, <2>5 DEF NonceInv, CacheExact, Explained, SourceKnown
  <2>7. TakenExact'
    BY <1>1, <1>2, <1>3, <2>1, <2>3 DEF TakenExact, Explained
  <2>8. EmptyMempool' /\ ModeOfQuery' /\ QueryWhenOld'
    BY <2>2 DEF EmptyMempool, ModeOfQuery, QueryWhenOld
  <2> QED
    BY <1>4, <2>6, <2>7, <2>8 DEF NonceInv
<1>6. CASE call.purpose = "view"
  <2>1. pc' = "prompt" /\ nonceMap' = [nonceMap EXCEPT ![call.signer] = [nonce |-> n, time |-> "fresh"]]
    BY <1>1, <1>6 DEF NonceFetched, ReturnToPrompt
  <2>2. \A v \in Wallets : nonceMap'[v] = IF v = call.signer THEN [nonce |-> n, time |-> "fresh"]
                                                             ELSE nonceMap[v]
    BY <2>1 DEF CallOK, TypeOK
  <2>3. \A v \in Wallets : ~Taken(v) /\ ~Taken(v)'
    BY <2>1 DEF Taken
  <2>4. CacheExact' /\ SourceKnown'
    BY <1>1, <1>2, <1>3, <2>2, <2>3 DEF NonceInv, CacheExact, Explained, SourceKnown
  <2>5. TakenExact' /\ EmptyMempool' /\ ModeOfQuery' /\ QueryWhenOld'
    BY <2>1 DEF TakenExact, Taken, EmptyMempool, ModeOfQuery, QueryWhenOld
  <2> QED
    BY <1>4, <2>4, <2>5 DEF NonceInv
<1> QED
  BY <1>1, <1>5, <1>6 DEF Call

\* A command that ends with its nonce forgotten, whatever has happened to it.
LEMMA NonceForgotten ==
  ASSUME CallOK, NonceInv, pc # "prompt", pc' \in {"prompt", "rcHint"}, ResetNonce,
         UNCHANGED <<source, astray>>, MempoolAhead',
         \A v \in Wallets \ {call.signer}, e \in Endpoints : LatestNonce(e, v)' = LatestNonce(e, v)
  PROVE  NonceInv'
<1>1. call.signer \in Wallets
  BY DEF CallOK, OnlineWhileCalling
<1>2. \A v \in Wallets : nonceMap'[v] = IF v = call.signer THEN NoEntry ELSE nonceMap[v]
  BY <1>1 DEF ResetNonce, CallOK, TypeOK
<1>3. CacheExact' /\ SourceKnown'
  BY <1>1, <1>2 DEF NonceInv, CacheExact, Explained, SourceKnown, Taken, NoEntry
<1>4. TakenExact' /\ EmptyMempool' /\ ModeOfQuery' /\ QueryWhenOld'
  BY DEF TakenExact, Taken, EmptyMempool, MempoolAhead, ModeOfQuery, QueryWhenOld
<1> QED
  BY <1>3, <1>4 DEF NonceInv

LEMMA NonceRpcReturns ==
  ASSUME CallOK, NonceInv, RpcReturns
  PROVE  NonceInv'
<1>1. pc # "prompt" /\ client \in Endpoints /\ call.signer \in Wallets /\ call \in Call
      /\ client' = client /\ nonceMode' = nonceMode
  BY DEF RpcReturns, PendingNonceAnswer, AccountNonceAnswer, AccountRcAnswer, WholeRcAnswer,
         ChainNonceAnswer, ChainIdAnswer, SubmitConfirmed, SubmitReplyLost, SubmitRefused,
         ParametersFail, SubmissionFails, RcHintReturns, RpcLeaves, settings,
         CallOK, TypeOK, OnlineWhileCalling
<1>2. NodeTypeOK /\ MempoolAhead /\ LatestNonce(client, call.signer) \in Nat
      /\ \A v \in Wallets : nonceMap[v].nonce \in Nat
  BY <1>1, LatestNonceType DEF CallOK, TypeOK, CacheEntry, NonceInv
<1>3. CASE PendingNonceAnswer
  <2> DEFINE n == pendingNonce[client][call.signer]
  <2>1. /\ source'[call.signer] = client /\ astray'[call.signer] = {}
        /\ \A v \in Wallets \ {call.signer} : source'[v] = source[v] /\ astray'[v] = astray[v]
    BY <1>1, <1>3 DEF PendingNonceAnswer, Together, CallOK, TypeOK
  <2>2. CASE n # 0 /\ NonceFetched(n)
    <3>1. n \in Nat /\ n = LatestNonce(client, call.signer)
      BY <1>1, <1>2, <2>2 DEF LatestNonce, NodeTypeOK
    <3>2. pc = "pendingNonce" /\ UNCHANGED <<client, nonceMode, nodeVars>>
      BY <1>1, <1>3 DEF PendingNonceAnswer
    <3> HIDE DEF n
    <3> QED
      BY <1>2, <2>1, <2>2, <3>1, <3>2, NonceStored
  <2>3. CASE n = 0 /\ pc' = "accountNonce" /\ UNCHANGED <<call, nonceMap>>
    <3>1. pc = "pendingNonce" /\ nonceMode = AutoMode /\ UNCHANGED nodeVars
      BY <1>3 DEF PendingNonceAnswer, NonceInv, ModeOfQuery
    <3>2. TakenExact' /\ EmptyMempool' /\ MempoolAhead' /\ ModeOfQuery' /\ QueryWhenOld'
      BY <1>1, <2>1, <2>3, <3>1
      DEF NonceInv, TakenExact, Taken, EmptyMempool, MempoolAhead, ModeOfQuery, QueryWhenOld, nodeVars
    <3>3. CacheExact' /\ SourceKnown'
      BY <1>1, <2>1, <2>3, <3>1
      DEF NonceInv, QueryWhenOld, CacheExact, Explained, SourceKnown, Taken, nodeVars, LatestNonce
    <3> QED
      BY <3>2, <3>3 DEF NonceInv
  <2> QED
    BY <1>3, <2>2, <2>3 DEF PendingNonceAnswer
<1>4. CASE AccountNonceAnswer
  <2> DEFINE n == accountNonce[client][call.signer]
  <2>1. pc = "accountNonce" /\ NonceFetched(n) /\ UNCHANGED <<source, astray, nodeVars>>
    BY <1>4 DEF AccountNonceAnswer
  <2>2. /\ n \in Nat /\ n <= LatestNonce(client, call.signer)
        /\ astray[call.signer] \subseteq {"unused"} => n = LatestNonce(client, call.signer)
    BY <1>1, <1>2, <2>1 DEF LatestNonce, NodeTypeOK, NonceInv, EmptyMempool, MempoolAhead
  <2>3. source[call.signer] = client
    BY <2>1 DEF NonceInv, EmptyMempool
  <2> HIDE DEF n
  <2> QED
    BY <1>1, <1>2, <2>1, <2>2, <2>3, NonceStored
<1>5. CASE ChainNonceAnswer \/ ChainIdAnswer
           \/ \E rc \in RcValues : AccountRcAnswer(rc) \/ WholeRcAnswer(rc)
  <2>1. /\ call'.signer = call.signer
        /\ pc # "chainNonce" => call'.nonce = call.nonce
        /\ UNCHANGED <<nonceMap, source, astray, nodeVars>>
    BY <1>1, <1>5 DEF ChainNonceAnswer, ChainIdAnswer, AccountRcAnswer, WholeRcAnswer, Call, nonceVars
  <2>2. /\ pc \in {"accountRc", "chainNonce", "wholeRc", "chainId"}
        /\ pc' \in {"chainNonce", "wholeRc", "chainId", "submit"}
        /\ pc' = "chainNonce" /\ pc # "chainNonce" => call.nonce = 0
    BY <1>5 DEF ChainNonceAnswer, ChainIdAnswer, AccountRcAnswer, WholeRcAnswer, FirstMissing
  <2>3. \A e, w : LatestNonce(e, w)' = LatestNonce(e, w)
    BY <2>1 DEF LatestNonce, nodeVars
  <2>4. CacheExact' /\ SourceKnown' /\ TakenExact'
    BY <1>1, <2>1, <2>2, <2>3 DEF NonceInv, CacheExact, Explained, SourceKnown, TakenExact, Taken, ModeOfQuery
  <2>5. EmptyMempool' /\ ModeOfQuery' /\ QueryWhenOld'
    BY <1>1, <2>1, <2>2
    DEF NonceInv, EmptyMempool, MempoolAhead, ModeOfQuery, QueryWhenOld, TakenExact, Taken
  <2>6. MempoolAhead'
    BY <1>2, <2>1, AheadStep
  <2> QED
    BY <2>4, <2>5, <2>6 DEF NonceInv
<1>6. CASE SubmitConfirmed
  <2> DEFINE n == call.nonce
             w == call.signer
  <2>1. /\ pc = "submit" /\ pc' = "prompt" /\ n = LatestNonce(client, w) + 1
        /\ AddToMempool(client, w, n) /\ UNCHANGED nonceMap
    BY <1>6 DEF SubmitConfirmed, Accepts, ReturnToPrompt
  <2>2. n \in Nat \ {0}
    BY <1>2, <2>1
  <2>3. \A f \in Endpoints, v \in Wallets :
          LatestNonce(f, v)' = IF f = client /\ v = w THEN n ELSE LatestNonce(f, v)
    BY <1>1, <1>2, <2>1, <2>2, LatestAfterSubmit
  <2>4. TakenExact' /\ EmptyMempool' /\ ModeOfQuery' /\ QueryWhenOld'
    BY <2>1 DEF TakenExact, Taken, EmptyMempool, ModeOfQuery, QueryWhenOld
  <2>5. MempoolAhead'
    BY <1>1, <1>2, <2>1, AheadStep
  <2>6. CASE nonceMode = AutoMode
    <3>1. /\ source'[w] = client /\ astray'[w] = {}
          /\ \A v \in Wallets \ {w} : source'[v] = source[v] /\ astray'[v] = astray[v]
      BY <1>1, <1>6, <2>6 DEF SubmitConfirmed, CacheKnows, Together, CallOK, TypeOK
    <3>2. nonceMap[w].nonce = n
      BY <2>1, <2>6 DEF NonceInv, TakenExact, Taken
    <3>3. \A v \in Wallets \ {w} : ~Taken(v) /\ ~Taken(v)'
      BY <2>1 DEF Taken
    <3>4. \A v \in Wallets : ~Taken(v)'
      BY <2>1 DEF Taken
    <3> HIDE DEF n, w, Taken, LatestNonce
    <3>5. ASSUME NEW v \in Wallets, nonceMap'[v].time = "fresh"
          PROVE  /\ source'[v] \in Endpoints
                 /\ "unused" \notin astray'[v] => nonceMap'[v].nonce <= LatestNonce(source[v], v)' + 0
                 /\ astray'[v] \subseteq {"unused"} => nonceMap'[v].nonce >= LatestNonce(source[v], v)' + 0
      <4>1. CASE v = w
        BY <1>1, <2>1, <2>2, <2>3, <3>1, <3>2, <4>1 DEF w, Explained
      <4>2. CASE v # w
        <5>1. source[v] \in Endpoints /\ Explained(v, nonceMap[v].nonce, LatestNonce(source[v], v) + 0)
          BY <2>1, <3>3, <3>5, <4>2 DEF NonceInv, CacheExact, SourceKnown
        <5> QED
          BY <2>1, <2>3, <3>1, <4>2, <5>1 DEF Explained
      <4> QED
        BY <4>1, <4>2
    <3>6. CacheExact' /\ SourceKnown'
      BY <3>4, <3>5 DEF CacheExact, SourceKnown, Explained
    <3> QED
      BY <2>4, <2>5, <3>6 DEF NonceInv
  <2>7. CASE nonceMode # AutoMode
    <3>1. MovedPastCache(client, w, "bypassed") /\ UNCHANGED <<client, nonceMode, nonceMap, source>>
      BY <1>1, <1>6, <2>7 DEF SubmitConfirmed, CacheKnows
    <3>2. \A v \in Wallets :
            /\ "unused" \in astray'[v] <=> "unused" \in astray[v]
            /\ astray'[v] \subseteq {"unused"} <=>
                 astray[v] \subseteq {"unused"} /\ ~(v = w /\ source[w] = client)
      BY <1>1, <3>1, HistoryMoved DEF CallOK
    <3>3. \A v \in Wallets : ~Taken(v) /\ ~Taken(v)'
      BY <2>1, <2>7, <3>1 DEF Taken
    <3> HIDE DEF n, w, Taken, LatestNonce
    <3>4. ASSUME NEW v \in Wallets, nonceMap[v].time = "fresh"
          PROVE  /\ source[v] \in Endpoints
                 /\ "unused" \notin astray'[v] => nonceMap[v].nonce <= LatestNonce(source[v], v)'
                 /\ astray'[v] \subseteq {"unused"} => nonceMap[v].nonce >= LatestNonce(source[v], v)'
      <4>1. source[v] \in Endpoints /\ Explained(v, nonceMap[v].nonce, LatestNonce(source[v], v) + 0)
        BY <3>3, <3>4 DEF NonceInv, CacheExact, SourceKnown
      <4>2. LatestNonce(source[v], v) \in Nat
        BY <1>2, <4>1, LatestNonceType
      <4>3. LatestNonce(source[v], v)' =
              LatestNonce(source[v], v) + (IF source[v] = client /\ v = w THEN 1 ELSE 0)
        BY <2>1, <2>3, <3>1, <4>1, <4>2
      <4> QED
        BY <1>2, <3>2, <4>1, <4>2, <4>3 DEF Explained
    <3>5. \A v \in Wallets : LatestNonce(source[v], v)' + 0 = LatestNonce(source[v], v)'
                             \/ nonceMap[v].time # "fresh"
      BY <1>2, <2>1, <2>2, <2>3, <3>1, <3>4, LatestNonceType
    <3>6. CacheExact' /\ SourceKnown'
      BY <3>1, <3>3, <3>4, <3>5 DEF CacheExact, SourceKnown, Explained
    <3> QED
      BY <2>4, <2>5, <3>6 DEF NonceInv
  <2> QED
    BY <2>6, <2>7
<1>7. CASE SubmitReplyLost
  <2>1. AddToMempool(client, call.signer, LatestNonce(client, call.signer) + 1)
    BY <1>7 DEF SubmitReplyLost, Accepts
  <2>2. \A v \in Wallets \ {call.signer}, e \in Endpoints : LatestNonce(e, v)' = LatestNonce(e, v)
    <3> HIDE DEF LatestNonce
    <3>1. LatestNonce(client, call.signer) + 1 \in Nat \ {0}
      BY <1>2
    <3> QED
      BY <1>1, <1>2, <2>1, <3>1, LatestAfterSubmit
  <2>3. MempoolAhead'
    BY <1>1, <1>2, <2>1, AheadStep
  <2> QED
    BY <1>1, <1>7, <2>2, <2>3, NonceForgotten DEF SubmitReplyLost, ReturnToPrompt
<1>8. CASE SubmitRefused \/ SubmissionFails
  <2>1. UNCHANGED nodeVars
    BY <1>8 DEF SubmitRefused, SubmissionFails
  <2>2. \A v \in Wallets \ {call.signer}, e \in Endpoints : LatestNonce(e, v)' = LatestNonce(e, v)
    BY <2>1 DEF nodeVars, LatestNonce
  <2>3. MempoolAhead'
    BY <1>2, <2>1, AheadStep
  <2> QED
    BY <1>1, <1>8, <2>2, <2>3, NonceForgotten DEF SubmitRefused, SubmissionFails, ReturnToPrompt
<1>9. CASE ParametersFail
  <2>1. /\ pc' = "prompt" /\ UNCHANGED <<nonceMap, source, nodeVars>>
        /\ pc \in {"pendingNonce", "accountNonce", "accountRc"}
        /\ \A v \in Wallets : astray'[v] = IF Taken(v) THEN astray[v] \cup {"unused"} ELSE astray[v]
    BY <1>1, <1>9 DEF ParametersFail, ReturnToPrompt, GoesAstray, Taken, CallOK, TypeOK
  <2>2. \A e, w : LatestNonce(e, w)' = LatestNonce(e, w)
    BY <2>1 DEF LatestNonce, nodeVars
  <2>3. \A v \in Wallets : ~Taken(v)'
    BY <2>1 DEF Taken
  <2>4. MempoolAhead'
    BY <1>2, <2>1, AheadStep
  <2>5. TakenExact' /\ EmptyMempool' /\ ModeOfQuery' /\ QueryWhenOld'
    BY <2>1 DEF TakenExact, Taken, EmptyMempool, ModeOfQuery, QueryWhenOld
  <2>6. ASSUME NEW v \in Wallets, nonceMap[v].time = "fresh"
        PROVE  /\ source[v] \in Endpoints
               /\ "unused" \notin astray'[v] => nonceMap[v].nonce <= LatestNonce(source[v], v) + 0
               /\ astray'[v] \subseteq {"unused"} => nonceMap[v].nonce >= LatestNonce(source[v], v) + 0
    <3>1. /\ source[v] \in Endpoints
          /\ Explained(v, nonceMap[v].nonce, LatestNonce(source[v], v) + (IF Taken(v) THEN 1 ELSE 0))
      BY <2>6 DEF NonceInv, CacheExact, SourceKnown
    <3>2. LatestNonce(source[v], v) \in Nat
      BY <1>2, <3>1, LatestNonceType
    <3> HIDE DEF Taken, LatestNonce
    <3>3. CASE Taken(v)
      <4>1. "unused" \in astray'[v] /\ astray[v] \subseteq astray'[v]
        BY <2>1, <3>3
      <4>2. astray[v] \subseteq {"unused"} => nonceMap[v].nonce >= LatestNonce(source[v], v) + 0
        BY <1>2, <3>1, <3>2, <3>3 DEF Explained
      <4> QED
        BY <3>1, <4>1, <4>2
    <3>4. CASE ~Taken(v)
      BY <1>2, <2>1, <3>1, <3>2, <3>4 DEF Explained
    <3> QED
      BY <3>3, <3>4
  <2>7. CacheExact' /\ SourceKnown'
    BY <2>1, <2>2, <2>3, <2>6 DEF CacheExact, SourceKnown, Explained
  <2> QED
    BY <2>4, <2>5, <2>7 DEF NonceInv
<1>10. CASE RcHintReturns
  <2>1. /\ pc = "rcHint" /\ pc' = "prompt" /\ UNCHANGED <<nonceMap, source, astray, nodeVars>>
    BY <1>10 DEF RcHintReturns, ReturnToPrompt, nonceVars
  <2>2. \A e, w : LatestNonce(e, w)' = LatestNonce(e, w)
    BY <2>1 DEF LatestNonce, nodeVars
  <2>3. MempoolAhead'
    BY <1>2, <2>1, AheadStep
  <2> QED
    BY <2>1, <2>2, <2>3
    DEF NonceInv, CacheExact, Explained, SourceKnown, TakenExact, Taken, EmptyMempool, ModeOfQuery, QueryWhenOld
<1> QED
  BY <1>3, <1>4, <1>5, <1>6, <1>7, <1>8, <1>9, <1>10 DEF RpcReturns

LEMMA NonceEnvironment ==
  ASSUME CallOK, NonceInv, Environment
  PROVE  NonceInv'
<1>1. ASSUME NEW e \in Endpoints, NEW w \in Wallets, OtherClientSubmits(e, w) PROVE NonceInv'
  <2>1. /\ AddToMempool(e, w, LatestNonce(e, w) + 1) /\ MovedPastCache(e, w, "foreign")
        /\ UNCHANGED <<client, nonceMode, nonceMap, pc, call, source>>
    BY <1>1 DEF OtherClientSubmits, settings
  <2> QED
    BY <2>1, NonceMoved
<1>2. ASSUME NEW e \in Endpoints, NEW w \in Wallets, BlockProduced(e, w) PROVE NonceInv'
  <2>1. \A f \in Endpoints, v \in Wallets :
          /\ LatestNonce(f, v)' = LatestNonce(f, v)
          /\ pendingNonce[f][v] = 0 => pendingNonce'[f][v] = 0
    BY <1>2, LatestAfterBlock DEF BlockProduced, CallOK, TypeOK
  <2>2. UNCHANGED <<client, nonceMode, nonceMap, pc, call, source, astray>>
    BY <1>2 DEF BlockProduced, settings, nonceVars
  <2>3. pc # "prompt" => client \in Endpoints /\ call.signer \in Wallets
    BY DEF CallOK, OnlineWhileCalling
  <2>4. MempoolAhead'
    BY <1>2, AheadStep DEF BlockProduced, CallOK, TypeOK, NonceInv
  <2>5. CacheExact' /\ SourceKnown'
    BY <2>1, <2>2 DEF NonceInv, CacheExact, Explained, SourceKnown, Taken
  <2>6. TakenExact' /\ EmptyMempool' /\ ModeOfQuery' /\ QueryWhenOld'
    BY <2>1, <2>2, <2>3 DEF NonceInv, TakenExact, Explained, Taken, EmptyMempool, ModeOfQuery, QueryWhenOld
  <2> QED
    BY <2>4, <2>5, <2>6 DEF NonceInv
<1>3. ASSUME NEW w \in Wallets, NonceExpires(w) PROVE NonceInv'
  <2>1. \A v \in Wallets : /\ nonceMap'[v].nonce = nonceMap[v].nonce
                           /\ nonceMap'[v].time = "fresh" => nonceMap[v].time = "fresh"
    BY <1>3 DEF NonceExpires, CallOK, TypeOK, CacheEntry
  <2>2. UNCHANGED <<client, nonceMode, pc, call, source, astray, nodeVars>>
    BY <1>3 DEF NonceExpires, settings
  <2>3. \A f, v : LatestNonce(f, v)' = LatestNonce(f, v)
    BY <2>2 DEF nodeVars, LatestNonce
  <2>4. pc # "prompt" => call.signer \in Wallets
    BY DEF CallOK, OnlineWhileCalling
  <2>5. MempoolAhead'
    BY <2>2, AheadStep DEF CallOK, TypeOK, NonceInv
  <2>6. CacheExact' /\ SourceKnown'
    BY <2>1, <2>2, <2>3 DEF NonceInv, CacheExact, Explained, SourceKnown, Taken
  <2>7. TakenExact'
    BY <2>1, <2>2, <2>3, <2>4 DEF NonceInv, TakenExact, Explained, Taken
  <2>8. EmptyMempool' /\ ModeOfQuery' /\ QueryWhenOld'
    BY <2>1, <2>2, <2>4 DEF NonceInv, EmptyMempool, ModeOfQuery, QueryWhenOld, nodeVars
  <2> QED
    BY <2>5, <2>6, <2>7, <2>8 DEF NonceInv
<1>4. CASE Restart
  <2>1. MempoolAhead'
    BY <1>4, AheadStep DEF Restart, CallOK, TypeOK, NonceInv
  <2> QED
    BY <1>4, <2>1 DEF Restart, ReturnToPrompt, NoEntry, NonceInv, CacheExact, Explained, SourceKnown,
                      TakenExact, Taken, EmptyMempool, ModeOfQuery, QueryWhenOld
<1> QED
  BY <1>1, <1>2, <1>3, <1>4 DEF Environment

LEMMA NonceStep ==
  ASSUME CallOK, NonceInv, [Next]_vars
  PROVE  NonceInv'
<1>1. CASE UNCHANGED vars
  BY <1>1, NonceViewUnchanged DEF vars, settings, nonceVars, nonceView
<1> QED
  BY <1>1, NonceUserCommand, NonceRpcReturns, NonceEnvironment DEF Next

LEMMA NonceInvHolds == Spec => [](CallOK /\ NonceInv)
<1>1. Init => CallOK /\ NonceInv
  BY CallOKInit, NonceInvInit
<1>2. CallOK /\ NonceInv /\ [Next]_vars => (CallOK /\ NonceInv)'
  BY CallOKStep, NonceStep
<1> QED
  BY <1>1, <1>2, PTL DEF Spec

\* A cached nonce that GetNextNonce would use is the account's last nonce at the
\* network it was queried from, or the one taken by the submission in flight,
\* however many wallets and endpoints.  It is higher only if GetRcLimit failed with
\* a nonce taken, and lower only if the account was used past the cache.
THEOREM CacheIsExact == Spec => []CacheExact
<1>1. CallOK /\ NonceInv => CacheExact
  BY DEF NonceInv
<1> QED
  BY <1>1, NonceInvHolds, PTL

\* Under `nonce auto' and at the network the nonce was queried from, a submission
\* carries the nonce that network expects.  It carries a higher one only if
\* GetRcLimit failed with a nonce taken since the query, and a lower one only if
\* the account was used past the cache (another program, a fixed nonce,
\* submit_transaction).  Both happen, and so does a nonce of another network:
\* nothing is claimed of the direction named, nor after `connect' elsewhere.
THEOREM SubmissionsUseExpectedNonce == Spec => []SubmitsExpectedNonce
<1>1. CallOK /\ NonceInv => SubmitsExpectedNonce
  BY DEF NonceInv, TakenExact, SubmitsExpectedNonce
<1> QED
  BY <1>1, NonceInvHolds, PTL
===============================================================================
