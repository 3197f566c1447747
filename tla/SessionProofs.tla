---------------------------- MODULE SessionProofs ----------------------------
(***************************************************************************)
(* Transaction sessions, for every set of wallets and endpoints and every  *)
(* bound: they implement OperationOutbox, what was confirmed is never      *)
(* delivered again, and what is submitted follows the settings.            *)
(***************************************************************************)
EXTENDS ExecutionEnvironmentProofs

\* The operation in flight that comes from no session.
Hand == IF Submitting /\ ~call.fromSession THEN call.ops ELSE <<>>

\* The command in flight and the session: it submits the session as it is, or one
\* operation while there is none.  Only a submission gets past the nonce.
SessionInv ==
  /\ ~session.active => session.ops = <<>>
  /\ pc # "prompt" /\ call.purpose = "view" => pc \in {"pendingNonce", "accountNonce"}
  /\ Submitting => /\ call.ops # <<>>
                   /\ IF call.fromSession THEN session.active /\ session.ops = call.ops
                                          ELSE ~session.active

\* Everything the outbox does by itself: all but the export and what follows it.
OwnStep ==
  \/ Outbox!ChangeAuthor \/ Outbox!Open \/ Outbox!Stage \/ Outbox!SubmitAlone
  \/ Outbox!SubmitSession \/ Outbox!Fail \/ (\E confirmed \in BOOLEAN : Outbox!Deliver(confirmed))
  \/ Outbox!Discard \/ Outbox!Crash
  \/ UNCHANGED Outbox!outboxVars

-------------------------------------------------------------------------------
\* The refinement

LEMMA OutboxInitial == Init => SessionInv /\ Outbox!OutboxInit
BY DEF Init, SessionInv, NoSession, Submitting, Outbox!OutboxInit

LEMMA CallType ==
  ASSUME CallOK, pc # "prompt"
  PROVE  call \in Call /\ pc \in RpcCalls /\ call.purpose \in {"view", "submit"}
         /\ call.ops \in Seq(Op) /\ call.fromSession \in BOOLEAN /\ call.signer \in Wallets
         /\ key \in Wallets /\ client \in Endpoints
BY DEF CallOK, TypeOK, OnlineWhileCalling, Call

\* What the outbox does not see.
LEMMA OutboxStutters ==
  ASSUME UNCHANGED <<key, session, issued, delivered, signed>>, Submitting' = Submitting, Hand' = Hand
  PROVE  UNCHANGED Outbox!outboxVars
BY DEF Outbox!outboxVars, Hand

\* A step at the prompt that starts no submission.
LEMMA NotSubmitting ==
  ASSUME pc = "prompt"
  PROVE  Submitting = FALSE /\ Hand = <<>>
BY DEF Submitting, Hand

LEMMA StaysAtPrompt ==
  ASSUME pc' = "prompt"
  PROVE  Submitting' = FALSE /\ Hand' = <<>>
BY DEF Submitting, Hand

LEMMA SettingCommands ==
  ASSUME CallOK, SessionInv,
         \/ \E w \in Wallets : OpenWallet(w)
         \/ CloseWallet
         \/ \E e \in Endpoints : Connect(e)
         \/ Disconnect
         \/ \E n \in FixedNonces \cup {AutoMode} : SetNonce(n)
         \/ \E value \in Limits, absolute \in BOOLEAN : SetRcLimit(value, absolute)
         \/ \E p \in Payers \cup {Me} : SetPayer(p)
         \/ \E c \in Endpoints \cup {AutoMode} : SetChainID(c)
         \/ BeginSession \/ CancelSession \/ SubmitEmptySession
  PROVE  SessionInv' /\ OwnStep /\ signed' = signed
<1>1. pc = "prompt" /\ pc' = "prompt" /\ call' = call
      /\ UNCHANGED <<issued, delivered, signed>>
  BY DEF OpenWallet, CloseWallet, Connect, Disconnect, SetNonce, SetRcLimit, SetPayer, SetChainID,
         BeginSession, CancelSession, SubmitEmptySession, AtPrompt, outVars
<1>2. Submitting = FALSE /\ Hand = <<>> /\ Submitting' = FALSE /\ Hand' = <<>>
  BY <1>1, NotSubmitting, StaysAtPrompt
<1>3. CASE UNCHANGED <<key, session>>
  <2>1. UNCHANGED Outbox!outboxVars
    BY <1>1, <1>2, <1>3, OutboxStutters
  <2> QED
    BY <1>1, <1>2, <1>3, <2>1 DEF OwnStep, SessionInv
<1>4. CASE (\E w \in Wallets : OpenWallet(w)) \/ CloseWallet
  <2>1. key' \in Wallets \cup {NoKey} /\ session' = session
    BY <1>4 DEF OpenWallet, CloseWallet
  <2>2. Outbox!ChangeAuthor
    BY <1>1, <1>2, <2>1 DEF Outbox!ChangeAuthor, Hand
  <2> QED
    BY <1>1, <1>2, <2>1, <2>2 DEF OwnStep, SessionInv
<1>5. CASE BeginSession
  <2>1. ~session.active /\ session' = [active |-> TRUE, ops |-> <<>>] /\ key' = key
    BY <1>5 DEF BeginSession
  <2>2. session.ops = <<>> /\ session'.active = TRUE /\ session'.ops = <<>>
    BY <2>1 DEF SessionInv
  <2>3. session.active = FALSE
    BY <2>1 DEF CallOK, TypeOK, Session
  <2>4. Outbox!Open
    BY <1>1, <1>2, <2>1, <2>2, <2>3 DEF Outbox!Open, Hand
  <2> QED
    BY <1>1, <1>2, <2>2, <2>4 DEF OwnStep, SessionInv
<1>6. CASE CancelSession \/ SubmitEmptySession
  <2>1. session.active /\ session' = NoSession /\ key' = key
    BY <1>6 DEF CancelSession, SubmitEmptySession
  <2>2. session'.active = FALSE /\ session'.ops = <<>>
    BY <2>1 DEF NoSession
  <2>3. Outbox!Discard
    BY <1>1, <1>2, <2>1, <2>2 DEF Outbox!Discard, Hand
  <2> QED
    BY <1>1, <1>2, <2>2, <2>3 DEF OwnStep, SessionInv
<1> QED
  BY <1>3, <1>4, <1>5, <1>6 DEF Connect, Disconnect, SetNonce, SetRcLimit, SetPayer, SetChainID

\* GetNextNonce leaves in the command in flight what the outbox sees of it.
LEMMA NonceKeepsCall ==
  ASSUME CallOK, NEW c \in Call, UseFixedNonce(c) \/ UseCachedNonce(c) \/ FetchNonce(c)
  PROVE  /\ pc' \in RpcCalls /\ pc' # "prompt"
         /\ call'.purpose = c.purpose /\ call'.ops = c.ops /\ call'.fromSession = c.fromSession
<1>1. pc' \in RpcCalls
  BY AfterNonceType DEF UseFixedNonce, UseCachedNonce, FetchNonce, RpcCalls
<1>2. \A n : LET d == [c EXCEPT !.nonce = n]
             IN  d.purpose = c.purpose /\ d.ops = c.ops /\ d.fromSession = c.fromSession
  BY DEF Call
<1> QED
  BY <1>1, <1>2 DEF UseFixedNonce, UseCachedNonce, FetchNonce, RpcCalls

\* A submission starts: of the session, or of one operation.
LEMMA SubmissionStarts ==
  ASSUME CallOK, key \in Wallets, NEW ops \in Seq(Op), NEW fromSession \in BOOLEAN,
         SubmitTransaction(ops, fromSession)
  PROVE  Submitting' = TRUE /\ pc' # "prompt" /\ call'.purpose = "submit" /\ call'.ops = ops
         /\ call'.fromSession = fromSession
<1> DEFINE c == NewCall("submit", ops, fromSession)
<1>1. c \in Call /\ c.purpose = "submit" /\ c.ops = ops /\ c.fromSession = fromSession
  BY NewCallType DEF CallOK, NewCall
<1>2. UseFixedNonce(c) \/ UseCachedNonce(c) \/ FetchNonce(c)
  BY DEF SubmitTransaction
<1> HIDE DEF c
<1> QED
  BY <1>1, <1>2, NonceKeepsCall DEF Submitting

LEMMA StartingCommands ==
  ASSUME CallOK, SessionInv, ShowNonce \/ OperationCommand \/ SubmitSessionOnline
  PROVE  SessionInv' /\ OwnStep /\ signed' = signed
<1>1. pc = "prompt" /\ key \in Wallets /\ session \in Session /\ issued \in Nat
      /\ UNCHANGED <<key, delivered, signed>>
  BY DEF ShowNonce, OperationCommand, CanIssue, SubmitSessionOnline, AtPrompt, outVars, CallOK, TypeOK
<1>2. Submitting = FALSE /\ Hand = <<>>
  BY <1>1, NotSubmitting
<1>3. CASE ShowNonce
  <2> DEFINE c == NewCall("view", <<>>, FALSE)
  <2>1. pc' = "pendingNonce" /\ call' = c /\ UNCHANGED <<session, issued>>
    BY <1>3 DEF ShowNonce, FetchNonce
  <2>2. c.purpose = "view"
    BY DEF NewCall
  <2> HIDE DEF c
  <2>3. Submitting' = FALSE /\ Hand' = <<>>
    BY <2>1, <2>2 DEF Submitting, Hand
  <2>4. UNCHANGED Outbox!outboxVars
    BY <1>1, <1>2, <2>1, <2>3, OutboxStutters
  <2> QED
    BY <1>1, <2>1, <2>3, <2>4 DEF OwnStep, SessionInv
<1>4. CASE OperationCommand
  <2> DEFINE op == [id |-> issued, author |-> key]
  <2>1. op \in Op /\ <<op>> \in Seq(Op) /\ <<op>> # <<>>
    BY <1>1 DEF Op
  <2>2. issued' = issued + 1 /\ op = Outbox!NewOp /\ AddOrSubmit(op)
    BY <1>4 DEF OperationCommand, Outbox!NewOp
  <2>3. CASE session.active /\ session' = [session EXCEPT !.ops = Append(@, op)] /\ UNCHANGED <<pc, call>>
    <3>1. session'.active = session.active /\ session'.ops = Append(session.ops, op)
      BY <1>1, <2>3 DEF Session
    <3>2. Submitting' = FALSE /\ Hand' = <<>>
      BY <1>1, <2>3, StaysAtPrompt
    <3>3. Outbox!Stage
      BY <1>1, <1>2, <2>2, <2>3, <3>1, <3>2 DEF Outbox!Stage, Hand
    <3> QED
      BY <1>1, <2>3, <3>1, <3>2, <3>3 DEF OwnStep, SessionInv
  <2>4. CASE ~session.active /\ SubmitTransaction(<<op>>, FALSE) /\ UNCHANGED session
    <3>1. Submitting' = TRUE /\ pc' # "prompt" /\ call'.purpose = "submit" /\ call'.ops = <<op>> /\ call'.fromSession = FALSE
      BY <1>1, <2>1, <2>4, SubmissionStarts
    <3>2. Hand' = <<op>>
      BY <3>1 DEF Hand
    <3>3. Outbox!SubmitAlone
      BY <1>1, <1>2, <2>2, <2>4, <3>1, <3>2 DEF Outbox!SubmitAlone, Hand
    <3> QED
      BY <1>1, <2>1, <2>4, <3>1, <3>3 DEF OwnStep, SessionInv
  <2> QED
    BY <2>2, <2>3, <2>4 DEF AddOrSubmit
<1>5. CASE SubmitSessionOnline
  <2>1. session.active /\ session.ops # <<>> /\ SubmitTransaction(session.ops, TRUE)
        /\ UNCHANGED <<session, issued>>
    BY <1>5 DEF SubmitSessionOnline
  <2>2. Submitting' = TRUE /\ pc' # "prompt" /\ call'.purpose = "submit" /\ call'.ops = session.ops /\ call'.fromSession = TRUE
    BY <1>1, <2>1, SubmissionStarts DEF Session
  <2>3. Hand' = <<>>
    BY <2>2 DEF Hand
  <2>4. Outbox!SubmitSession
    BY <1>1, <1>2, <2>1, <2>2, <2>3 DEF Outbox!SubmitSession, Hand
  <2> QED
    BY <1>1, <2>1, <2>2, <2>4 DEF OwnStep, SessionInv
<1> QED
  BY <1>3, <1>4, <1>5

\* An answer after which the same command is still in flight.
LEMMA CommandGoesOn ==
  ASSUME CallOK, SessionInv, pc # "prompt", pc' # "prompt",
         call'.purpose = call.purpose, call'.ops = call.ops, call'.fromSession = call.fromSession,
         call.purpose = "view" => pc' \in {"pendingNonce", "accountNonce"},
         UNCHANGED <<key, session, issued, delivered, signed>>
  PROVE  SessionInv' /\ OwnStep
<1>1. Submitting' = Submitting /\ Hand' = Hand
  BY DEF Submitting, Hand
<1>2. UNCHANGED Outbox!outboxVars
  BY <1>1, OutboxStutters
<1> QED
  BY <1>1, <1>2 DEF OwnStep, SessionInv

\* A command that ends without a delivery.
LEMMA CommandEnds ==
  ASSUME CallOK, SessionInv, pc # "prompt", ReturnToPrompt,
         UNCHANGED <<key, session, issued, delivered, signed>>
  PROVE  SessionInv' /\ OwnStep
<1>1. Submitting' = FALSE /\ Hand' = <<>> /\ pc' = "prompt"
  BY StaysAtPrompt DEF ReturnToPrompt
<1>2. CASE Submitting
  <2>1. Outbox!Fail
    BY <1>1, <1>2 DEF Outbox!Fail, Hand
  <2> QED
    BY <1>1, <2>1 DEF OwnStep, SessionInv
<1>3. CASE ~Submitting
  <2>1. Submitting = FALSE /\ Hand = <<>>
    BY <1>3 DEF Submitting, Hand
  <2>2. UNCHANGED Outbox!outboxVars
    BY <1>1, <2>1, OutboxStutters
  <2> QED
    BY <1>1, <2>2 DEF OwnStep, SessionInv
<1> QED
  BY <1>2, <1>3

LEMMA ParameterAnswers ==
  ASSUME CallOK, SessionInv,
         \/ PendingNonceAnswer \/ AccountNonceAnswer \/ ChainNonceAnswer \/ ChainIdAnswer
         \/ \E rc \in RcValues : AccountRcAnswer(rc) \/ WholeRcAnswer(rc)
  PROVE  SessionInv' /\ OwnStep /\ signed' = signed
<1>1. pc # "prompt" /\ UNCHANGED <<key, session, issued, delivered, signed>>
  BY DEF PendingNonceAnswer, AccountNonceAnswer, ChainNonceAnswer, ChainIdAnswer,
         AccountRcAnswer, WholeRcAnswer, RpcLeaves
<1>2. call \in Call /\ call.purpose \in {"view", "submit"}
  BY <1>1, CallType
<1>3. \A n : /\ [call EXCEPT !.nonce = n].purpose = call.purpose
             /\ [call EXCEPT !.nonce = n].ops = call.ops
             /\ [call EXCEPT !.nonce = n].fromSession = call.fromSession
  BY <1>2 DEF Call
<1>4. \A r : /\ [call EXCEPT !.rc = r].purpose = call.purpose
             /\ [call EXCEPT !.rc = r].ops = call.ops
             /\ [call EXCEPT !.rc = r].fromSession = call.fromSession
  BY <1>2 DEF Call
<1>5. ASSUME NEW n, NonceFetched(n) PROVE SessionInv' /\ OwnStep
  <2>1. CASE call.purpose = "submit" /\ call' = [call EXCEPT !.nonce = n + 1] /\ pc' = AfterNonce(n + 1)
    <3>1. pc' # "prompt"
      BY <2>1, AfterNonceType DEF RpcCalls
    <3>2. call'.purpose = call.purpose /\ call'.ops = call.ops /\ call'.fromSession = call.fromSession
      BY <1>3, <2>1
    <3> QED
      BY <1>1, <2>1, <3>1, <3>2, CommandGoesOn
  <2>2. CASE ReturnToPrompt
    BY <1>1, <2>2, CommandEnds
  <2> QED
    BY <1>5, <2>1, <2>2 DEF NonceFetched
<1>6. CASE PendingNonceAnswer
  <2>1. CASE pc' = "accountNonce" /\ call' = call
    BY <1>1, <2>1, CommandGoesOn
  <2> QED
    BY <1>1, <1>5, <1>6, <2>1 DEF PendingNonceAnswer
<1>7. CASE AccountNonceAnswer
  BY <1>1, <1>5, <1>7 DEF AccountNonceAnswer
<1>8. CASE ChainNonceAnswer \/ ChainIdAnswer \/ \E rc \in RcValues : AccountRcAnswer(rc) \/ WholeRcAnswer(rc)
  <2>1. pc \notin {"pendingNonce", "accountNonce"} /\ pc' # "prompt"
    BY <1>8 DEF ChainNonceAnswer, ChainIdAnswer, AccountRcAnswer, WholeRcAnswer, FirstMissing
  <2>2. call.purpose # "view"
    BY <1>1, <2>1 DEF SessionInv
  <2>3. CASE ChainNonceAnswer
    <3>1. call'.purpose = call.purpose /\ call'.ops = call.ops /\ call'.fromSession = call.fromSession
      BY <1>3, <2>3 DEF ChainNonceAnswer
    <3> QED
      BY <1>1, <2>1, <2>2, <3>1, CommandGoesOn
  <2>4. CASE ChainIdAnswer
    <3>1. call' = [call EXCEPT !.chain = client]
      BY <2>4 DEF ChainIdAnswer
    <3>2. call'.purpose = call.purpose /\ call'.ops = call.ops /\ call'.fromSession = call.fromSession
      BY <1>2, <3>1 DEF Call
    <3> QED
      BY <1>1, <2>1, <2>2, <3>2, CommandGoesOn
  <2>5. CASE \E rc \in RcValues : AccountRcAnswer(rc) \/ WholeRcAnswer(rc)
    <3>1. call'.purpose = call.purpose /\ call'.ops = call.ops /\ call'.fromSession = call.fromSession
      BY <1>4, <2>5 DEF AccountRcAnswer, WholeRcAnswer
    <3> QED
      BY <1>1, <2>1, <2>2, <3>1, CommandGoesOn
  <2> QED
    BY <1>8, <2>3, <2>4, <2>5
<1> QED
  BY <1>1, <1>6, <1>7, <1>8

\* How a submission ends.
LEMMA SubmissionEnds ==
  ASSUME CallOK, SessionInv,
         \/ SubmitConfirmed \/ SubmitReplyLost \/ SubmitRefused
         \/ ParametersFail \/ SubmissionFails \/ RcHintReturns
  PROVE  SessionInv' /\ OwnStep /\ signed' = signed
<1>1. pc # "prompt" /\ UNCHANGED <<key, issued, signed>>
  BY DEF SubmitConfirmed, SubmitReplyLost, SubmitRefused, ParametersFail, SubmissionFails,
         RcHintReturns, RpcLeaves
<1>2. call \in Call /\ call.purpose \in {"view", "submit"} /\ session \in Session
  BY <1>1, CallType DEF CallOK, TypeOK
<1>3. CASE SubmitConfirmed \/ SubmitReplyLost
  <2>1. pc = "submit" /\ call.purpose = "submit"
    BY <1>2, <1>3 DEF SubmitConfirmed, SubmitReplyLost, SessionInv
  <2>2. Submitting = TRUE
    BY <2>1 DEF Submitting
  <2>3. Submitting' = FALSE /\ Hand' = <<>> /\ pc' = "prompt"
    BY <1>3, StaysAtPrompt DEF SubmitConfirmed, SubmitReplyLost, ReturnToPrompt
  <2>4. call.ops # <<>> /\ IF call.fromSession THEN session.active /\ session.ops = call.ops
                                               ELSE ~session.active
    BY <2>2 DEF SessionInv
  <2>5. (IF Hand # <<>> THEN Hand ELSE session.ops) = call.ops /\ (Hand = <<>> <=> call.fromSession)
    BY <2>2, <2>4 DEF Hand
  <2>6. NoSession.active = FALSE /\ NoSession.ops = <<>>
    BY DEF NoSession
  <2>7. CASE SubmitConfirmed
    <3>1. delivered' = Append(delivered, [ops |-> call.ops, confirmed |-> TRUE])
          /\ session' = IF call.fromSession THEN NoSession ELSE session
      BY <2>7 DEF SubmitConfirmed, SessionAfterReceipt
    <3>2. Outbox!Deliver(TRUE)
      BY <1>1, <2>2, <2>3, <2>5, <2>6, <3>1 DEF Outbox!Deliver, Hand
    <3> QED
      BY <1>1, <2>3, <2>6, <3>1, <3>2 DEF OwnStep, SessionInv
  <2>8. CASE SubmitReplyLost
    <3>1. delivered' = Append(delivered, [ops |-> call.ops, confirmed |-> FALSE]) /\ session' = session
      BY <2>8 DEF SubmitReplyLost
    <3>2. Outbox!Deliver(FALSE)
      BY <1>1, <2>2, <2>3, <2>5, <3>1 DEF Outbox!Deliver, Hand
    <3> QED
      BY <1>1, <2>3, <3>1, <3>2 DEF OwnStep, SessionInv
  <2> QED
    BY <1>3, <2>7, <2>8
<1>4. CASE SubmitRefused
  <2>1. UNCHANGED <<session, delivered>> /\ pc = "submit"
    BY <1>4 DEF SubmitRefused
  <2>2. CASE ReturnToPrompt
    BY <1>1, <2>1, <2>2, CommandEnds
  <2>3. CASE pc' = "rcHint" /\ call' = call
    BY <1>1, <1>2, <2>1, <2>3, CommandGoesOn DEF SessionInv
  <2> QED
    BY <1>4, <2>2, <2>3 DEF SubmitRefused
<1>5. CASE ParametersFail \/ SubmissionFails \/ RcHintReturns
  <2>1. ReturnToPrompt /\ UNCHANGED <<session, delivered>>
    BY <1>5 DEF ParametersFail, SubmissionFails, RcHintReturns
  <2> QED
    BY <1>1, <2>1, CommandEnds
<1> QED
  BY <1>3, <1>4, <1>5

\* The export of a session, and what was exported reaching a network.
LEMMA OfflineCommands ==
  ASSUME CallOK, SessionInv
  PROVE  /\ SubmitSessionOffline => SessionInv' /\ Outbox!Export
         /\ \A t \in signed : RawSubmit(t) => SessionInv' /\ Outbox!DeliverExported
<1>1. ASSUME SubmitSessionOffline PROVE SessionInv' /\ Outbox!Export
  <2> DEFINE t == [signer |-> key, ops |-> session.ops, nonce |-> nonceMode,
                   rc |-> rcLimit.value, chain |-> chainID, payer |-> PayerAddress]
  <2>1. /\ pc = "prompt" /\ pc' = "prompt" /\ session.active /\ session.ops # <<>>
        /\ session' = NoSession /\ signed' = signed \cup {t}
        /\ UNCHANGED <<key, issued, delivered>>
    BY <1>1 DEF SubmitSessionOffline, AtPrompt
  <2>2. t.ops = session.ops
    OBVIOUS
  <2> HIDE DEF t
  <2>3. {u.ops : u \in signed'} = {u.ops : u \in signed} \cup {session.ops}
    BY <2>1, <2>2
  <2>4. Submitting = FALSE /\ Hand = <<>> /\ Submitting' = FALSE /\ Hand' = <<>>
    BY <2>1, NotSubmitting, StaysAtPrompt
  <2>5. session'.active = FALSE /\ session'.ops = <<>>
    BY <2>1 DEF NoSession
  <2>6. Outbox!Export
    BY <2>1, <2>3, <2>4, <2>5 DEF Outbox!Export, Hand
  <2> QED
    BY <2>1, <2>4, <2>5, <2>6 DEF SessionInv
<1>2. ASSUME NEW t \in signed, RawSubmit(t) PROVE SessionInv' /\ Outbox!DeliverExported
  <2>1. /\ pc = "prompt" /\ pc' = "prompt"
        /\ UNCHANGED <<key, session, issued, signed>>
    BY <1>2 DEF RawSubmit, AtPrompt
  <2>2. PICK confirmed \in BOOLEAN : delivered' = Append(delivered, [ops |-> t.ops, confirmed |-> confirmed])
    BY <1>2 DEF RawSubmit
  <2>3. Submitting = FALSE /\ Hand = <<>> /\ Submitting' = FALSE /\ Hand' = <<>>
    BY <2>1, NotSubmitting, StaysAtPrompt
  <2>4. t.ops \in {u.ops : u \in signed}
    OBVIOUS
  <2>5. Outbox!DeliverExported
    BY <2>1, <2>2, <2>3, <2>4 DEF Outbox!DeliverExported, Hand
  <2> QED
    BY <2>1, <2>3, <2>5 DEF SessionInv
<1> QED
  BY <1>1, <1>2

LEMMA EnvironmentSteps ==
  ASSUME CallOK, SessionInv, Environment
  PROVE  SessionInv' /\ OwnStep /\ signed' = signed
<1>1. CASE UNCHANGED <<key, session, pc, call, issued, delivered, signed>>
  <2>1. Submitting' = Submitting /\ Hand' = Hand
    BY <1>1 DEF Submitting, Hand
  <2>2. UNCHANGED Outbox!outboxVars
    BY <1>1, <2>1, OutboxStutters
  <2> QED
    BY <1>1, <2>1, <2>2 DEF OwnStep, SessionInv
<1>2. CASE Restart
  <2>1. /\ key' = NoKey /\ session' = NoSession /\ pc' = "prompt"
        /\ UNCHANGED <<issued, delivered, signed>>
    BY <1>2 DEF Restart, ReturnToPrompt, outVars
  <2>2. Submitting' = FALSE /\ Hand' = <<>>
    BY <2>1, StaysAtPrompt
  <2>3. session'.active = FALSE /\ session'.ops = <<>>
    BY <2>1 DEF NoSession
  <2>4. Outbox!Crash
    BY <2>1, <2>2, <2>3 DEF Outbox!Crash, Hand
  <2> QED
    BY <2>1, <2>2, <2>3, <2>4 DEF OwnStep, SessionInv
<1> QED
  BY <1>1, <1>2 DEF Environment, OtherClientSubmits, BlockProduced, NonceExpires, outVars

\* Every step is one of the outbox itself, an export, or an exported transaction
\* that reaches a network.
LEMMA SessionStep ==
  ASSUME CallOK, SessionInv, [Next]_vars
  PROVE  /\ SessionInv'
         /\ \/ OwnStep /\ signed' = signed
            \/ SubmitSessionOffline /\ Outbox!Export
            \/ \E t \in signed : RawSubmit(t) /\ Outbox!DeliverExported
<1>1. CASE UNCHANGED vars
  <2>1. UNCHANGED <<key, session, pc, call, issued, delivered, signed>>
    BY <1>1 DEF vars, outVars
  <2>2. Submitting' = Submitting /\ Hand' = Hand
    BY <2>1 DEF Submitting, Hand
  <2>3. UNCHANGED Outbox!outboxVars
    BY <2>1, <2>2, OutboxStutters
  <2> QED
    BY <2>1, <2>2, <2>3 DEF OwnStep, SessionInv
<1>2. CASE UserCommand
  BY <1>2, SettingCommands, StartingCommands, OfflineCommands DEF UserCommand
<1>3. CASE RpcReturns
  BY <1>3, ParameterAnswers, SubmissionEnds DEF RpcReturns
<1>4. CASE Environment
  BY <1>4, EnvironmentSteps
<1> QED
  BY <1>1, <1>2, <1>3, <1>4 DEF Next

\* Sessions leave whole and in order, and nothing but a confirmed delivery, an
\* export, the user or the end of the process empties them: the execution
\* environment implements the outbox, through every failure (session.go,
\* commands.go:1290-1387, interpreter.go:234-257).
THEOREM SessionsImplementOutbox == Spec => ImplementsOutbox
<1>1. Init => CallOK /\ SessionInv /\ Outbox!OutboxInit
  BY CallOKInit, OutboxInitial
<1>2. CallOK /\ SessionInv /\ [Next]_vars => (CallOK /\ SessionInv)'
  BY CallOKStep, SessionStep
<1>3. CallOK /\ SessionInv /\ [Next]_vars => [Outbox!OutboxNext]_(Outbox!outboxVars)
  BY SessionStep DEF OwnStep, Outbox!OutboxNext
<1> QED
  BY <1>1, <1>2, <1>3, PTL DEF Spec, ImplementsOutbox, Outbox!OutboxSpec
-------------------------------------------------------------------------------
\* Delivery

\* Identifiers that may still be submitted, and identifiers never confirmed.
Held == Ids(session.ops) \cup Ids(Hand)
Unconfirmed(ids) == \A i \in DOMAIN delivered : delivered[i].confirmed => Ids(delivered[i].ops) \cap ids = {}

\* Its nonce is used up: the network will not take this transaction any more.
Spent(t) == t.nonce <= LatestNonce(t.chain, t.signer)

\* Every identifier has been issued; what is held has not been confirmed, nor
\* exported; a transaction signed offline has not been confirmed, or is spent; and
\* no two of them share an operation.
DeliveryInv ==
  /\ \A n \in Held : n < issued
  /\ \A t \in signed : \A n \in Ids(t.ops) : n < issued
  /\ \A i \in DOMAIN delivered : \A n \in Ids(delivered[i].ops) : n < issued
  /\ Unconfirmed(Held)
  /\ \A t \in signed : Ids(t.ops) \cap Held = {} /\ (Spent(t) \/ Unconfirmed(Ids(t.ops)))
  /\ \A t, u \in signed : t # u => Ids(t.ops) \cap Ids(u.ops) = {}
  /\ ConfirmedOnce

\* What Ids does.
LEMMA IdsType ==
  ASSUME NEW ops \in Seq(Op)
  PROVE  Ids(ops) \subseteq Nat
<1>1. \A i \in DOMAIN ops : ops[i] \in Op
  OBVIOUS
<1>2. \A i \in DOMAIN ops : ops[i].id \in Nat
  BY <1>1 DEF Op
<1> QED
  BY <1>2 DEF Ids

LEMMA IdsOf ==
  ASSUME NEW ops \in Seq(Op), NEW op \in Op
  PROVE  /\ Ids(<<>>) = {}
         /\ Ids(<<op>>) = {op.id} /\ Ids(Append(ops, op)) = Ids(ops) \cup {op.id}
<1>2. Ids(<<>>) = {}
  BY DEF Ids
<1>3. Ids(<<op>>) = {op.id}
  BY DEF Ids
<1>4. Ids(Append(ops, op)) = Ids(ops) \cup {op.id}
  <2>1. /\ Len(ops) \in Nat /\ DOMAIN ops = 1 .. Len(ops)
        /\ DOMAIN Append(ops, op) = 1 .. Len(ops) + 1
        /\ Append(ops, op)[Len(ops) + 1] = op
        /\ \A i \in 1 .. Len(ops) : Append(ops, op)[i] = ops[i]
    OBVIOUS
  <2>2. \A i : i \in 1 .. Len(ops) + 1 <=> i \in 1 .. Len(ops) \/ i = Len(ops) + 1
    BY <2>1
  <2> QED
    BY <2>1, <2>2 DEF Ids
<1> QED
  BY <1>2, <1>3, <1>4

\* The last nonce of an account never goes back.
Advances == \A e \in Endpoints, w \in Wallets :
              LatestNonce(e, w) \in Nat /\ LatestNonce(e, w)' \in Nat /\ LatestNonce(e, w) <= LatestNonce(e, w)'

LEMMA NoncesAdvance ==
  ASSUME CallOK, [Next]_vars
  PROVE  Advances
<1>1. \A e \in Endpoints, w \in Wallets : LatestNonce(e, w) \in Nat
  BY LatestNonceType DEF CallOK, TypeOK
<1>2. CASE UNCHANGED nodeVars
  <2>1. \A e \in Endpoints, w \in Wallets : LatestNonce(e, w)' = LatestNonce(e, w)
    BY <1>2 DEF nodeVars, LatestNonce
  <2> QED
    BY <1>1, <2>1 DEF Advances
<1>3. ASSUME NEW e \in Endpoints, NEW w \in Wallets, AddToMempool(e, w, LatestNonce(e, w) + 1)
      PROVE  Advances
  <2>1. LatestNonce(e, w) + 1 \in Nat \ {0}
    BY <1>1
  <2>2. \A f \in Endpoints, v \in Wallets :
          LatestNonce(f, v)' = IF f = e /\ v = w THEN LatestNonce(e, w) + 1 ELSE LatestNonce(f, v)
    BY <1>3, <2>1, LatestAfterSubmit DEF CallOK, TypeOK
  <2> QED
    BY <1>1, <2>2 DEF Advances
<1>4. ASSUME NEW e \in Endpoints, NEW w \in Wallets, ProduceBlock(e, w) PROVE Advances
  <2>1. \A f \in Endpoints, v \in Wallets : LatestNonce(f, v)' = LatestNonce(f, v)
    BY <1>4, LatestAfterBlock DEF CallOK, TypeOK
  <2> QED
    BY <1>1, <2>1 DEF Advances
<1>5. CASE SubmitConfirmed \/ SubmitReplyLost
  <2>1. pc # "prompt" /\ AddToMempool(client, call.signer, LatestNonce(client, call.signer) + 1)
    BY <1>5 DEF SubmitConfirmed, SubmitReplyLost, Accepts
  <2> QED
    BY <1>3, <2>1, CallType
<1>6. CASE \E t \in signed : RawSubmit(t)
  <2>1. PICK t \in signed : RawSubmit(t)
    BY <1>6
  <2>2. t \in SignedTx /\ client \in Endpoints
    BY <2>1 DEF RawSubmit, CallOK, TypeOK
  <2>3. t.signer \in Wallets /\ AddToMempool(client, t.signer, LatestNonce(client, t.signer) + 1)
    BY <2>1, <2>2 DEF RawSubmit, Accepts, SignedTx
  <2> QED
    BY <1>3, <2>2, <2>3
<1>7. CASE Environment
  BY <1>2, <1>3, <1>4, <1>7 DEF Environment, OtherClientSubmits, BlockProduced, NonceExpires, Restart
<1>8. CASE UserCommand
  <2>1. CASE ShowNonce \/ OperationCommand \/ SubmitSessionOnline \/ SubmitSessionOffline
             \/ SubmitEmptySession \/ BeginSession \/ CancelSession
    BY <1>2, <2>1 DEF ShowNonce, OperationCommand, SubmitSessionOnline, SubmitSessionOffline,
                      SubmitEmptySession, BeginSession, CancelSession
  <2> QED
    BY <1>2, <1>6, <1>8, <2>1 DEF UserCommand, OpenWallet, CloseWallet, Connect, Disconnect, SetNonce,
                                  SetRcLimit, SetPayer, SetChainID
<1>9. CASE RpcReturns
  BY <1>2, <1>5, <1>9 DEF RpcReturns, PendingNonceAnswer, AccountNonceAnswer, AccountRcAnswer,
                          WholeRcAnswer, ChainNonceAnswer, ChainIdAnswer, SubmitRefused,
                          ParametersFail, SubmissionFails, RcHintReturns
<1>10. CASE UNCHANGED vars
  BY <1>2, <1>10 DEF vars
<1> QED
  BY <1>7, <1>8, <1>9, <1>10 DEF Next

LEMMA SpentStays ==
  ASSUME CallOK, Advances, NEW t \in signed, Spent(t)
  PROVE  t.nonce <= LatestNonce(t.chain, t.signer)'
<1>1. t.nonce \in Nat /\ t.chain \in Endpoints /\ t.signer \in Wallets
  BY DEF CallOK, TypeOK, SignedTx
<1> QED
  BY <1>1 DEF Spent, Advances

-------------------------------------------------------------------------------
\* DeliveryInv, one lemma per kind of step

LEMMA DeliveryInvInit == Init => DeliveryInv
<1> SUFFICES ASSUME Init PROVE DeliveryInv
  OBVIOUS
<1>1. Held = {} /\ delivered = <<>> /\ signed = {}
  BY DEF Init, NoSession, Held, Hand, Submitting, Ids
<1> QED
  BY <1>1 DEF DeliveryInv, ConfirmedOnce, Unconfirmed

\* Less is held, nothing leaves.
LEMMA NothingLeaves ==
  ASSUME CallOK, Advances, DeliveryInv, Held' \subseteq Held, UNCHANGED <<issued, delivered, signed>>
  PROVE  DeliveryInv'
<1>1. \A t \in signed : Spent(t) => Spent(t)'
  BY SpentStays DEF Spent
<1>2. \A n \in Held' : n < issued
  BY DEF DeliveryInv
<1>3. Unconfirmed(Held)'
  BY DEF DeliveryInv, Unconfirmed
<1>4. \A t \in signed : Ids(t.ops) \cap Held' = {}
  BY DEF DeliveryInv
<1>5. \A t \in signed : Unconfirmed(Ids(t.ops)) => Unconfirmed(Ids(t.ops))'
  BY DEF Unconfirmed
<1>6. \A t \in signed : Spent(t)' \/ Unconfirmed(Ids(t.ops))'
  BY <1>1, <1>5 DEF DeliveryInv
<1>7. ConfirmedOnce'
  BY DEF DeliveryInv, ConfirmedOnce
<1> QED
  BY <1>2, <1>3, <1>4, <1>6, <1>7 DEF DeliveryInv

LEMMA ElementType ==
  ASSUME NEW S, NEW s \in Seq(S)
  PROVE  \A i \in DOMAIN s : s[i] \in S
OBVIOUS

\* A new operation.
LEMMA OneIssued ==
  ASSUME CallOK, Advances, DeliveryInv, Held \subseteq Nat, issued' = issued + 1,
         Held' = Held \cup {issued}, UNCHANGED <<delivered, signed>>
  PROVE  DeliveryInv'
<1>1. \A t \in signed : Spent(t) => Spent(t)'
  BY SpentStays DEF Spent
<1>2. issued \in Nat
  BY DEF CallOK, TypeOK
<1>3. \A n \in Held' : n < issued'
  <2>1. \A n \in Held : n \in Nat /\ n < issued
    BY DEF DeliveryInv
  <2> QED
    BY <1>2, <2>1
<1>4. \A t \in signed : Ids(t.ops) \subseteq Nat
  <2>1. \A t \in signed : t.ops \in Seq(Op)
    BY DEF CallOK, TypeOK, SignedTx
  <2> QED
    BY <2>1, IdsType
<1>5. \A i \in DOMAIN delivered : Ids(delivered[i].ops) \subseteq Nat
  <2>1. \A i \in DOMAIN delivered : delivered[i].ops \in Seq(Op)
    <3>1. \A i \in DOMAIN delivered : delivered[i] \in [ops : Seq(Op), confirmed : BOOLEAN]
      BY ElementType DEF CallOK, TypeOK
    <3> QED
      BY <3>1
  <2> QED
    BY <2>1, IdsType
<1>6. (\A t \in signed : \A n \in Ids(t.ops) : n < issued')
      /\ \A i \in DOMAIN delivered : \A n \in Ids(delivered[i].ops) : n < issued'
  <2>1. \A n \in Nat : n < issued => n < issued'
    BY <1>2
  <2>2. ASSUME NEW t \in signed, NEW n \in Ids(t.ops)
        PROVE  n < issued'
    <3>1. n < issued /\ n \in Nat
      BY <1>4, <2>2 DEF DeliveryInv
    <3> QED
      BY ONLY <2>1, <3>1
  <2>3. ASSUME NEW i \in DOMAIN delivered, NEW n \in Ids(delivered[i].ops)
        PROVE  n < issued'
    <3>1. n < issued /\ n \in Nat
      BY <1>5, <2>3 DEF DeliveryInv
    <3> QED
      BY ONLY <2>1, <3>1
  <2> QED
    BY ONLY <2>2, <2>3
<1>7. \A i \in DOMAIN delivered : issued \notin Ids(delivered[i].ops)
  BY <1>2 DEF DeliveryInv
<1>8. Unconfirmed(Held)'
  BY <1>7 DEF DeliveryInv, Unconfirmed
<1>9. \A t \in signed : issued \notin Ids(t.ops)
  BY <1>2 DEF DeliveryInv
<1>10. \A t \in signed : Ids(t.ops) \cap Held' = {}
  BY <1>9 DEF DeliveryInv
<1>11. \A t \in signed : Unconfirmed(Ids(t.ops)) => Unconfirmed(Ids(t.ops))'
  BY DEF Unconfirmed
<1>12. \A t \in signed : Spent(t)' \/ Unconfirmed(Ids(t.ops))'
  BY <1>1, <1>11 DEF DeliveryInv
<1>13. ConfirmedOnce'
  BY DEF DeliveryInv, ConfirmedOnce
<1> QED
  BY <1>3, <1>6, <1>8, <1>10, <1>12, <1>13 DEF DeliveryInv

\* A delivery extends the list of transactions by one.
LEMMA DeliveredAppended ==
  ASSUME CallOK, NEW d \in [ops : Seq(Op), confirmed : BOOLEAN], delivered' = Append(delivered, d)
  PROVE  /\ \A i \in DOMAIN delivered' :
              \/ i \in DOMAIN delivered /\ delivered'[i] = delivered[i]
              \/ delivered'[i] = d /\ i \notin DOMAIN delivered
         /\ \A i, j \in DOMAIN delivered' : i < j => i \in DOMAIN delivered
<1>1. delivered \in Seq([ops : Seq(Op), confirmed : BOOLEAN])
  BY DEF CallOK, TypeOK
<1> QED
  BY <1>1

LEMMA AppendedOnce ==
  ASSUME CallOK, NEW d \in [ops : Seq(Op), confirmed : BOOLEAN], delivered' = Append(delivered, d),
         ConfirmedOnce, Unconfirmed(Ids(d.ops))
  PROVE  ConfirmedOnce'
<1> SUFFICES ASSUME NEW i \in DOMAIN delivered', NEW j \in DOMAIN delivered',
                    i < j, delivered'[i].confirmed
             PROVE  Ids(delivered'[i].ops) \cap Ids(delivered'[j].ops) = {}
  BY DEF ConfirmedOnce
<1>1. i \in DOMAIN delivered /\ delivered'[i] = delivered[i]
  BY DeliveredAppended
<1>2. CASE j \in DOMAIN delivered /\ delivered'[j] = delivered[j]
  BY <1>1, <1>2 DEF ConfirmedOnce
<1>3. CASE delivered'[j] = d
  BY <1>1, <1>3 DEF Unconfirmed
<1> QED
  BY <1>2, <1>3, DeliveredAppended

\* What is held is delivered; when that is confirmed, nothing is held any more.
LEMMA HeldDelivered ==
  ASSUME CallOK, Advances, DeliveryInv, NEW ops \in Seq(Op), NEW confirmed \in BOOLEAN,
         Ids(ops) \subseteq Held, delivered' = Append(delivered, [ops |-> ops, confirmed |-> confirmed]),
         Held' \subseteq Held, confirmed => Held' = {}, UNCHANGED <<issued, signed>>
  PROVE  DeliveryInv'
<1> DEFINE d == [ops |-> ops, confirmed |-> confirmed]
<1>1. d \in [ops : Seq(Op), confirmed : BOOLEAN] /\ d.ops = ops /\ d.confirmed = confirmed
      /\ delivered' = Append(delivered, d)
  OBVIOUS
<1> HIDE DEF d
<1>2. \A i \in DOMAIN delivered' : \/ i \in DOMAIN delivered /\ delivered'[i] = delivered[i]
                                   \/ delivered'[i] = d
  BY <1>1, DeliveredAppended
<1>3. Unconfirmed(Ids(ops))
  BY DEF DeliveryInv, Unconfirmed
<1>4. ConfirmedOnce'
  BY <1>1, <1>3, AppendedOnce DEF DeliveryInv
<1>5. \A i \in DOMAIN delivered' : \A n \in Ids(delivered'[i].ops) : n < issued
  BY <1>1, <1>2 DEF DeliveryInv
<1>6. Unconfirmed(Held)'
  BY <1>1, <1>2 DEF DeliveryInv, Unconfirmed
<1>7. \A t \in signed : Unconfirmed(Ids(t.ops)) => Unconfirmed(Ids(t.ops))'
  BY <1>1, <1>2 DEF DeliveryInv, Unconfirmed
<1>8. \A t \in signed : Spent(t) => Spent(t)'
  BY SpentStays DEF Spent
<1>9. \A t \in signed : Ids(t.ops) \cap Held' = {} /\ (Spent(t)' \/ Unconfirmed(Ids(t.ops))')
  BY <1>7, <1>8 DEF DeliveryInv
<1>10. \A n \in Held' : n < issued
  BY DEF DeliveryInv
<1> QED
  BY <1>4, <1>5, <1>6, <1>9, <1>10 DEF DeliveryInv

\* The session is signed offline and ends.
LEMMA HeldExported ==
  ASSUME CallOK, Advances, DeliveryInv, SubmitSessionOffline
  PROVE  DeliveryInv'
<1> DEFINE t == [signer |-> key, ops |-> session.ops, nonce |-> nonceMode,
                 rc |-> rcLimit.value, chain |-> chainID, payer |-> PayerAddress]
<1>1. /\ signed' = signed \cup {t} /\ session' = NoSession /\ pc' = "prompt"
      /\ UNCHANGED <<issued, delivered>>
  BY DEF SubmitSessionOffline, AtPrompt
<1>2. t.ops = session.ops
  OBVIOUS
<1> HIDE DEF t
<1>3. Held' = {}
  BY <1>1, StaysAtPrompt DEF Held, NoSession, Ids
<1>4. Ids(t.ops) \subseteq Held
  BY <1>2 DEF Held
<1>5. \A u \in signed : Spent(u) => Spent(u)'
  BY SpentStays DEF Spent
<1>6. \A u \in signed' : Unconfirmed(Ids(u.ops)) => Unconfirmed(Ids(u.ops))'
  BY <1>1 DEF Unconfirmed
<1>7. Unconfirmed(Ids(t.ops))
  BY <1>4 DEF DeliveryInv, Unconfirmed
<1>8. \A u \in signed' : Spent(u)' \/ Unconfirmed(Ids(u.ops))'
  BY <1>1, <1>5, <1>6, <1>7 DEF DeliveryInv
<1>9. \A u \in signed' : \A n \in Ids(u.ops) : n < issued
  BY <1>1, <1>4 DEF DeliveryInv
<1>10. \A u, v \in signed' : u # v => Ids(u.ops) \cap Ids(v.ops) = {}
  BY <1>1, <1>4 DEF DeliveryInv
<1>11. Unconfirmed(Held)' /\ ConfirmedOnce'
  BY <1>1, <1>3 DEF DeliveryInv, Unconfirmed, ConfirmedOnce
<1> QED
  BY <1>1, <1>3, <1>8, <1>9, <1>10, <1>11 DEF DeliveryInv

\* A transaction signed offline reaches its network: it was not spent, and is now.
LEMMA SignedDelivered ==
  ASSUME CallOK, Advances, DeliveryInv, NEW t \in signed, RawSubmit(t)
  PROVE  DeliveryInv'
<1>1. t \in SignedTx /\ t.nonce \in Nat /\ t.chain = client /\ client \in Endpoints /\ t.signer \in Wallets
      /\ t.ops \in Seq(Op) /\ t.nonce = LatestNonce(client, t.signer) + 1
  BY DEF RawSubmit, Accepts, CallOK, TypeOK, SignedTx
<1>2. LatestNonce(client, t.signer) \in Nat
  BY <1>1 DEF Advances
<1>3. ~Spent(t)
  BY <1>1, <1>2 DEF Spent
<1>4. t.nonce <= LatestNonce(t.chain, t.signer)'
  <2>1. t.nonce \in Nat \ {0} /\ AddToMempool(client, t.signer, t.nonce)
    BY <1>1, <1>2 DEF RawSubmit
  <2>3. client' = client
    BY DEF RawSubmit
  <2>4. pendingNonce'[client][t.signer] = t.nonce
    BY <1>1, <2>1 DEF AddToMempool, CallOK, TypeOK, NodeTypeOK
  <2> QED
    BY <1>1, <2>1, <2>3, <2>4 DEF LatestNonce
<1>5. PICK confirmed \in BOOLEAN : delivered' = Append(delivered, [ops |-> t.ops, confirmed |-> confirmed])
  BY DEF RawSubmit
<1> DEFINE d == [ops |-> t.ops, confirmed |-> confirmed]
<1>6. d \in [ops : Seq(Op), confirmed : BOOLEAN] /\ d.ops = t.ops /\ d.confirmed = confirmed
      /\ delivered' = Append(delivered, d)
  BY <1>1, <1>5
<1> HIDE DEF d
<1>7. UNCHANGED <<session, pc, call, issued, signed>>
  BY DEF RawSubmit
<1>8. Held' = Held
  BY <1>7 DEF Held, Hand, Submitting
<1>9. Unconfirmed(Ids(t.ops))
  BY <1>3 DEF DeliveryInv
<1>10. ConfirmedOnce'
  BY <1>6, <1>9, AppendedOnce DEF DeliveryInv
<1>11. \A i \in DOMAIN delivered' : \/ i \in DOMAIN delivered /\ delivered'[i] = delivered[i]
                                    \/ delivered'[i] = d
  BY <1>6, DeliveredAppended
<1>12. \A i \in DOMAIN delivered' : \A n \in Ids(delivered'[i].ops) : n < issued
  BY <1>6, <1>11 DEF DeliveryInv
<1>13. Ids(t.ops) \cap Held = {}
  BY DEF DeliveryInv
<1>14. Unconfirmed(Held)'
  BY <1>6, <1>8, <1>11, <1>13 DEF DeliveryInv, Unconfirmed
<1>15. \A u \in signed : Spent(u)' \/ Unconfirmed(Ids(u.ops))'
  <2> TAKE u \in signed
  <2>1. CASE u = t
    BY <1>4, <2>1 DEF Spent
  <2>2. CASE Spent(u)
    BY <2>2, SpentStays DEF Spent
  <2>3. CASE u # t /\ Unconfirmed(Ids(u.ops))
    <3>1. Ids(t.ops) \cap Ids(u.ops) = {}
      BY <2>3 DEF DeliveryInv
    <3> QED
      BY <1>6, <1>11, <2>3, <3>1 DEF Unconfirmed
  <2> QED
    BY <2>1, <2>2, <2>3 DEF DeliveryInv
<1> QED
  BY <1>7, <1>8, <1>10, <1>12, <1>14, <1>15 DEF DeliveryInv

\* What Held is, at the prompt and in flight.
LEMMA HeldType ==
  ASSUME CallOK
  PROVE  Held \subseteq Nat /\ session.ops \in Seq(Op) /\ Hand \in Seq(Op)
<1>1. session.ops \in Seq(Op)
  BY DEF CallOK, TypeOK, Session
<1>2. Hand \in Seq(Op)
  BY CallType DEF Hand, Submitting
<1> QED
  BY <1>1, <1>2, IdsType DEF Held

\* What the outbox does by itself keeps it.
LEMMA OwnStepDelivers ==
  ASSUME CallOK, SessionInv, Advances, DeliveryInv, OwnStep, signed' = signed
  PROVE  DeliveryInv'
<1> USE DEF Held
<1>1. Held \subseteq Nat /\ session.ops \in Seq(Op) /\ Hand \in Seq(Op)
  BY HeldType
<1>2. Hand = (IF Submitting /\ ~call.fromSession THEN call.ops ELSE <<>>)
      /\ Hand' = (IF Submitting /\ ~call.fromSession THEN call.ops ELSE <<>>)'
  BY DEF Hand
<1>3. Ids(<<>>) = {}
  BY DEF Ids
<1>4. CASE \/ Outbox!ChangeAuthor \/ Outbox!Open \/ Outbox!SubmitSession \/ UNCHANGED Outbox!outboxVars
           \/ Outbox!Fail \/ Outbox!Discard \/ Outbox!Crash
  <2>1. UNCHANGED <<issued, delivered>>
    BY <1>4 DEF Outbox!ChangeAuthor, Outbox!Open, Outbox!SubmitSession, Outbox!Fail, Outbox!Discard,
                Outbox!Crash, Outbox!outboxVars
  <2>2. session'.ops = session.ops \/ session'.ops = <<>>
    BY <1>4 DEF Outbox!ChangeAuthor, Outbox!Open, Outbox!SubmitSession, Outbox!Fail, Outbox!Discard,
                Outbox!Crash, Outbox!outboxVars
  <2>3. Hand' = Hand \/ Hand' = <<>>
    BY <1>2, <1>4 DEF Outbox!ChangeAuthor, Outbox!Open, Outbox!SubmitSession, Outbox!Fail, Outbox!Discard,
                      Outbox!Crash, Outbox!outboxVars
  <2>4. Held' \subseteq Held
    BY <1>3, <2>2, <2>3
  <2> QED
    BY <2>1, <2>4, NothingLeaves
<1>5. CASE Outbox!Stage \/ Outbox!SubmitAlone
  <2>1. Outbox!NewOp \in Op /\ Outbox!NewOp.id = issued /\ issued \in Nat
    BY <1>5 DEF Outbox!Stage, Outbox!SubmitAlone, Outbox!NewOp, Op, CallOK, TypeOK
  <2>2. issued' = issued + 1 /\ delivered' = delivered
    BY <1>5 DEF Outbox!Stage, Outbox!SubmitAlone
  <2> HIDE DEF Held
  <2>3. Held' = Held \cup {issued}
    <3>1. CASE Outbox!Stage
      <4>1. session'.ops = Append(session.ops, Outbox!NewOp) /\ Hand' = Hand
        BY <1>2, <3>1 DEF Outbox!Stage
      <4>2. Ids(Append(session.ops, Outbox!NewOp)) = Ids(session.ops) \cup {issued}
        BY <1>1, <2>1, IdsOf
      <4>3. Held' = Ids(session'.ops) \cup Ids(Hand')
        BY DEF Held, Ids
      <4> QED
        BY <4>1, <4>2, <4>3 DEF Held
    <3>2. CASE Outbox!SubmitAlone
      <4>1. session'.ops = session.ops /\ Hand' = <<Outbox!NewOp>> /\ ~Submitting
        BY <1>2, <3>2 DEF Outbox!SubmitAlone
      <4>2. Ids(<<Outbox!NewOp>>) = {issued}
        BY <1>1, <2>1, IdsOf
      <4>3. Held' = Ids(session'.ops) \cup Ids(Hand')
        BY DEF Held, Ids
      <4>4. Held = Ids(session.ops)
        BY <1>3, <4>1 DEF Held, Hand
      <4> QED
        BY <4>1, <4>2, <4>3, <4>4
    <3> QED
      BY <1>5, <3>1, <3>2
  <2> QED
    BY <1>1, <2>2, <2>3, OneIssued
<1>6. ASSUME NEW confirmed \in BOOLEAN, Outbox!Deliver(confirmed) PROVE DeliveryInv'
  <2> DEFINE ops == IF Hand # <<>> THEN Hand ELSE session.ops
  <2>1. /\ Submitting /\ Hand' = <<>> /\ issued' = issued
        /\ delivered' = Append(delivered, [ops |-> ops, confirmed |-> confirmed])
        /\ IF Hand = <<>> /\ confirmed THEN session'.ops = <<>> ELSE session'.ops = session.ops
    BY <1>2, <1>6 DEF Outbox!Deliver
  <2>2. ops \in Seq(Op) /\ Ids(ops) \subseteq Held
    BY <1>1
  <2>3. Held' \subseteq Held
    BY <1>3, <2>1
  <2>4. Hand # <<>> => session.ops = <<>>
    BY DEF Hand, SessionInv
  <2>5. confirmed => Held' = {}
    BY <1>3, <2>1, <2>4
  <2> HIDE DEF ops, Held
  <2> QED
    BY <2>1, <2>2, <2>3, <2>5, HeldDelivered
<1> QED
  BY <1>4, <1>5, <1>6 DEF OwnStep

LEMMA DeliveryStep ==
  ASSUME CallOK, SessionInv, DeliveryInv, [Next]_vars
  PROVE  DeliveryInv'
<1>1. Advances
  BY NoncesAdvance
<1>2. CASE OwnStep /\ signed' = signed
  BY <1>1, <1>2, OwnStepDelivers
<1>3. CASE SubmitSessionOffline
  BY <1>1, <1>3, HeldExported
<1>4. CASE \E t \in signed : RawSubmit(t)
  BY <1>1, <1>4, SignedDelivered
<1> QED
  BY <1>2, <1>3, <1>4, SessionStep

\* No operation whose delivery was confirmed is delivered again: not by a session
\* that stayed open, not by a resubmission, and not by a transaction that was
\* signed offline and handed to submit_transaction twice (session.go:38-46,
\* commands.go:1367-1381, commands.go:637-665).
THEOREM ConfirmedAtMostOnce == Spec => []ConfirmedOnce
<1>1. Init => CallOK /\ SessionInv /\ DeliveryInv
  BY CallOKInit, OutboxInitial, DeliveryInvInit
<1>2. CallOK /\ SessionInv /\ DeliveryInv /\ [Next]_vars => (CallOK /\ SessionInv /\ DeliveryInv)'
  BY CallOKStep, SessionStep, DeliveryStep
<1>3. DeliveryInv => ConfirmedOnce
  BY DEF DeliveryInv
<1> QED
  BY <1>1, <1>2, <1>3, PTL DEF Spec

-------------------------------------------------------------------------------
\* What leaves

\* The session ends with the operation issued last; what has left is whole.
RunsInv ==
  /\ Run(session.ops) /\ Run(Hand)
  /\ session.ops # <<>> => issued = session.ops[1].id + Len(session.ops)
  /\ LeavesWhole

\* The next operation continues the run.
LEMMA RunGrows ==
  ASSUME NEW ops \in Seq(Op), NEW op \in Op, Run(ops), ops # <<>> => op.id = ops[1].id + Len(ops)
  PROVE  /\ Run(Append(ops, op)) /\ Append(ops, op) # <<>>
         /\ op.id + 1 = Append(ops, op)[1].id + Len(Append(ops, op))
<1> DEFINE more == Append(ops, op)
<1>1. /\ Len(ops) \in Nat /\ Len(more) = Len(ops) + 1 /\ DOMAIN more = 1 .. Len(ops) + 1
      /\ more[Len(ops) + 1] = op /\ \A k \in 1 .. Len(ops) : more[k] = ops[k]
      /\ DOMAIN ops = 1 .. Len(ops) /\ op.id \in Nat
      /\ \A k \in 1 .. Len(ops) : ops[k].id \in Nat
  <2>1. \A o \in Op : o.id \in Nat
    BY DEF Op
  <2> QED
    BY <2>1, ElementType
<1>2. ops # <<>> <=> Len(ops) > 0
  BY <1>1
<1> HIDE DEF more
<1>3. CASE ops = <<>>
  <2>1. Len(ops) = 0
    BY <1>1, <1>2, <1>3
  <2>2. more[1] = op /\ DOMAIN more = {1} /\ Len(more) = 1
    BY <1>1, <2>1
  <2>3. Run(more) /\ more # <<>> /\ op.id + 1 = more[1].id + Len(more)
    BY <1>1, <2>2 DEF Run
  <2> QED
    BY <2>3 DEF more
<1>4. CASE ops # <<>>
  <2>1. more[1] = ops[1] /\ more # <<>>
    BY <1>1, <1>2, <1>4
  <2>2. \A k \in 1 .. Len(ops) + 1 : more[k].id = more[1].id + k - 1
    <3> TAKE k \in 1 .. Len(ops) + 1
    <3>1. k \in Nat /\ ops[1].id \in Nat
      BY <1>1, <1>2, <1>4
    <3>2. CASE k \in 1 .. Len(ops)
      <4>1. ops[k].id = ops[1].id + k - 1
        BY <1>1, <3>2 DEF Run
      <4> QED
        BY <1>1, <2>1, <3>2, <4>1
    <3>3. CASE k = Len(ops) + 1
      BY <1>1, <1>4, <2>1, <3>1, <3>3
    <3> QED
      BY <1>1, <3>1, <3>2, <3>3
  <2>4. Run(more)
    BY <1>1, <2>2 DEF Run
  <2>3. op.id + 1 = more[1].id + Len(more)
    BY <1>1, <1>2, <1>4, <2>1
  <2> QED
    BY <2>1, <2>3, <2>4 DEF more
<1> QED
  BY <1>3, <1>4

\* One more transaction is delivered.
LEMMA WholeDelivered ==
  ASSUME CallOK, LeavesWhole, NEW ops \in Seq(Op), NEW confirmed \in BOOLEAN, Run(ops),
         delivered' = Append(delivered, [ops |-> ops, confirmed |-> confirmed]), signed' = signed
  PROVE  LeavesWhole'
<1> DEFINE d == [ops |-> ops, confirmed |-> confirmed]
<1>1. d \in [ops : Seq(Op), confirmed : BOOLEAN] /\ d.ops = ops /\ delivered' = Append(delivered, d)
  OBVIOUS
<1> HIDE DEF d
<1>2. \A i \in DOMAIN delivered' : \/ i \in DOMAIN delivered /\ delivered'[i] = delivered[i]
                                   \/ delivered'[i] = d
  BY <1>1, DeliveredAppended
<1>3. \A i \in DOMAIN delivered' : Run(delivered'[i].ops)
  BY <1>1, <1>2 DEF LeavesWhole
<1> QED
  BY <1>3 DEF LeavesWhole

\* What the outbox does by itself.
LEMMA OwnStepRuns ==
  ASSUME CallOK, SessionInv, RunsInv, OwnStep, signed' = signed
  PROVE  RunsInv'
<1>1. session.ops \in Seq(Op) /\ Hand \in Seq(Op)
  BY HeldType
<1>2. Run(<<>>)
  BY DEF Run
<1>3. ~session.active => session.ops = <<>>
  BY DEF SessionInv
<1>4. CASE \/ Outbox!ChangeAuthor \/ Outbox!Open \/ Outbox!SubmitSession \/ UNCHANGED Outbox!outboxVars
           \/ Outbox!Fail \/ Outbox!Discard \/ Outbox!Crash
  <2>1. UNCHANGED <<issued, delivered>>
    BY <1>4 DEF Outbox!ChangeAuthor, Outbox!Open, Outbox!SubmitSession, Outbox!Fail, Outbox!Discard,
                Outbox!Crash, Outbox!outboxVars
  <2>2. session'.ops = session.ops \/ session'.ops = <<>>
    BY <1>4 DEF Outbox!ChangeAuthor, Outbox!Open, Outbox!SubmitSession, Outbox!Fail, Outbox!Discard,
                Outbox!Crash, Outbox!outboxVars
  <2>3. Hand' = Hand \/ Hand' = <<>>
    BY <1>4 DEF Hand, Outbox!ChangeAuthor, Outbox!Open, Outbox!SubmitSession, Outbox!Fail, Outbox!Discard,
                Outbox!Crash, Outbox!outboxVars
  <2> QED
    BY <1>2, <2>1, <2>2, <2>3 DEF RunsInv, LeavesWhole
<1>5. CASE Outbox!Stage \/ Outbox!SubmitAlone
  <2> DEFINE op == Outbox!NewOp
  <2>1. op \in Op /\ op.id = issued /\ issued' = issued + 1 /\ delivered' = delivered
    BY <1>5 DEF Outbox!Stage, Outbox!SubmitAlone, Outbox!NewOp, Op, CallOK, TypeOK
  <2>2. CASE Outbox!Stage
    <3>1. session'.ops = Append(session.ops, op) /\ Hand' = Hand
      BY <2>2 DEF Outbox!Stage, Hand
    <3> HIDE DEF op
    <3>2. /\ Run(Append(session.ops, op))
          /\ op.id + 1 = Append(session.ops, op)[1].id + Len(Append(session.ops, op))
      BY <1>1, <2>1, RunGrows DEF RunsInv
    <3> QED
      BY <2>1, <3>1, <3>2 DEF RunsInv, LeavesWhole
  <2>3. CASE Outbox!SubmitAlone
    <3>1. session'.ops = session.ops /\ session.ops = <<>> /\ Hand' = <<op>>
      BY <1>3, <2>3 DEF Outbox!SubmitAlone, Hand
    <3> HIDE DEF op
    <3>2. Run(<<op>>)
      BY <2>1 DEF Run, Op
    <3> QED
      BY <2>1, <3>1, <3>2 DEF RunsInv, LeavesWhole
  <2> QED
    BY <1>5, <2>2, <2>3
<1>6. ASSUME NEW confirmed \in BOOLEAN, Outbox!Deliver(confirmed) PROVE RunsInv'
  <2> DEFINE ops == IF Hand # <<>> THEN Hand ELSE session.ops
  <2>1. /\ Hand' = <<>> /\ issued' = issued
        /\ delivered' = Append(delivered, [ops |-> ops, confirmed |-> confirmed])
        /\ session'.ops = <<>> \/ session'.ops = session.ops
    BY <1>6 DEF Hand, Outbox!Deliver
  <2>2. ops \in Seq(Op) /\ Run(ops)
    BY <1>1 DEF RunsInv
  <2> HIDE DEF ops
  <2>3. LeavesWhole'
    BY <2>1, <2>2, WholeDelivered DEF RunsInv
  <2> QED
    BY <1>2, <2>1, <2>3 DEF RunsInv
<1> QED
  BY <1>4, <1>5, <1>6 DEF OwnStep

LEMMA RunsStep ==
  ASSUME CallOK, SessionInv, RunsInv, [Next]_vars
  PROVE  RunsInv'
<1>1. CASE OwnStep /\ signed' = signed
  BY <1>1, OwnStepRuns
<1>2. CASE SubmitSessionOffline
  <2> DEFINE t == [signer |-> key, ops |-> session.ops, nonce |-> nonceMode,
                   rc |-> rcLimit.value, chain |-> chainID, payer |-> PayerAddress]
  <2>1. /\ signed' = signed \cup {t} /\ session' = NoSession /\ pc' = "prompt"
        /\ UNCHANGED <<issued, delivered>>
    BY <1>2 DEF SubmitSessionOffline, AtPrompt
  <2>2. t.ops = session.ops
    OBVIOUS
  <2> HIDE DEF t
  <2>3. session'.ops = <<>> /\ Hand' = <<>>
    BY <2>1, StaysAtPrompt DEF NoSession
  <2> QED
    BY <2>1, <2>2, <2>3 DEF RunsInv, LeavesWhole, Run
<1>3. ASSUME NEW t \in signed, RawSubmit(t) PROVE RunsInv'
  <2>1. UNCHANGED <<session, pc, call, issued, signed>> /\ t.ops \in Seq(Op) /\ Run(t.ops)
    BY <1>3 DEF RawSubmit, RunsInv, LeavesWhole, CallOK, TypeOK, SignedTx
  <2>2. PICK confirmed \in BOOLEAN : delivered' = Append(delivered, [ops |-> t.ops, confirmed |-> confirmed])
    BY <1>3 DEF RawSubmit
  <2>3. Hand' = Hand
    BY <2>1 DEF Hand, Submitting
  <2>4. LeavesWhole'
    BY <2>1, <2>2, WholeDelivered DEF RunsInv
  <2> QED
    BY <2>1, <2>3, <2>4 DEF RunsInv
<1> QED
  BY <1>1, <1>2, <1>3, SessionStep

\* A transaction that leaves, delivered or signed for later, holds operations that
\* were issued one right after the other: a session never loses one, takes one
\* twice or in another order (session.go:34-46, commands.go:1290-1387).
THEOREM TransactionsLeaveWhole == Spec => []LeavesWhole
<1>1. Init => CallOK /\ SessionInv /\ RunsInv
  BY CallOKInit, OutboxInitial DEF Init, NoSession, RunsInv, Run, LeavesWhole, Hand, Submitting
<1>2. CallOK /\ SessionInv /\ RunsInv /\ [Next]_vars => (CallOK /\ SessionInv /\ RunsInv)'
  BY CallOKStep, SessionStep, RunsStep
<1>3. RunsInv => LeavesWhole
  BY DEF RunsInv
<1> QED
  BY <1>1, <1>2, <1>3, PTL DEF Spec

-------------------------------------------------------------------------------
\* Settings

LimitSet == rcLimit.absolute /\ rcLimit.value # 0

\* The command in flight carries the settings as far as it has got; where the code
\* would query a value, it is one the settings left open.
SettingsInv ==
  /\ Submitting /\ pc \in {"pendingNonce", "accountNonce"} => nonceMode = AutoMode
  /\ Submitting /\ pc \notin {"pendingNonce", "accountNonce"} /\ nonceMode \notin {AutoMode, 0} =>
       call.nonce = nonceMode
  /\ Submitting /\ LimitSet => call.rc = rcLimit.value
  /\ pc = "chainNonce" => call.nonce = 0
  /\ pc = "accountRc" => ~rcLimit.absolute
  /\ pc = "wholeRc" => ~LimitSet
  /\ pc # "prompt" => call.payer = IF payer = Me THEN call.signer ELSE payer

LEMMA PromptKeepsSettings ==
  ASSUME pc' = "prompt"
  PROVE  SettingsInv'
BY StaysAtPrompt DEF SettingsInv

LEMMA SameCallKeepsSettings ==
  ASSUME SettingsInv, UNCHANGED settings, UNCHANGED call,
         pc' = pc \/ (pc = "submit" /\ pc' = "rcHint")
  PROVE  SettingsInv'
BY DEF SettingsInv, settings, Submitting, LimitSet

\* The command takes its nonce `n' and goes on.
LEMMA NonceKeepsSettings ==
  ASSUME NEW c \in Call, NEW n, call' = [c EXCEPT !.nonce = n], pc' = AfterNonce(n), UNCHANGED settings,
         c.purpose = "submit", nonceMode \notin {AutoMode, 0} => n = nonceMode,
         LimitSet => c.rc = rcLimit.value, c.payer = IF payer = Me THEN c.signer ELSE payer
  PROVE  SettingsInv'
<1>1. /\ call'.purpose = "submit" /\ call'.rc = c.rc /\ call'.payer = c.payer /\ call'.signer = c.signer
      /\ call'.nonce = n
  BY DEF Call
<1>2. UNCHANGED <<rcLimit, nonceMode, payer>> /\ LimitSet' = LimitSet
  BY DEF settings, LimitSet
<1>3. /\ pc' \in RpcCalls \ {"pendingNonce", "accountNonce"}
      /\ pc' = "chainNonce" => n = 0
      /\ pc' = "accountRc" => ~rcLimit.absolute
      /\ pc' = "wholeRc" => ~LimitSet
  BY AfterNonceType DEF AfterNonce, FirstMissing, LimitSet
<1> QED
  BY <1>1, <1>2, <1>3 DEF SettingsInv

\* A command starts to submit.
LEMMA StartKeepsSettings ==
  ASSUME CallOK, key \in Wallets, UNCHANGED settings, NEW ops \in Seq(Op), NEW fromSession \in BOOLEAN,
         SubmitTransaction(ops, fromSession)
  PROVE  SettingsInv'
<1> DEFINE c == NewCall("submit", ops, fromSession)
<1>1. c \in Call /\ c.purpose = "submit" /\ c.signer = key /\ c.payer = PayerAddress
      /\ c.rc = IF rcLimit.absolute THEN rcLimit.value ELSE 0
  BY NewCallType DEF CallOK, NewCall
<1>2. UseFixedNonce(c) \/ UseCachedNonce(c) \/ FetchNonce(c)
  BY DEF SubmitTransaction
<1> HIDE DEF c
<1>3. /\ LimitSet => c.rc = rcLimit.value
      /\ c.payer = IF payer = Me THEN c.signer ELSE payer
  BY <1>1 DEF LimitSet, PayerAddress
<1>4. CASE UseFixedNonce(c)
  BY <1>1, <1>3, <1>4, NonceKeepsSettings DEF UseFixedNonce
<1>5. CASE UseCachedNonce(c)
  <2>1. nonceMode = AutoMode /\ \E n : call' = [c EXCEPT !.nonce = n] /\ pc' = AfterNonce(n)
    BY <1>5 DEF UseCachedNonce
  <2> QED
    BY <1>1, <1>3, <2>1, NonceKeepsSettings
<1>6. CASE FetchNonce(c)
  <2>1. nonceMode = AutoMode /\ call' = c /\ pc' = "pendingNonce"
    BY <1>6 DEF FetchNonce
  <2>2. UNCHANGED <<rcLimit, nonceMode, payer>> /\ LimitSet' = LimitSet
    BY DEF settings, LimitSet
  <2> QED
    BY <1>1, <1>3, <2>1, <2>2 DEF SettingsInv
<1> QED
  BY <1>2, <1>4, <1>5, <1>6

LEMMA CommandsKeepSettings ==
  ASSUME CallOK, SettingsInv, UserCommand
  PROVE  SettingsInv'
<1>1. pc = "prompt" /\ session.ops \in Seq(Op) /\ issued \in Nat
      /\ (key # NoKey => key \in Wallets)
  BY DEF UserCommand, OpenWallet, CloseWallet, Connect, Disconnect, SetNonce, SetRcLimit, SetPayer, SetChainID,
         ShowNonce, BeginSession, CancelSession, OperationCommand, SubmitEmptySession, SubmitSessionOnline,
         SubmitSessionOffline, RawSubmit, AtPrompt, CallOK, TypeOK, Session
<1>2. CASE pc' = "prompt"
  BY <1>2, PromptKeepsSettings
<1>3. CASE ShowNonce
  <2> DEFINE c == NewCall("view", <<>>, FALSE)
  <2>1. call' = c /\ pc' = "pendingNonce" /\ UNCHANGED settings
    BY <1>3 DEF ShowNonce, FetchNonce
  <2>2. c.purpose = "view" /\ c.payer = IF payer = Me THEN c.signer ELSE payer
    BY DEF NewCall, PayerAddress
  <2> HIDE DEF c
  <2> QED
    BY <2>1, <2>2 DEF SettingsInv, Submitting, settings
<1>4. CASE OperationCommand
  <2> DEFINE op == [id |-> issued, author |-> key]
  <2>1. key \in Wallets /\ UNCHANGED settings /\ AddOrSubmit(op)
    BY <1>1, <1>4 DEF OperationCommand, CanIssue
  <2>2. <<op>> \in Seq(Op)
    BY <1>1, <2>1 DEF Op
  <2> HIDE DEF op
  <2> QED
    BY <1>1, <1>2, <2>1, <2>2, StartKeepsSettings DEF AddOrSubmit
<1>5. CASE SubmitSessionOnline
  BY <1>1, <1>5, StartKeepsSettings DEF SubmitSessionOnline
<1> QED
  BY <1>1, <1>2, <1>3, <1>4, <1>5
  DEF UserCommand, OpenWallet, CloseWallet, Connect, Disconnect, SetNonce, SetRcLimit, SetPayer, SetChainID,
      BeginSession, CancelSession, SubmitEmptySession, SubmitSessionOffline, RawSubmit

\* The answers.
LEMMA AnswersKeepSettings ==
  ASSUME CallOK, SessionInv, SettingsInv, RpcReturns
  PROVE  SettingsInv'
<1>1. pc # "prompt" /\ UNCHANGED settings
  BY DEF RpcReturns, PendingNonceAnswer, AccountNonceAnswer, AccountRcAnswer, WholeRcAnswer, ChainNonceAnswer,
         ChainIdAnswer, SubmitConfirmed, SubmitReplyLost, SubmitRefused, ParametersFail, SubmissionFails,
         RcHintReturns, RpcLeaves
<1>2. call \in Call /\ call.purpose \in {"view", "submit"}
  BY <1>1, CallType
<1>3. UNCHANGED <<rcLimit, nonceMode, payer>> /\ LimitSet' = LimitSet
  BY <1>1 DEF settings, LimitSet
<1>4. CASE ReturnToPrompt
  BY <1>4, PromptKeepsSettings DEF ReturnToPrompt
<1>5. ASSUME NEW n, pc \in {"pendingNonce", "accountNonce"}, NonceFetched(n) PROVE SettingsInv'
  <2>1. CASE call.purpose = "submit" /\ call' = [call EXCEPT !.nonce = n + 1] /\ pc' = AfterNonce(n + 1)
    <3>1. nonceMode = AutoMode /\ (LimitSet => call.rc = rcLimit.value)
          /\ call.payer = IF payer = Me THEN call.signer ELSE payer
      BY <1>1, <1>5, <2>1 DEF SettingsInv, Submitting
    <3> QED
      BY <1>1, <1>2, <2>1, <3>1, NonceKeepsSettings
  <2> QED
    BY <1>4, <1>5, <2>1 DEF NonceFetched
<1>6. CASE PendingNonceAnswer
  <2>1. CASE pc' = "accountNonce" /\ call' = call
    BY <1>3, <1>6, <2>1 DEF PendingNonceAnswer, SettingsInv, Submitting
  <2> QED
    BY <1>5, <1>6, <2>1 DEF PendingNonceAnswer
<1>7. CASE AccountNonceAnswer
  BY <1>5, <1>7 DEF AccountNonceAnswer
<1>8. ASSUME pc \in {"accountRc", "chainNonce", "wholeRc", "chainId"} PROVE Submitting
  BY <1>2, <1>8 DEF SessionInv, Submitting
<1>9. ASSUME NEW rc \in RcValues, AccountRcAnswer(rc) PROVE SettingsInv'
  <2>1. /\ call'.nonce = call.nonce /\ call'.payer = call.payer /\ call'.signer = call.signer
    BY <1>2, <1>9 DEF AccountRcAnswer, Call
  <2>2. pc = "accountRc" /\ pc' = FirstMissing(call.nonce, RelativeLimit(rc)) /\ ~LimitSet
    BY <1>9 DEF AccountRcAnswer, SettingsInv, LimitSet
  <2>3. pc' \in {"chainNonce", "wholeRc", "chainId"} /\ (pc' = "chainNonce" => call.nonce = 0)
    BY <2>2 DEF FirstMissing
  <2> QED
    BY <1>3, <1>8, <2>1, <2>2, <2>3 DEF SettingsInv
<1>10. ASSUME NEW rc \in RcValues, WholeRcAnswer(rc) PROVE SettingsInv'
  <2>1. /\ call'.nonce = call.nonce /\ call'.payer = call.payer /\ call'.signer = call.signer
    BY <1>2, <1>10 DEF WholeRcAnswer, Call
  <2>2. pc = "wholeRc" /\ pc' = "chainId" /\ ~LimitSet
    BY <1>10 DEF WholeRcAnswer, SettingsInv
  <2> QED
    BY <1>3, <1>8, <2>1, <2>2 DEF SettingsInv
<1>11. CASE ChainNonceAnswer
  <2> DEFINE next == accountNonce[client][call.signer] + 1
  <2>1. pc = "chainNonce" /\ call' = [call EXCEPT !.nonce = next] /\ pc' = FirstMissing(next, call.rc)
    BY <1>11 DEF ChainNonceAnswer
  <2>2. /\ call'.nonce = next /\ call'.rc = call.rc
        /\ call'.payer = call.payer /\ call'.signer = call.signer
    BY <1>2, <2>1 DEF Call
  <2> HIDE DEF next
  <2>3. /\ pc' \in {"chainNonce", "wholeRc", "chainId"}
        /\ pc' = "chainNonce" => next = 0
        /\ pc' = "wholeRc" => call.rc = 0
    BY <2>1 DEF FirstMissing
  <2>4. Submitting
    BY <1>8, <2>1
  <2>5. nonceMode \in {AutoMode, 0}
    BY <2>1, <2>4 DEF SettingsInv
  <2>6. LimitSet => call.rc = rcLimit.value /\ call.rc # 0
    BY <2>4 DEF SettingsInv, LimitSet
  <2>7. call.payer = IF payer = Me THEN call.signer ELSE payer
    BY <1>1 DEF SettingsInv
  <2> QED
    BY <1>3, <2>2, <2>3, <2>5, <2>6, <2>7 DEF SettingsInv
<1>12. CASE ChainIdAnswer
  <2>1. call' = [call EXCEPT !.chain = client] /\ pc = "chainId" /\ pc' = "submit"
    BY <1>12 DEF ChainIdAnswer
  <2>2. /\ call'.nonce = call.nonce /\ call'.rc = call.rc
        /\ call'.payer = call.payer /\ call'.signer = call.signer
    BY <1>2, <2>1 DEF Call
  <2> QED
    BY <1>3, <1>8, <2>1, <2>2 DEF SettingsInv
<1>13. CASE SubmitRefused
  <2>1. CASE pc' = "rcHint" /\ call' = call
    BY <1>1, <1>13, <2>1, SameCallKeepsSettings DEF SubmitRefused
  <2> QED
    BY <1>4, <1>13, <2>1 DEF SubmitRefused
<1>14. CASE SubmitConfirmed \/ SubmitReplyLost \/ ParametersFail \/ SubmissionFails \/ RcHintReturns
  BY <1>4, <1>14 DEF SubmitConfirmed, SubmitReplyLost, ParametersFail, SubmissionFails, RcHintReturns
<1> QED
  BY <1>6, <1>7, <1>9, <1>10, <1>11, <1>12, <1>13, <1>14 DEF RpcReturns

LEMMA SettingsInvStep ==
  ASSUME CallOK, SessionInv, SettingsInv, [Next]_vars
  PROVE  SettingsInv'
<1>1. CASE UNCHANGED vars
  <2>1. UNCHANGED settings /\ UNCHANGED call /\ pc' = pc
    BY <1>1 DEF vars, settings
  <2> QED
    BY <2>1, SameCallKeepsSettings
<1>2. CASE Environment
  <2>1. CASE Restart
    BY <2>1, PromptKeepsSettings DEF Restart, ReturnToPrompt
  <2>2. ~Restart => UNCHANGED settings /\ UNCHANGED call /\ pc' = pc
    BY <1>2 DEF Environment, OtherClientSubmits, BlockProduced, NonceExpires, settings
  <2> QED
    BY <2>1, <2>2, SameCallKeepsSettings
<1> QED
  BY <1>1, <1>2, CommandsKeepSettings, AnswersKeepSettings DEF Next

\* A transaction that is sent carries the nonce, the absolute limit and the payer
\* that are set at that moment, whichever way through the missing parameters the
\* handler took (interpreter.go:311-326, rpc.go:219-242).
THEOREM SettingsFollowed == Spec => []SubmissionFollowsSettings
<1>1. Init => CallOK /\ SessionInv /\ SettingsInv
  BY CallOKInit, OutboxInitial DEF Init, SettingsInv, Submitting
<1>2. CallOK /\ SessionInv /\ SettingsInv /\ [Next]_vars => (CallOK /\ SessionInv /\ SettingsInv)'
  BY CallOKStep, SessionStep, SettingsInvStep
<1>3. CallOK /\ SessionInv /\ SettingsInv => SubmissionFollowsSettings
  <2> SUFFICES ASSUME CallOK, SessionInv, SettingsInv, pc = "submit"
               PROVE  SubmissionFollowsSettings
    BY DEF SubmissionFollowsSettings
  <2>1. Submitting
    BY CallType DEF SessionInv, Submitting
  <2> QED
    BY <2>1 DEF SettingsInv, LimitSet, SubmissionFollowsSettings
<1> QED
  BY <1>1, <1>2, <1>3, PTL DEF Spec
=============================================================================
