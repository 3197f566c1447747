---------------------------- MODULE TokenTransfers ----------------------------
(***************************************************************************)
(* Transfers of one token (TokenTransferCommand, token_commands.go), alone *)
(* or in a transaction session, and the rc limit they are submitted with.  *)
(*                                                                         *)
(* As in ExecutionEnvironment a handler blocks at every RPC, and the world *)
(* moves meanwhile: here it is the balances and the credits that move.     *)
(* Nonce and chain id are left to that module.                             *)
(***************************************************************************)
EXTENDS RcLimit, Sequences

CONSTANTS Wallets,     \* the wallets the user may open
          Others,      \* further addresses
          NoKey,       \* ee.Key = nil
          Amounts,     \* amounts typed, in 1/Fine of the token's smallest unit
          Limits,      \* limits typed, in 1/(Unit * Fine)
          Credits,     \* resource credits an account may have
          Supply,      \* bound: the tokens there are
          MaxStaged    \* bound: operations in a session

Addresses == Wallets \cup Others
Unchecked == -1        \* a balance, or credits, nobody has asked for

ASSUME TransferConstants ==
  /\ NoKey \notin Wallets
  /\ Amounts \subseteq Nat /\ Limits \subseteq Nat /\ Credits \subseteq Nat
  /\ Supply \in Nat /\ MaxStaged \in Nat

VARIABLES
  key, online,  \* the open wallet; is there an RPC client
  rcLimit,      \* the setting
  session,      \* [active, ops]
  pc, call,     \* the RPC the command is blocked at, and what it has gathered
  balance,      \* the token contract's balances
  advice,       \* the rc limit advised by the last command, if any
  receipt       \* the last transaction that was applied, as the node saw it

transferVars == <<key, online, rcLimit, session, pc, call, balance, advice, receipt>>

\* `seen' is the balance the transfer was checked against.
Transfer == [from : Wallets, to : Addresses, value : Nat, seen : Nat \cup {Unchecked}]

NoCall    == [ops |-> <<>>]
NoReceipt == [ops |-> <<>>]
\* `credits' is what GetRcLimit was answered, `whole' what rpc.go was, if they asked.
Call == [ops : Seq(Transfer), fromSession : BOOLEAN, rc : Nat,
         credits : Nat \cup {Unchecked}, whole : Nat \cup {Unchecked}]
Receipt == [ops : Seq(Transfer), signer : Wallets, before : [Addresses -> Nat], reverted : BOOLEAN]

Init ==
  /\ key = NoKey /\ online \in BOOLEAN
  /\ rcLimit = [value |-> Unit \div 10, absolute |-> FALSE]
  /\ session = [active |-> FALSE, ops |-> <<>>]
  /\ pc = "prompt" /\ call = NoCall
  /\ \E a \in Addresses : balance = [b \in Addresses |-> IF b = a THEN Supply ELSE 0]
  /\ advice = {} /\ receipt = NoReceipt

AtPrompt       == pc = "prompt" /\ advice' = {} /\ receipt' = NoReceipt
ReturnToPrompt == pc' = "prompt" /\ call' = NoCall

-------------------------------------------------------------------------------
\* The token contract: balances after the first k transfers of a transaction
\* signed by `signer', and the transfers it refuses.  One refused reverts all.

Moved(b, op) ==
  LET paid == [b EXCEPT ![op.from] = @ - op.value]
  IN  [paid EXCEPT ![op.to] = @ + op.value]
After(ops, before) ==
  LET f[k \in 0 .. Len(ops)] == IF k = 0 THEN before ELSE Moved(f[k - 1], ops[k])
  IN f
Refused(ops, signer, before) ==
  {k \in DOMAIN ops : \/ ops[k].from # signer
                      \/ After(ops, before)[k - 1][ops[k].from] < ops[k].value}

-------------------------------------------------------------------------------
\* Commands

OpenOrClose(k) ==
  /\ AtPrompt
  /\ key' = k
  /\ UNCHANGED <<online, rcLimit, session, pc, call, balance>>

ConnectOrDisconnect ==
  /\ AtPrompt
  /\ online' = ~online
  /\ UNCHANGED <<key, rcLimit, session, pc, call, balance>>

SetRcLimit(typed, absolute) ==
  /\ AtPrompt
  /\ InBounds(typed, absolute)
  /\ rcLimit' = Stored(typed, absolute)
  /\ UNCHANGED <<key, online, session, pc, call, balance>>

\* The user types the example that was printed.
TakeAdvice == \E a \in advice : SetRcLimit(a.value * Fine, a.absolute)

BeginOrCancel ==
  /\ AtPrompt /\ key # NoKey
  /\ session' = [active |-> ~session.active, ops |-> <<>>]
  /\ UNCHANGED <<key, online, rcLimit, pc, call, balance>>

\* SubmitTransaction up to its first RPC about credits.  A limit of 0 is taken for
\* missing, and all credits are queried and offered.
Submit(ops, fromSession) ==
  LET c == [ops |-> ops, fromSession |-> fromSession, rc |-> 0,
            credits |-> Unchecked, whole |-> Unchecked] IN
  \/ ~rcLimit.absolute /\ pc' = "accountRc" /\ call' = c
  \/ /\ rcLimit.absolute
     /\ call' = [c EXCEPT !.rc = rcLimit.value]
     /\ pc' = IF rcLimit.value = 0 THEN "wholeRc" ELSE "submit"

\* How a transfer ends: into the session, or submitted alone.
AddOrSubmit(op) ==
  \/ /\ session.active
     /\ session' = [session EXCEPT !.ops = Append(@, op)]
     /\ ReturnToPrompt
  \/ ~session.active /\ Submit(<<op>>, FALSE) /\ UNCHANGED session

Room == session.active => Len(session.ops) < MaxStaged

\* <token>.transfer, offline: the balance is not checked.
TransferOffline(to, typed) ==
  /\ AtPrompt /\ Room
  /\ key # NoKey /\ ~online /\ session.active
  /\ Satoshi(typed) > 0
  /\ AddOrSubmit([from |-> key, to |-> to, value |-> Satoshi(typed), seen |-> Unchecked])
  /\ UNCHANGED <<key, online, rcLimit, balance>>

\* <token>.transfer, online: it blocks at the query of the balance.
TransferOnline(to, typed) ==
  /\ AtPrompt /\ Room
  /\ key # NoKey /\ online
  /\ Satoshi(typed) > 0
  /\ pc' = "balance"
  /\ call' = [ops |-> <<[from |-> key, to |-> to, value |-> Satoshi(typed), seen |-> Unchecked]>>,
              fromSession |-> FALSE, rc |-> 0, credits |-> Unchecked, whole |-> Unchecked]
  /\ UNCHANGED <<key, online, rcLimit, session, balance>>

\* Mutant of SubmitSession: the wallet may be closed.
SubmitSessionClosed ==
  /\ AtPrompt /\ online
  /\ session.active /\ session.ops # <<>>
  /\ Submit(session.ops, TRUE)
  /\ UNCHANGED <<key, online, rcLimit, session, balance>>

\* `session submit' with an endpoint; without one it signs and prints the
\* transaction, which is in ExecutionEnvironment.
SubmitSession ==
  /\ AtPrompt
  /\ key # NoKey /\ online
  /\ session.active /\ session.ops # <<>>
  /\ Submit(session.ops, TRUE)
  /\ UNCHANGED <<key, online, rcLimit, session, balance>>

-------------------------------------------------------------------------------
\* Answers of the endpoint

Outputs == <<advice, receipt>>
Leaves  == UNCHANGED <<key, online, rcLimit>>

\* Mutant of BalanceAnswer: the balance of the recipient is checked.
BalanceAnswerRecipient ==
  /\ pc = "balance"
  /\ LET op == call.ops[1] IN
       \/ balance[op.to] < op.value /\ ReturnToPrompt /\ UNCHANGED session
       \/ balance[op.to] >= op.value /\ AddOrSubmit([op EXCEPT !.seen = balance[op.from]])
  /\ Leaves /\ UNCHANGED <<balance, Outputs>>

\* retrieveBalance has returned: the transfer is refused, or goes on.
BalanceAnswer ==
  /\ pc = "balance"
  /\ LET op == call.ops[1]
         b  == balance[op.from]
     IN \/ b < op.value /\ ReturnToPrompt /\ UNCHANGED session
        \/ b >= op.value /\ AddOrSubmit([op EXCEPT !.seen = b])
  /\ Leaves /\ UNCHANGED <<balance, Outputs>>

\* Mutant of AccountRcAnswer: the percentage is ignored.
AccountRcAnswerAll(credits) ==
  /\ pc = "accountRc"
  /\ call' = [call EXCEPT !.rc = credits, !.credits = credits]
  /\ pc' = IF credits = 0 THEN "wholeRc" ELSE "submit"
  /\ Leaves /\ UNCHANGED <<session, balance, Outputs>>

AccountRcAnswer(credits) ==
  /\ pc = "accountRc"
  /\ call' = [call EXCEPT !.rc = Relative(rcLimit, credits), !.credits = credits]
  /\ pc' = IF Relative(rcLimit, credits) = 0 THEN "wholeRc" ELSE "submit"
  /\ Leaves /\ UNCHANGED <<session, balance, Outputs>>

WholeRcAnswer(credits) ==
  /\ pc = "wholeRc"
  /\ call' = [call EXCEPT !.rc = credits, !.whole = credits]
  /\ pc' = "submit"
  /\ Leaves /\ UNCHANGED <<session, balance, Outputs>>

\* The node applies the transaction, or reverts it and says so in the receipt.
\* Either way the session is over; if the answer is lost it is not.
Applied(answered) ==
  /\ pc = "submit"
  /\ LET reverted == Refused(call.ops, key, balance) # {} IN
       /\ balance' = IF reverted THEN balance ELSE After(call.ops, balance)[Len(call.ops)]
       /\ receipt' = [ops |-> call.ops, signer |-> key, before |-> balance, reverted |-> reverted]
  /\ session' = IF answered /\ call.fromSession THEN [active |-> FALSE, ops |-> <<>>] ELSE session
  /\ ReturnToPrompt
  /\ Leaves /\ UNCHANGED advice

\* "insufficient rc": a percentage is advised on at once, an absolute limit after
\* another query of the credits.
InsufficientRc ==
  /\ pc = "submit"
  /\ \/ rcLimit.absolute /\ pc' = "rcHint" /\ UNCHANGED <<call, advice>>
     \/ ~rcLimit.absolute /\ ReturnToPrompt /\ advice' = Advice(rcLimit, 0)
  /\ Leaves /\ UNCHANGED <<session, balance, receipt>>

RcHintAnswer(credits) ==
  /\ pc = "rcHint"
  /\ advice' = Advice(rcLimit, credits)
  /\ ReturnToPrompt
  /\ Leaves /\ UNCHANGED <<session, balance, receipt>>

\* Any RPC may fail, and with it the command.
RpcFails ==
  /\ pc # "prompt"
  /\ ReturnToPrompt
  /\ Leaves /\ UNCHANGED <<session, balance, Outputs>>

\* Another program uses the token, maybe with the same key.
OthersTransfer(a, b, value) ==
  /\ a # b /\ value <= balance[a]
  /\ balance' = [balance EXCEPT ![a] = @ - value, ![b] = @ + value]
  /\ receipt' = NoReceipt
  /\ Leaves /\ UNCHANGED <<session, pc, call, advice>>

Next ==
  \/ \E k \in Wallets \cup {NoKey} : OpenOrClose(k)
  \/ ConnectOrDisconnect \/ BeginOrCancel \/ TakeAdvice
  \/ \E typed \in Limits, absolute \in BOOLEAN : SetRcLimit(typed, absolute)
  \/ \E to \in Addresses, typed \in Amounts : TransferOffline(to, typed) \/ TransferOnline(to, typed)
  \/ SubmitSession \/ BalanceAnswer
  \/ \E credits \in Credits : AccountRcAnswer(credits) \/ WholeRcAnswer(credits) \/ RcHintAnswer(credits)
  \/ \E answered \in BOOLEAN : Applied(answered)
  \/ InsufficientRc \/ RpcFails
  \/ \E a, b \in Addresses, value \in 1 .. Supply : OthersTransfer(a, b, value)

Spec == Init /\ [][Next]_transferVars

-------------------------------------------------------------------------------
\* Properties

\* The types of the settings, the session, the command in flight and the outputs.
TransferTypeOK ==
  /\ key \in Wallets \cup {NoKey} /\ online \in BOOLEAN
  /\ rcLimit \in Setting
  /\ session \in [active : BOOLEAN, ops : Seq(Transfer)]
  /\ \/ pc = "prompt" /\ call = NoCall
     \/ pc \in {"balance", "accountRc", "wholeRc", "submit", "rcHint"} /\ call \in Call /\ key \in Wallets
  /\ balance \in [Addresses -> Nat]
  /\ advice \subseteq Setting
  /\ receipt = NoReceipt \/ receipt \in Receipt

\* A transaction of the CLI is reverted only if the balance one of its transfers was
\* checked against (token_commands.go:333) is no longer there: others have spent
\* it, or the transfers before it in the same session have; if a transfer was
\* added offline, where nothing is checked; or if another wallet signs it.
RevertedOnlyIfSpent ==
  receipt # NoReceipt /\ receipt.reverted =>
    LET b == After(receipt.ops, receipt.before) IN
    \E k \in DOMAIN receipt.ops :
      LET op == receipt.ops[k] IN
      \/ op.from # receipt.signer \/ op.seen = Unchecked
      \/ b[k - 1][op.from] < op.seen

\* A percentage offers that part of the credits the account was said to have, rounded
\* down.  Only a part below the smallest unit, which rounds to 0, offers more: 0 stands
\* for `not provided' on the way (rpc.go:230), and all that a second query reports is offered.
PercentageHonoured ==
  pc = "submit" /\ ~rcLimit.absolute =>
    LET part == call.credits * rcLimit.value IN   \* in units of 1/Unit
    /\ part >= Unit => call.rc * Unit <= part /\ part < (call.rc + 1) * Unit
    /\ part < Unit  => call.rc = call.whole

\* The example of a higher limit is a limit `rclimit' accepts and stores as advised,
\* and, unless the limit is 0, it is higher: following it ends at the maximum.
AdviceHelps ==
  \A a \in advice :
    /\ InBounds(a.value * Fine, a.absolute)
    /\ Stored(a.value * Fine, a.absolute) = a
    /\ rcLimit.value > 0 => a.value > rcLimit.value
===============================================================================
