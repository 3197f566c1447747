------------------------- MODULE TokenTransfersProofs -------------------------
(***************************************************************************)
(* The arithmetic of the rc limit, for every unit and every amount of      *)
(* credits.                                                                *)
(***************************************************************************)
EXTENDS TokenTransfers, DataInduction, TLAPS

\* What division by a positive number is.
LEMMA Division ==
  ASSUME NEW a \in Nat, NEW n \in Nat \ {0}
  PROVE  /\ a \div n \in Nat
         /\ n * (a \div n) <= a
         /\ a < n * (a \div n) + n
BY SMTT(30)

LEMMA Product ==
  ASSUME NEW a \in Nat, NEW b \in Nat, NEW n \in Nat, a <= b
  PROVE  n * a \in Nat /\ n * a <= n * b
BY SMTT(30)

LEMMA Quotient ==
  ASSUME NEW a \in Nat, NEW n \in Nat \ {0}, NEW b \in Nat, a <= n * b
  PROVE  a \div n <= b
<1> DEFINE q == a \div n
<1>1. q \in Nat /\ n * q <= n * b
  BY Division
<1> HIDE DEF q
<1>2. ASSUME b + 1 <= q PROVE FALSE
  <2>1. n * (b + 1) <= n * q
    BY <1>1, <1>2, Product
  <2>2. n * (b + 1) = n * b + n
    BY SMTT(30)
  <2>3. n * q \in Nat /\ n * b \in Nat
    BY <1>1, Product
  <2> QED
    BY <1>1, <2>1, <2>2, <2>3
<1>3. q <= b
  BY <1>1, <1>2
<1> QED
  BY <1>3 DEF q

\* A part of the credits is rounded down, to 0 only below the smallest unit.
LEMMA RelativeBounds ==
  ASSUME NEW s \in Setting, NEW credits \in Nat
  PROVE  /\ Relative(s, credits) \in Nat /\ credits * s.value \in Nat
         /\ Relative(s, credits) * Unit <= credits * s.value
         /\ credits * s.value < (Relative(s, credits) + 1) * Unit
         /\ Relative(s, credits) = 0 <=> credits * s.value < Unit
<1> DEFINE part == credits * s.value
           q    == part \div Unit
<1>1. s.value \in Nat /\ Unit \in Nat \ {0}
  BY RcConstants DEF Setting
<1>2. part \in Nat
  BY <1>1, Product
<1> HIDE DEF part
<1>3. q \in Nat /\ Unit * q <= part /\ part < Unit * q + Unit
  BY <1>1, <1>2, Division
<1> HIDE DEF q
<1>4. q * Unit = Unit * q /\ (q + 1) * Unit = Unit * q + Unit /\ Unit * q \in Nat
  BY <1>1, <1>3, SMTT(30)
<1>5. q = 0 => Unit * q = 0
  BY <1>1
<1>6. q # 0 => Unit * q >= Unit
  <2> SUFFICES ASSUME q # 0 PROVE Unit * q >= Unit
    OBVIOUS
  <2>1. Unit * 1 <= Unit * q
    BY <1>1, <1>3, Product
  <2> QED
    BY <1>1, <2>1
<1>7. q = 0 <=> part < Unit
  BY <1>1, <1>2, <1>3, <1>4, <1>5, <1>6
<1> QED
  BY <1>2, <1>3, <1>4, <1>7 DEF Relative, part, q

\* A stored limit is typed back without loss.
LEMMA TypedBack ==
  ASSUME NEW v \in Nat
  PROVE  v * Fine \in Nat /\ Satoshi(v * Fine) = v
<1>1. Fine \in Nat \ {0} /\ v * Fine \in Nat /\ v * Fine = Fine * v
  BY RcConstants, Product
<1> DEFINE q == (v * Fine) \div Fine
<1>2. q \in Nat /\ Fine * q <= Fine * v /\ Fine * v < Fine * q + Fine
  BY <1>1, Division
<1>3. q <= v
  BY <1>1, Quotient
<1> HIDE DEF q
<1>4. ASSUME q + 1 <= v PROVE FALSE
  <2>1. Fine * (q + 1) <= Fine * v /\ Fine * q \in Nat
    BY <1>1, <1>2, <1>4, Product
  <2>2. Fine * (q + 1) = Fine * q + Fine
    BY <1>1, <1>2, SMTT(30)
  <2> QED
    BY <1>1, <1>2, <2>1, <2>2
<1>5. q = v
  BY <1>2, <1>3, <1>4
<1> QED
  BY <1>1, <1>5 DEF Satoshi, q

\* A limit as `rclimit' stores it.
Sound(s) == s \in Setting /\ (~s.absolute => s.value <= Unit)

\* What is typed within the bounds is stored as a limit.
LEMMA StoredSound ==
  ASSUME NEW typed \in Nat, NEW absolute \in BOOLEAN, InBounds(typed, absolute)
  PROVE  Sound(Stored(typed, absolute))
<1>1. Satoshi(typed) \in Nat
  BY RcConstants, Division DEF Satoshi
<1>2. ~absolute => Satoshi(typed) <= Unit
  BY RcConstants, Quotient DEF Satoshi, InBounds
<1> QED
  BY <1>1, <1>2 DEF Sound, Stored, Setting

\* What is advised is higher and can be typed.
LEMMA AdviceSound ==
  ASSUME NEW s, Sound(s), NEW credits \in Nat, NEW a \in Advice(s, credits)
  PROVE  /\ Sound(a)
         /\ InBounds(a.value * Fine, a.absolute) /\ Stored(a.value * Fine, a.absolute) = a
         /\ s.value > 0 => a.value > s.value
<1>1. s \in Setting /\ s.value \in Nat /\ Unit \in Nat \ {0} /\ Fine \in Nat \ {0}
  BY RcConstants DEF Sound, Setting
<1>2. a \in Setting /\ a.value \in Nat
      /\ (~a.absolute => a.value <= Unit)
      /\ (s.value > 0 => a.value > s.value)
  BY <1>1 DEF Advice, Setting, Sound
<1>3. ~a.absolute => Fine * a.value <= Fine * Unit
  BY <1>1, <1>2, Product
<1>4. a.value * Fine = Fine * a.value /\ Unit * Fine = Fine * Unit
  BY <1>1, <1>2
<1>5. InBounds(a.value * Fine, a.absolute)
  BY <1>3, <1>4 DEF InBounds
<1>6. Stored(a.value * Fine, a.absolute) = a
  BY <1>2, TypedBack DEF Stored, Setting
<1> QED
  BY <1>2, <1>5, <1>6 DEF Sound

-------------------------------------------------------------------------------
CallFields ==
  pc # "prompt" =>
    call = [ops |-> call.ops, fromSession |-> call.fromSession, rc |-> call.rc,
            credits |-> call.credits, whole |-> call.whole]

\* With a percentage, all credits are asked for only when the part came to 0.
RoundedToNothing ==
  pc = "wholeRc" /\ ~rcLimit.absolute =>
    /\ call.credits * rcLimit.value \in Nat
    /\ call.credits * rcLimit.value < Unit

\* The properties alone are not inductive: advice must have been given for the
\* limit that is still set, and the part must have come to 0 when all is asked for.
RcInv ==
  /\ Sound(rcLimit)
  /\ \A a \in advice : Sound(a)
  /\ CallFields /\ AdviceHelps /\ RoundedToNothing /\ PercentageHonoured

LEMMA RcInvInit == Init => RcInv
<1> SUFFICES ASSUME Init PROVE RcInv
  OBVIOUS
<1>1. Unit \in Nat /\ 10 \in Nat \ {0} /\ Unit <= 10 * Unit
  BY RcConstants
<1>2. Unit \div 10 \in Nat /\ Unit \div 10 <= Unit
  BY <1>1, Division, Quotient
<1> QED
  BY <1>2 DEF Init, RcInv, Sound, Setting, CallFields, AdviceHelps, RoundedToNothing, PercentageHonoured

\* What the properties say stays true while limit and advice do.
LEMMA Kept ==
  ASSUME RcInv, UNCHANGED rcLimit, advice' \subseteq advice,
         pc' = "prompt" \/ UNCHANGED <<pc, call>>
  PROVE  RcInv'
BY DEF RcInv, CallFields, AdviceHelps, RoundedToNothing, PercentageHonoured

\* A submission begins with a limit that is set, or with none yet.
LEMMA SubmitKept ==
  ASSUME RcInv, UNCHANGED rcLimit, advice' \subseteq advice,
         NEW ops, NEW fromSession, Submit(ops, fromSession)
  PROVE  RcInv'
<1>1. CallFields'
  BY DEF Submit, CallFields
<1>2. PercentageHonoured' /\ RoundedToNothing'
  BY DEF Submit, PercentageHonoured, RoundedToNothing
<1> QED
  BY <1>1, <1>2 DEF RcInv, AdviceHelps

LEMMA AddOrSubmitKept ==
  ASSUME RcInv, UNCHANGED rcLimit, advice' \subseteq advice, NEW op, AddOrSubmit(op)
  PROVE  RcInv'
BY Kept, SubmitKept DEF AddOrSubmit, ReturnToPrompt

LEMMA SetKept ==
  ASSUME RcInv, NEW typed \in Nat, NEW absolute \in BOOLEAN, SetRcLimit(typed, absolute)
  PROVE  RcInv'
<1>1. Sound(rcLimit')
  BY StoredSound DEF SetRcLimit
<1> QED
  BY <1>1 DEF SetRcLimit, AtPrompt, RcInv, CallFields, AdviceHelps, RoundedToNothing, PercentageHonoured

LEMMA AdviceKept ==
  ASSUME RcInv, UNCHANGED rcLimit, NEW credits \in Nat,
         advice' = Advice(rcLimit, credits), pc' = "prompt"
  PROVE  RcInv'
<1>1. Sound(rcLimit)
  BY DEF RcInv
<1>2. ASSUME NEW a \in advice'
      PROVE  /\ Sound(a)
             /\ InBounds(a.value * Fine, a.absolute) /\ Stored(a.value * Fine, a.absolute) = a
             /\ rcLimit.value > 0 => a.value > rcLimit.value
  BY <1>1, AdviceSound
<1> QED
  BY <1>1, <1>2 DEF RcInv, CallFields, AdviceHelps, RoundedToNothing, PercentageHonoured

LEMMA RcInvStep == ASSUME RcInv, [Next]_transferVars PROVE RcInv'
<1>1. CASE UNCHANGED transferVars
  BY <1>1, Kept DEF transferVars
<1>2. ASSUME NEW k \in Wallets \cup {NoKey}, OpenOrClose(k) PROVE RcInv'
  BY <1>2, Kept DEF OpenOrClose, AtPrompt
<1>3. CASE ConnectOrDisconnect \/ BeginOrCancel
  BY <1>3, Kept DEF ConnectOrDisconnect, BeginOrCancel, AtPrompt
<1>4. CASE TakeAdvice
  <2>1. PICK a \in advice : SetRcLimit(a.value * Fine, a.absolute)
    BY <1>4 DEF TakeAdvice
  <2>2. a.value * Fine \in Nat /\ a.absolute \in BOOLEAN
    BY TypedBack DEF RcInv, Sound, Setting
  <2> QED
    BY <2>1, <2>2, SetKept
<1>5. ASSUME NEW typed \in Limits, NEW absolute \in BOOLEAN, SetRcLimit(typed, absolute) PROVE RcInv'
  BY <1>5, SetKept, TransferConstants
<1>6. ASSUME NEW to \in Addresses, NEW typed \in Amounts, TransferOffline(to, typed) PROVE RcInv'
  BY <1>6, AddOrSubmitKept DEF TransferOffline, AtPrompt
<1>7. ASSUME NEW to \in Addresses, NEW typed \in Amounts, TransferOnline(to, typed) PROVE RcInv'
  BY <1>7 DEF TransferOnline, AtPrompt, RcInv, CallFields, AdviceHelps, RoundedToNothing, PercentageHonoured
<1>8. CASE SubmitSession
  BY <1>8, SubmitKept DEF SubmitSession, AtPrompt
<1>9. CASE BalanceAnswer
  BY <1>9, Kept, AddOrSubmitKept DEF BalanceAnswer, ReturnToPrompt, Leaves, Outputs
<1>10. ASSUME NEW credits \in Credits, AccountRcAnswer(credits) PROVE RcInv'
  <2> DEFINE rc   == Relative(rcLimit, credits)
             part == credits * rcLimit.value
  <2>1. credits \in Nat /\ rcLimit \in Setting
    BY TransferConstants DEF RcInv, Sound
  <2>2. /\ rc \in Nat /\ part \in Nat /\ rc * Unit <= part /\ part < (rc + 1) * Unit
        /\ rc = 0 <=> part < Unit
    BY <2>1, RelativeBounds
  <2>3. /\ call'.rc = rc /\ call'.credits = credits /\ CallFields'
        /\ pc' = IF rc = 0 THEN "wholeRc" ELSE "submit"
    BY <1>10 DEF AccountRcAnswer, RcInv, CallFields
  <2>4. UNCHANGED <<rcLimit, advice>>
    BY <1>10 DEF AccountRcAnswer, Leaves, Outputs
  <2>5. call'.credits * rcLimit'.value = part
    BY <2>3, <2>4
  <2> HIDE DEF rc, part
  <2>6. PercentageHonoured' /\ RoundedToNothing'
    BY <2>2, <2>3, <2>4, <2>5, RcConstants DEF PercentageHonoured, RoundedToNothing
  <2> QED
    BY <2>3, <2>4, <2>6 DEF RcInv, AdviceHelps
<1>11. ASSUME NEW credits \in Credits, WholeRcAnswer(credits) PROVE RcInv'
  <2> DEFINE part == call.credits * rcLimit.value
  <2>1. /\ call'.rc = credits /\ call'.whole = credits /\ call'.credits = call.credits
        /\ CallFields' /\ pc = "wholeRc" /\ pc' = "submit"
    BY <1>11 DEF WholeRcAnswer, RcInv, CallFields
  <2>2. UNCHANGED <<rcLimit, advice>>
    BY <1>11 DEF WholeRcAnswer, Leaves, Outputs
  <2>3. ~rcLimit.absolute => part \in Nat /\ part < Unit
    BY <2>1 DEF RcInv, RoundedToNothing
  <2>4. call'.credits * rcLimit'.value = part
    BY <2>1, <2>2
  <2> HIDE DEF part
  <2>5. PercentageHonoured' /\ RoundedToNothing'
    BY <2>1, <2>2, <2>3, <2>4, RcConstants DEF PercentageHonoured, RoundedToNothing
  <2> QED
    BY <2>1, <2>2, <2>5 DEF RcInv, AdviceHelps
<1>12. ASSUME NEW credits \in Credits, RcHintAnswer(credits) PROVE RcInv'
  BY <1>12, AdviceKept, TransferConstants DEF RcHintAnswer, ReturnToPrompt, Leaves
<1>13. ASSUME NEW answered \in BOOLEAN, Applied(answered) PROVE RcInv'
  BY <1>13, Kept DEF Applied, ReturnToPrompt, Leaves
<1>14. CASE InsufficientRc
  <2>1. CASE pc' = "rcHint" /\ UNCHANGED <<call, advice>>
    BY <1>14, <2>1 DEF InsufficientRc, Leaves, RcInv, CallFields, AdviceHelps, RoundedToNothing, PercentageHonoured
  <2>2. CASE ReturnToPrompt /\ advice' = Advice(rcLimit, 0)
    BY <1>14, <2>2, AdviceKept DEF InsufficientRc, ReturnToPrompt, Leaves
  <2> QED
    BY <1>14, <2>1, <2>2 DEF InsufficientRc
<1>15. CASE RpcFails
  BY <1>15, Kept DEF RpcFails, ReturnToPrompt, Leaves, Outputs
<1>16. ASSUME NEW a \in Addresses, NEW b \in Addresses, NEW value \in 1 .. Supply,
              OthersTransfer(a, b, value)
       PROVE  RcInv'
  BY <1>16, Kept DEF OthersTransfer, Leaves
<1> QED
  BY <1>1, <1>2, <1>3, <1>4, <1>5, <1>6, <1>7, <1>8, <1>9, <1>10, <1>11, <1>12, <1>13, <1>14,
     <1>15, <1>16 DEF Next

\* Whatever the unit, the credits and the limits typed: a percentage offers exactly
\* that part of the credits, rounded down, and all there is only when the part is below
\* the smallest unit (GetRcLimit, rpc.go:230).
THEOREM LimitsHonoured == Spec => []PercentageHonoured
<1>1. RcInv => PercentageHonoured
  BY DEF RcInv
<1> QED
  BY <1>1, RcInvInit, RcInvStep, PTL DEF Spec

\* Whatever limit is in force when a transaction runs out of it, what is advised is a
\* higher limit that `rclimit' accepts and stores as it is.
THEOREM AdviceAlwaysHelps == Spec => []AdviceHelps
<1>1. RcInv => AdviceHelps
  BY DEF RcInv
<1> QED
  BY <1>1, RcInvInit, RcInvStep, PTL DEF Spec

-------------------------------------------------------------------------------
\* Balances after some of the transfers of a transaction

LEMMA MovedType ==
  ASSUME NEW b \in [Addresses -> Int], NEW op \in Transfer
  PROVE  /\ Moved(b, op) \in [Addresses -> Int]
         /\ b \in [Addresses -> Nat] /\ b[op.from] >= op.value => Moved(b, op) \in [Addresses -> Nat]
<1> DEFINE c == [b EXCEPT ![op.from] = @ - op.value]
<1>1. op.from \in Addresses /\ op.to \in Addresses /\ op.value \in Nat
  BY DEF Transfer, Addresses
<1>2. Moved(b, op) = [c EXCEPT ![op.to] = @ + op.value]
  BY DEF Moved
<1>3. c \in [Addresses -> Int] /\ (b \in [Addresses -> Nat] /\ b[op.from] >= op.value => c \in [Addresses -> Nat])
  BY <1>1
<1> HIDE DEF c
<1> QED
  BY <1>1, <1>2, <1>3

\* The equation that defines After, on the first n transfers: it has a solution.
Solves(f, ops, before, n) ==
  f = [k \in 0 .. n |-> IF k = 0 THEN before ELSE Moved(f[k - 1], ops[k])]

LEMMA AfterExists ==
  ASSUME NEW ops, NEW before
  PROVE  \A n \in Nat : \E f : Solves(f, ops, before, n)
<1> DEFINE T == {n \in Nat : \E f : Solves(f, ops, before, n)}
<1>1. 0 \in T
  <2>1. Solves([k \in 0 .. 0 |-> before], ops, before, 0)
    BY DEF Solves
  <2> QED
    BY <2>1
<1>2. ASSUME NEW n \in T PROVE n + 1 \in T
  <2>1. PICK f : Solves(f, ops, before, n)
    OBVIOUS
  <2> DEFINE g == [k \in 0 .. n + 1 |-> IF k = n + 1 THEN Moved(f[n], ops[n + 1]) ELSE f[k]]
  <2>2. \A k \in 0 .. n : g[k] = f[k]
    OBVIOUS
  <2>3. ASSUME NEW k \in 0 .. n + 1
        PROVE  g[k] = IF k = 0 THEN before ELSE Moved(g[k - 1], ops[k])
    <3>1. CASE k = n + 1
      BY <2>2, <3>1
    <3>2. CASE k \in 0 .. n
      <4>1. f[k] = IF k = 0 THEN before ELSE Moved(f[k - 1], ops[k])
        BY <2>1, <3>2 DEF Solves
      <4>2. k # 0 => k - 1 \in 0 .. n
        BY <3>2
      <4> HIDE DEF g
      <4> QED
        BY <2>2, <3>2, <4>1, <4>2
    <3> QED
      BY <3>1, <3>2
  <2>4. Solves(g, ops, before, n + 1)
    <3>1. g = [k \in 0 .. n + 1 |-> g[k]]
      OBVIOUS
    <3> HIDE DEF g
    <3> QED
      BY <2>3, <3>1, Zenon DEF Solves
  <2> QED
    BY <2>4
<1>3. T = Nat
  BY <1>1, <1>2, NatSetInduction
<1> QED
  BY <1>3

LEMMA AfterDef ==
  ASSUME NEW ops \in Seq(Transfer), NEW before
  PROVE  /\ After(ops, before)[0] = before
         /\ \A k \in 1 .. Len(ops) : After(ops, before)[k] = Moved(After(ops, before)[k - 1], ops[k])
<1> DEFINE f == After(ops, before)
<1>1. Len(ops) \in Nat
  OBVIOUS
<1>2. \E g : Solves(g, ops, before, Len(ops))
  BY <1>1, AfterExists
<1>3. f = [k \in 0 .. Len(ops) |-> IF k = 0 THEN before ELSE Moved(f[k - 1], ops[k])]
  BY <1>2, Zenon DEF After, Solves
<1> HIDE DEF f
<1>4. 0 \in 0 .. Len(ops) /\ \A k \in 1 .. Len(ops) : k \in 0 .. Len(ops) /\ k # 0
  BY <1>1
<1>5. f[0] = before
  BY <1>3, <1>4
<1>6. \A k \in 1 .. Len(ops) : f[k] = Moved(f[k - 1], ops[k])
  BY <1>3, <1>4
<1> QED
  BY <1>5, <1>6 DEF f

\* Balances are integers after any number of transfers, and natural numbers as long
\* as none is refused for its amount.
LEMMA AfterType ==
  ASSUME NEW ops \in Seq(Transfer), NEW before \in [Addresses -> Nat]
  PROVE  \A k \in 0 .. Len(ops) :
           /\ After(ops, before)[k] \in [Addresses -> Int]
           /\ (\A j \in 1 .. k : After(ops, before)[j - 1][ops[j].from] >= ops[j].value)
              => After(ops, before)[k] \in [Addresses -> Nat]
<1> DEFINE f == After(ops, before)
           Covered(k) == \A j \in 1 .. k : f[j - 1][ops[j].from] >= ops[j].value
           Good(k) == f[k] \in [Addresses -> Int] /\ (Covered(k) => f[k] \in [Addresses -> Nat])
           T == {n \in Nat : n <= Len(ops) => Good(n)}
<1>1. f[0] = before /\ \A k \in 1 .. Len(ops) : f[k] = Moved(f[k - 1], ops[k])
  BY AfterDef
<1>2. Len(ops) \in Nat /\ \A k \in 1 .. Len(ops) : ops[k] \in Transfer
  OBVIOUS
<1> HIDE DEF f
<1>3. 0 \in T
  BY <1>1
<1>4. ASSUME NEW n \in T PROVE n + 1 \in T
  <2> SUFFICES ASSUME n + 1 <= Len(ops) PROVE Good(n + 1)
    OBVIOUS
  <2>1. Good(n) /\ n + 1 \in 1 .. Len(ops) /\ ops[n + 1] \in Transfer
    BY <1>2
  <2>2. f[n + 1] = Moved(f[n], ops[n + 1])
    BY <1>1, <2>1
  <2>3. Covered(n + 1) => Covered(n) /\ f[n][ops[n + 1].from] >= ops[n + 1].value
    OBVIOUS
  <2> HIDE DEF Covered
  <2> QED
    BY <2>1, <2>2, <2>3, MovedType
<1>5. T = Nat
  BY <1>3, <1>4, NatSetInduction
<1>6. ASSUME NEW k \in 0 .. Len(ops) PROVE Good(k)
  <2>1. k \in Nat /\ k <= Len(ops)
    BY <1>2
  <2> HIDE DEF Good
  <2> QED
    BY <1>5, <2>1
<1> QED
  BY <1>6 DEF f

-------------------------------------------------------------------------------
\* A transfer was checked against a balance it does not exceed, or not at all.
Checked(ops) == \A k \in DOMAIN ops : ops[k].seen = Unchecked \/ ops[k].seen >= ops[k].value

\* What was checked is what is held, by the session and by the command in flight,
\* which before the check is a single transfer.
TransferInv ==
  /\ TransferTypeOK /\ RevertedOnlyIfSpent
  /\ Checked(session.ops) /\ (pc # "prompt" => Checked(call.ops))
  /\ pc = "balance" => Len(call.ops) = 1

\* A refused transfer was checked against a balance that is gone.
LEMMA RefusedIsSpent ==
  ASSUME NEW ops \in Seq(Transfer), NEW signer \in Wallets, NEW before \in [Addresses -> Nat],
         Checked(ops), Refused(ops, signer, before) # {}
  PROVE  \E k \in DOMAIN ops : \/ ops[k].from # signer \/ ops[k].seen = Unchecked
                               \/ After(ops, before)[k - 1][ops[k].from] < ops[k].seen
<1>1. PICK k \in DOMAIN ops : \/ ops[k].from # signer
                              \/ After(ops, before)[k - 1][ops[k].from] < ops[k].value
  BY DEF Refused
<1>2. k \in 1 .. Len(ops) /\ ops[k] \in Transfer /\ k - 1 \in 0 .. Len(ops)
  OBVIOUS
<1>3. ops[k].from \in Addresses /\ ops[k].value \in Nat /\ ops[k].seen \in Int
  BY <1>2 DEF Transfer, Addresses, Unchecked
<1>4. After(ops, before)[k - 1] \in [Addresses -> Int]
  BY <1>2, AfterType
<1>5. After(ops, before)[k - 1][ops[k].from] \in Int
  BY <1>3, <1>4
<1>6. ops[k].seen = Unchecked \/ ops[k].seen >= ops[k].value
  BY DEF Checked
<1> QED
  BY <1>1, <1>3, <1>5, <1>6

LEMMA NotRefused ==
  ASSUME NEW ops \in Seq(Transfer), NEW signer \in Wallets, NEW before \in [Addresses -> Nat],
         Refused(ops, signer, before) = {}
  PROVE  After(ops, before)[Len(ops)] \in [Addresses -> Nat]
<1>1. Len(ops) \in Nat /\ Len(ops) \in 0 .. Len(ops) /\ DOMAIN ops = 1 .. Len(ops)
  OBVIOUS
<1>2. ASSUME NEW j \in 1 .. Len(ops)
      PROVE  After(ops, before)[j - 1][ops[j].from] >= ops[j].value
  <2>1. ops[j] \in Transfer /\ j - 1 \in 0 .. Len(ops)
    OBVIOUS
  <2>2. ops[j].from \in Addresses /\ ops[j].value \in Nat
    BY <2>1 DEF Transfer, Addresses
  <2>3. After(ops, before)[j - 1] \in [Addresses -> Int]
    BY <2>1, AfterType
  <2>4. After(ops, before)[j - 1][ops[j].from] \in Int
    BY <2>2, <2>3
  <2>5. ~(After(ops, before)[j - 1][ops[j].from] < ops[j].value)
    BY <1>1 DEF Refused
  <2> QED
    BY <2>2, <2>4, <2>5
<1> QED
  BY <1>1, <1>2, AfterType

LEMMA TransferInvInit == Init => TransferInv
<1> SUFFICES ASSUME Init PROVE TransferInv
  OBVIOUS
<1>1. Unit \in Nat /\ 10 \in Nat \ {0}
  BY RcConstants
<1>2. Unit \div 10 \in Nat
  BY <1>1, Division
<1>3. rcLimit \in Setting
  BY <1>2 DEF Init, Setting
<1>4. balance \in [Addresses -> Nat]
  BY TransferConstants DEF Init
<1>5. session \in [active : BOOLEAN, ops : Seq(Transfer)] /\ session.ops = <<>>
  BY DEF Init
<1> QED
  BY <1>3, <1>4, <1>5 DEF Init, TransferInv, TransferTypeOK, RevertedOnlyIfSpent, Checked

\* A command that has nothing in flight afterwards.
LEMMA Returned ==
  ASSUME TransferInv, pc' = "prompt", call' = NoCall, UNCHANGED <<key, online, session, balance>>,
         rcLimit' \in Setting, advice' \subseteq Setting,
         receipt' = NoReceipt \/ UNCHANGED receipt
  PROVE  TransferInv'
BY DEF TransferInv, TransferTypeOK, RevertedOnlyIfSpent

\* A submission begins with the limit that is set.
LEMMA SubmitTypes ==
  ASSUME TransferInv, key \in Wallets, NEW ops \in Seq(Transfer), Checked(ops),
         NEW fromSession \in BOOLEAN, Submit(ops, fromSession),
         UNCHANGED <<key, online, rcLimit, session, balance>>,
         advice' \subseteq Setting, receipt' = NoReceipt \/ UNCHANGED receipt
  PROVE  TransferInv'
<1>1. rcLimit.value \in Nat
  BY DEF TransferInv, TransferTypeOK, Setting
<1>2. call' \in Call /\ call'.ops = ops /\ pc' \in {"accountRc", "wholeRc", "submit"}
  BY <1>1 DEF Submit, Call
<1> QED
  BY <1>2 DEF TransferInv, TransferTypeOK, RevertedOnlyIfSpent

LEMMA AddOrSubmitTypes ==
  ASSUME TransferInv, key \in Wallets, NEW op \in Transfer,
         op.seen = Unchecked \/ op.seen >= op.value, AddOrSubmit(op),
         UNCHANGED <<key, online, rcLimit, balance>>,
         advice' \subseteq Setting, receipt' = NoReceipt \/ UNCHANGED receipt
  PROVE  TransferInv'
<1>1. CASE session.active
  <2>1. session' = [session EXCEPT !.ops = Append(@, op)] /\ pc' = "prompt" /\ call' = NoCall
    BY <1>1 DEF AddOrSubmit, ReturnToPrompt
  <2>2. session \in [active : BOOLEAN, ops : Seq(Transfer)] /\ Checked(session.ops)
    BY DEF TransferInv, TransferTypeOK
  <2>3. session' \in [active : BOOLEAN, ops : Seq(Transfer)] /\ Checked(session'.ops)
    <3> DEFINE ops == session.ops
    <3>1. ops \in Seq(Transfer) /\ session'.ops = Append(ops, op) /\ session'.active = session.active
      BY <2>1, <2>2
    <3>2. Append(ops, op) \in Seq(Transfer) /\ DOMAIN Append(ops, op) = 1 .. Len(ops) + 1
      BY <3>1
    <3>3. \A k \in 1 .. Len(ops) + 1 : Append(ops, op)[k] = IF k = Len(ops) + 1 THEN op ELSE ops[k]
      BY <3>1
    <3>4. \A k \in 1 .. Len(ops) + 1 : k # Len(ops) + 1 => k \in DOMAIN ops
      BY <3>1
    <3>5. Checked(Append(ops, op))
      BY <2>2, <3>2, <3>3, <3>4 DEF Checked
    <3> QED
      BY <2>1, <2>2, <3>1, <3>2, <3>5
  <2> QED
    BY <2>1, <2>3 DEF TransferInv, TransferTypeOK, RevertedOnlyIfSpent
<1>2. CASE ~session.active
  <2>1. <<op>> \in Seq(Transfer) /\ Checked(<<op>>)
    BY DEF Checked
  <2> QED
    BY <1>2, <2>1, SubmitTypes DEF AddOrSubmit
<1> QED
  BY <1>1, <1>2

LEMMA SettingTypes ==
  ASSUME TransferInv, NEW typed \in Nat, NEW absolute \in BOOLEAN, SetRcLimit(typed, absolute)
  PROVE  TransferInv'
<1>1. Satoshi(typed) \in Nat
  BY RcConstants, Division DEF Satoshi
<1>2. rcLimit' \in Setting
  BY <1>1 DEF SetRcLimit, Stored, Setting
<1> QED
  BY <1>2 DEF SetRcLimit, AtPrompt, TransferInv, TransferTypeOK, RevertedOnlyIfSpent

LEMMA AdviceType ==
  ASSUME TransferTypeOK, NEW credits \in Nat
  PROVE  Advice(rcLimit, credits) \subseteq Setting
BY RcConstants DEF TransferTypeOK, Advice, Setting

LEMMA RelativeType ==
  ASSUME TransferTypeOK, NEW credits \in Nat
  PROVE  Relative(rcLimit, credits) \in Nat
<1>1. rcLimit.value \in Nat /\ Unit \in Nat \ {0}
  BY RcConstants DEF TransferTypeOK, Setting
<1>2. credits * rcLimit.value \in Nat
  BY <1>1, Product
<1> QED
  BY <1>1, <1>2, Division DEF Relative

\* A command that gathers an answer and goes on with the same operations.
LEMMA Gathered ==
  ASSUME TransferInv, pc # "prompt", NEW rc \in Nat, NEW credits \in Nat,
         \/ call' = [call EXCEPT !.rc = rc, !.credits = credits]
         \/ call' = [call EXCEPT !.rc = rc, !.whole = credits],
         pc' \in {"accountRc", "wholeRc", "submit", "rcHint"},
         UNCHANGED <<key, online, rcLimit, session, balance, advice, receipt>>
  PROVE  TransferInv'
<1>1. call \in Call /\ key \in Wallets
  BY DEF TransferInv, TransferTypeOK
<1>2. call' \in Call /\ call'.ops = call.ops
  BY <1>1 DEF Call
<1> QED
  BY <1>1, <1>2 DEF TransferInv, TransferTypeOK, RevertedOnlyIfSpent

\* The node takes the transaction, or reverts it.
LEMMA AppliedTypes ==
  ASSUME TransferInv, NEW answered \in BOOLEAN, Applied(answered)
  PROVE  TransferInv'
<1> DEFINE ops == call.ops
           reverted == Refused(ops, key, balance) # {}
<1>1. /\ call \in Call /\ ops \in Seq(Transfer) /\ Checked(ops) /\ key \in Wallets
      /\ balance \in [Addresses -> Nat]
      /\ session \in [active : BOOLEAN, ops : Seq(Transfer)]
  BY DEF Applied, TransferInv, TransferTypeOK, Call
<1>2. /\ balance' = IF reverted THEN balance ELSE After(ops, balance)[Len(ops)]
      /\ receipt' = [ops |-> ops, signer |-> key, before |-> balance, reverted |-> reverted]
      /\ session' = IF answered /\ call.fromSession THEN [active |-> FALSE, ops |-> <<>>] ELSE session
      /\ pc' = "prompt" /\ call' = NoCall /\ UNCHANGED <<key, online, rcLimit, advice>>
  BY DEF Applied, ReturnToPrompt, Leaves
<1>3. balance' \in [Addresses -> Nat]
  BY <1>1, <1>2, NotRefused
<1>4. receipt' \in Receipt /\ reverted \in BOOLEAN
  BY <1>1, <1>2 DEF Receipt
<1>5. session' \in [active : BOOLEAN, ops : Seq(Transfer)] /\ Checked(session'.ops)
  BY <1>1, <1>2 DEF TransferInv, Checked
<1>6. RevertedOnlyIfSpent'
  <2>1. reverted => \E k \in DOMAIN ops : \/ ops[k].from # key \/ ops[k].seen = Unchecked
                                          \/ After(ops, balance)[k - 1][ops[k].from] < ops[k].seen
    BY <1>1, RefusedIsSpent
  <2>2. /\ receipt'.ops = ops /\ receipt'.signer = key /\ receipt'.before = balance
        /\ receipt'.reverted = reverted
    BY <1>2
  <2> HIDE DEF ops, reverted
  <2> QED
    BY <2>1, <2>2 DEF RevertedOnlyIfSpent
<1> HIDE DEF ops, reverted
<1> QED
  BY <1>2, <1>3, <1>4, <1>5, <1>6 DEF TransferInv, TransferTypeOK

LEMMA TransferInvStep == ASSUME TransferInv, [Next]_transferVars PROVE TransferInv'
<1> USE DEF TransferInv
<1>1. CASE UNCHANGED transferVars
  BY <1>1 DEF transferVars, TransferTypeOK, RevertedOnlyIfSpent
<1>2. ASSUME NEW k \in Wallets \cup {NoKey}, OpenOrClose(k) PROVE TransferInv'
  BY <1>2 DEF OpenOrClose, AtPrompt, TransferTypeOK, RevertedOnlyIfSpent
<1>3. CASE ConnectOrDisconnect
  BY <1>3 DEF ConnectOrDisconnect, AtPrompt, TransferTypeOK, RevertedOnlyIfSpent
<1>4. CASE BeginOrCancel
  <2>1. session' \in [active : BOOLEAN, ops : Seq(Transfer)] /\ Checked(session'.ops)
    BY <1>4 DEF BeginOrCancel, Checked, TransferTypeOK
  <2> QED
    BY <1>4, <2>1 DEF BeginOrCancel, AtPrompt, TransferTypeOK, RevertedOnlyIfSpent
<1>5. CASE TakeAdvice
  <2>1. PICK a \in advice : SetRcLimit(a.value * Fine, a.absolute)
    BY <1>5 DEF TakeAdvice
  <2>2. a.value * Fine \in Nat /\ a.absolute \in BOOLEAN
    BY TypedBack DEF TransferTypeOK, Setting
  <2> QED
    BY <2>1, <2>2, SettingTypes
<1>6. ASSUME NEW typed \in Limits, NEW absolute \in BOOLEAN, SetRcLimit(typed, absolute) PROVE TransferInv'
  BY <1>6, SettingTypes, TransferConstants
<1>7. ASSUME NEW to \in Addresses, NEW typed \in Amounts,
             TransferOffline(to, typed) \/ TransferOnline(to, typed)
      PROVE  TransferInv'
  <2> DEFINE op == [from |-> key, to |-> to, value |-> Satoshi(typed), seen |-> Unchecked]
  <2>1. Satoshi(typed) \in Nat /\ key \in Wallets
    BY <1>7, RcConstants, TransferConstants, Division
       DEF Satoshi, TransferOffline, TransferOnline, TransferTypeOK
  <2>2. op \in Transfer /\ op.seen = Unchecked
    BY <2>1 DEF Transfer
  <2>3. CASE TransferOffline(to, typed)
    <3>1. AddOrSubmit(op) /\ UNCHANGED <<key, online, rcLimit, balance>> /\ advice' = {} /\ receipt' = NoReceipt
      BY <2>3 DEF TransferOffline, AtPrompt
    <3> HIDE DEF op
    <3> QED
      BY <2>1, <2>2, <3>1, AddOrSubmitTypes
  <2>4. CASE TransferOnline(to, typed)
    <3>1. /\ call' = [ops |-> <<op>>, fromSession |-> FALSE, rc |-> 0,
                     credits |-> Unchecked, whole |-> Unchecked]
          /\ pc' = "balance" /\ advice' = {} /\ receipt' = NoReceipt
          /\ UNCHANGED <<key, online, rcLimit, session, balance>>
      BY <2>4 DEF TransferOnline, AtPrompt
    <3> HIDE DEF op
    <3>2. <<op>> \in Seq(Transfer) /\ Len(<<op>>) = 1 /\ Checked(<<op>>)
      BY <2>2 DEF Checked
    <3>3. call' \in Call /\ call'.ops = <<op>>
      BY <3>1, <3>2 DEF Call
    <3> QED
      BY <2>1, <3>1, <3>2, <3>3 DEF TransferTypeOK, RevertedOnlyIfSpent
  <2> QED
    BY <1>7, <2>3, <2>4
<1>8. CASE SubmitSession
  <2>1. session.ops \in Seq(Transfer) /\ Checked(session.ops) /\ key \in Wallets
    BY <1>8 DEF SubmitSession, TransferTypeOK
  <2> QED
    BY <1>8, <2>1, SubmitTypes DEF SubmitSession, AtPrompt
<1>9. CASE BalanceAnswer
  <2> DEFINE op == call.ops[1]
             b  == balance[op.from]
  <2>1. call.ops \in Seq(Transfer) /\ Len(call.ops) = 1 /\ key \in Wallets
    BY <1>9 DEF BalanceAnswer, TransferTypeOK, Call
  <2>2. op \in Transfer /\ b \in Nat
    <3>1. op \in Transfer
      BY <2>1
    <3>2. op.from \in Addresses
      BY <3>1 DEF Transfer, Addresses
    <3> QED
      BY <3>1, <3>2 DEF TransferTypeOK
  <2>3. /\ \/ ReturnToPrompt /\ UNCHANGED session
           \/ b >= op.value /\ AddOrSubmit([op EXCEPT !.seen = b])
        /\ UNCHANGED <<key, online, rcLimit, balance, advice, receipt>>
    BY <1>9 DEF BalanceAnswer, Leaves, Outputs
  <2> HIDE DEF op, b
  <2>4. CASE ReturnToPrompt /\ UNCHANGED session
    BY <2>3, <2>4, Returned DEF ReturnToPrompt, TransferTypeOK
  <2>5. CASE b >= op.value /\ AddOrSubmit([op EXCEPT !.seen = b])
    <3> DEFINE new == [op EXCEPT !.seen = b]
    <3>1. new \in Transfer /\ new.seen >= new.value
      BY <2>2, <2>5 DEF Transfer
    <3>2. advice \subseteq Setting
      BY DEF TransferTypeOK
    <3> HIDE DEF new
    <3> QED
      BY <2>1, <2>3, <2>5, <3>1, <3>2, AddOrSubmitTypes DEF new
  <2> QED
    BY <2>3, <2>4, <2>5
<1>10. ASSUME NEW credits \in Credits, AccountRcAnswer(credits) \/ WholeRcAnswer(credits)
       PROVE  TransferInv'
  <2>1. credits \in Nat /\ Relative(rcLimit, credits) \in Nat
    BY TransferConstants, RelativeType
  <2>2. CASE AccountRcAnswer(credits)
    <3>1. /\ pc # "prompt" /\ pc' \in {"wholeRc", "submit"}
          /\ call' = [call EXCEPT !.rc = Relative(rcLimit, credits), !.credits = credits]
          /\ UNCHANGED <<key, online, rcLimit, session, balance, advice, receipt>>
      BY <2>2 DEF AccountRcAnswer, Leaves, Outputs
    <3> QED
      BY <2>1, <3>1, Gathered
  <2>3. CASE WholeRcAnswer(credits)
    <3>1. /\ pc # "prompt" /\ pc' = "submit" /\ call' = [call EXCEPT !.rc = credits, !.whole = credits]
          /\ UNCHANGED <<key, online, rcLimit, session, balance, advice, receipt>>
      BY <2>3 DEF WholeRcAnswer, Leaves, Outputs
    <3> QED
      BY <2>1, <3>1, Gathered
  <2> QED
    BY <1>10, <2>2, <2>3
<1>11. ASSUME NEW credits \in Credits, RcHintAnswer(credits) PROVE TransferInv'
  <2>1. advice' \subseteq Setting
    BY <1>11, TransferConstants, AdviceType DEF RcHintAnswer
  <2> QED
    BY <1>11, <2>1, Returned DEF RcHintAnswer, ReturnToPrompt, Leaves, TransferTypeOK
<1>12. ASSUME NEW answered \in BOOLEAN, Applied(answered) PROVE TransferInv'
  BY <1>12, AppliedTypes
<1>13. CASE InsufficientRc
  <2>1. CASE pc' = "rcHint" /\ UNCHANGED <<call, advice>>
    BY <1>13, <2>1 DEF InsufficientRc, Leaves, TransferTypeOK, RevertedOnlyIfSpent
  <2>2. CASE ReturnToPrompt /\ advice' = Advice(rcLimit, 0)
    <3>1. advice' \subseteq Setting
      BY <2>2, AdviceType
    <3> QED
      BY <1>13, <2>2, <3>1, Returned DEF InsufficientRc, ReturnToPrompt, Leaves, TransferTypeOK
  <2> QED
    BY <1>13, <2>1, <2>2 DEF InsufficientRc
<1>14. CASE RpcFails
  BY <1>14, Returned DEF RpcFails, ReturnToPrompt, Leaves, Outputs, TransferTypeOK
<1>15. ASSUME NEW a \in Addresses, NEW b \in Addresses, NEW value \in 1 .. Supply,
              OthersTransfer(a, b, value)
       PROVE  TransferInv'
  <2>1. a # b /\ value \in Nat /\ value <= balance[a] /\ balance \in [Addresses -> Nat]
    BY <1>15, TransferConstants DEF OthersTransfer, TransferTypeOK
  <2>2. balance' = [balance EXCEPT ![a] = @ - value, ![b] = @ + value]
    BY <1>15 DEF OthersTransfer
  <2>3. balance' \in [Addresses -> Nat]
    BY <2>1, <2>2
  <2> QED
    BY <1>15, <2>3 DEF OthersTransfer, Leaves, TransferTypeOK, RevertedOnlyIfSpent
<1> QED
  BY <1>1, <1>2, <1>3, <1>4, <1>5, <1>6, <1>7, <1>8, <1>9, <1>10, <1>11, <1>12, <1>13, <1>14,
     <1>15 DEF Next

\* The types of transfers, receipts and limits, for any supply and any session
\* (token_commands.go): no sequence of transfers the contract accepts makes a
\* balance negative.
THEOREM TransferTypesHold == Spec => []TransferTypeOK
<1>1. TransferInv => TransferTypeOK
  BY DEF TransferInv
<1> QED
  BY <1>1, TransferInvInit, TransferInvStep, PTL DEF Spec

\* Whatever others do with the token and however long a session is, a transaction is
\* reverted only if a balance that was checked (token_commands.go:333) is gone, or
\* one was not checked, or another wallet signs.
THEOREM RevertsAreExplained == Spec => []RevertedOnlyIfSpent
<1>1. TransferInv => RevertedOnlyIfSpent
  BY DEF TransferInv
<1> QED
  BY <1>1, TransferInvInit, TransferInvStep, PTL DEF Spec
===============================================================================
