-------------------------------- MODULE RcLimit --------------------------------
(***************************************************************************)
(* The arithmetic of the rc limit: what `rclimit' stores (RcLimitCommand,  *)
(* commands.go), what a transaction offers (GetRcLimit, interpreter.go,    *)
(* and SubmitTransactionOpsWithPayer, cliutil/rpc.go) and what is advised  *)
(* when it was not enough (createInsufficientRCMessage, interpreter.go).   *)
(*                                                                         *)
(* Decimals are exact; converting one to an integer of 10^-8 truncates.    *)
(***************************************************************************)
EXTENDS Integers

CONSTANTS Unit,  \* the fixed-point 1.0: 10^8, scaled down
          Fine   \* typed decimals are finer than the fixed point, by this factor

ASSUME RcConstants == Unit \in Nat \ {0} /\ Fine \in Nat \ {0}

Setting == [value : Nat, absolute : BOOLEAN]

\* DecimalToSatoshi of a typed decimal, here a number of 1/(Unit * Fine).
Satoshi(typed) == typed \div Fine

\* A percentage is stored as a fraction and refused above 100%.
InBounds(typed, absolute) == absolute \/ typed <= Unit * Fine
Stored(typed, absolute)   == [value |-> Satoshi(typed), absolute |-> absolute]

\* GetRcLimit of a percentage, for an account with these credits.
Relative(s, credits) == (credits * s.value) \div Unit

\* Mutant of Advice: twice the limit, whatever there is.
AdviceUncapped(s, credits) ==
  IF s.value < (IF s.absolute THEN credits ELSE Unit) THEN {[s EXCEPT !.value = 2 * @]} ELSE {}

\* The example of a higher limit, if any: twice the current one and at most all
\* there is, of the credits or of 100%.  Typing it back loses nothing.
Advice(s, credits) ==
  LET most == IF s.absolute THEN credits ELSE Unit IN
  IF s.value < most THEN {[s EXCEPT !.value = IF 2 * @ > most THEN most ELSE 2 * @]} ELSE {}
===============================================================================
