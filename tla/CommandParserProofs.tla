-------------------------- MODULE CommandParserProofs --------------------------
(***************************************************************************)
(* For every command set and lines of any length: the argument counters of *)
(* the parser stay inside the declarations, what runs are the commands of  *)
(* the line in their order, and a well-formed line runs to its end.        *)
(***************************************************************************)
EXTENDS CommandParser, FiniteSetTheorems, TLAPS

\* Where the parser is in the declaration of the command it is parsing: the counter,
\* which parseSkip moves on, is behind the argument that is looked for.
ArgPosition ==
  /\ pc \in {"args", "end"} => results # <<>> /\ Current.declared /\ Current.name \in Commands
  /\ pc = "args" => /\ arg <= Len(Optional[Current.name]) + 1
                    /\ Current.current <= arg - 2

\* White space that touches is one lexeme, so parseSkip leaves none.
NoRuns(s) == \A i \in 1 .. Len(s) - 1 : s[i] = "space" => s[i + 1] # "space"

ParserInv == ParserTypeOK /\ CurrentArgDeclared /\ ArgPosition /\ NoRuns(input)

-------------------------------------------------------------------------------
\* Lemmas on the operators

LEMMA TailLexemes ==
  ASSUME NEW s \in Seq(Lexemes), s # <<>>, NoRuns(s)
  PROVE  /\ Head(s) = s[1] /\ Head(s) \in Lexemes
         /\ Tail(s) \in Seq(Lexemes) /\ NoRuns(Tail(s))
<1>1. /\ Len(s) \in Nat \ {0} /\ Tail(s) \in Seq(Lexemes) /\ Len(Tail(s)) = Len(s) - 1
      /\ \A i \in 1 .. Len(s) - 1 : Tail(s)[i] = s[i + 1]
  OBVIOUS
<1>2. NoRuns(Tail(s))
  <2> SUFFICES ASSUME NEW i \in 1 .. Len(Tail(s)) - 1, Tail(s)[i] = "space"
               PROVE  Tail(s)[i + 1] # "space"
    BY DEF NoRuns
  <2>1. i + 1 \in 1 .. Len(s) - 1 /\ i \in 1 .. Len(s) - 1
    BY <1>1
  <2>2. Tail(s)[i] = s[i + 1] /\ Tail(s)[i + 1] = s[i + 1 + 1]
    BY <1>1, <2>1
  <2> QED
    BY <2>1, <2>2 DEF NoRuns
<1> QED
  BY <1>1, <1>2

LEMMA DropSpaceType ==
  ASSUME NEW s \in Seq(Lexemes), NoRuns(s)
  PROVE  /\ DropSpace(s) \in Seq(Lexemes) /\ NoRuns(DropSpace(s))
         /\ DropSpace(s) # <<>> => Head(DropSpace(s)) # "space"
<1>1. CASE s # <<>> /\ Head(s) = "space"
  <2>1. DropSpace(s) = Tail(s) /\ s[1] = "space"
    BY <1>1, TailLexemes DEF DropSpace
  <2>2. Tail(s) # <<>> => Head(Tail(s)) = s[2] /\ Len(s) > 1
    BY <1>1
  <2>3. Tail(s) # <<>> => s[2] # "space"
    BY <2>1, <2>2 DEF NoRuns
  <2> QED
    BY <1>1, <2>1, <2>2, <2>3, TailLexemes
<1>2. CASE ~(s # <<>> /\ Head(s) = "space")
  BY <1>2 DEF DropSpace
<1> QED
  BY <1>1, <1>2

\* What parseSkip leaves, how it ended, and whether it consumed anything; when it met
\* neither a terminator nor the end, a lexeme is left.
LEMMA SkipType ==
  ASSUME NEW s \in Seq(Lexemes), NoRuns(s)
  PROVE  /\ Skip(s).rest \in Seq(Lexemes) /\ NoRuns(Skip(s).rest)
         /\ Skip(s).term \in {"none", "input", "command"}
         /\ Skip(s).skipped \in BOOLEAN
         /\ Skip(s).term = "none" => Skip(s).rest # <<>>
<1> DEFINE t == DropSpace(s)
           semi == t # <<>> /\ Head(t) = "semi"
           u == IF semi THEN Tail(t) ELSE t
<1>1. t \in Seq(Lexemes) /\ NoRuns(t) /\ (t # <<>> => Head(t) # "space")
  BY DropSpaceType
<1>2. Skip(s) = [rest    |-> DropSpace(u),
                 term    |-> IF semi THEN "command" ELSE IF t = <<>> THEN "input" ELSE "none",
                 skipped |-> t # s \/ DropSpace(u) # u]
  BY DEF Skip
<1> HIDE DEF t
<1>3. u \in Seq(Lexemes) /\ NoRuns(u)
  BY <1>1, TailLexemes
<1>4. DropSpace(u) \in Seq(Lexemes) /\ NoRuns(DropSpace(u))
  BY <1>3, DropSpaceType
<1>5. ~semi /\ t # <<>> => DropSpace(u) = t
  BY <1>1 DEF DropSpace
<1> HIDE DEF u, semi
<1>6. Skip(s).term = "none" => ~semi /\ t # <<>>
  BY <1>2
<1> QED
  BY <1>2, <1>4, <1>5, <1>6

\* The counter moves on by one at most.
LEMMA AdvanceBounds ==
  ASSUME NEW inv \in Result, NEW s, s.skipped \in BOOLEAN
  PROVE  LET adv == Advance(inv, s) IN
         /\ adv \in Result
         /\ adv.name = inv.name /\ adv.declared = inv.declared /\ adv.termination = inv.termination
         /\ adv.current <= inv.current + 1 /\ adv.current >= inv.current
BY DEF Advance, Result

LEMMA CurrentType ==
  ASSUME ParserTypeOK, results # <<>>
  PROVE  Len(results) \in DOMAIN results /\ Len(results) \in Nat \ {0} /\ Current \in Result
BY DEF ParserTypeOK, Current

LEMMA OptionalType ==
  ASSUME NEW c \in Commands
  PROVE  Optional[c] \in Seq(BOOLEAN) /\ Len(Optional[c]) \in Nat
BY ParserConstants

-------------------------------------------------------------------------------
\* Changing the invocation that is being parsed changes no other.
LEMMA SetCurrentStep ==
  ASSUME ParserTypeOK, CurrentArgDeclared, results # <<>>, NEW inv \in Result, SetCurrent(inv),
         inv.declared => inv.current < Len(Optional[inv.name])
  PROVE  results' \in Seq(Result) /\ results' # <<>> /\ Current' = inv /\ CurrentArgDeclared'
<1>1. Len(results) \in DOMAIN results /\ results \in Seq(Result)
  BY CurrentType DEF ParserTypeOK
<1>2. results' = [results EXCEPT ![Len(results)] = inv]
  BY DEF SetCurrent
<1>3. results' \in Seq(Result) /\ Len(results') = Len(results) /\ DOMAIN results' = DOMAIN results
      /\ \A i \in DOMAIN results : results'[i] = IF i = Len(results) THEN inv ELSE results[i]
  BY <1>1, <1>2
<1> QED
  BY <1>1, <1>3 DEF Current, CurrentArgDeclared

\* A new invocation.
LEMMA AppendStep ==
  ASSUME ParserTypeOK, CurrentArgDeclared, NEW inv \in Result, results' = Append(results, inv),
         inv.declared => inv.current < Len(Optional[inv.name])
  PROVE  results' \in Seq(Result) /\ results' # <<>> /\ Current' = inv /\ CurrentArgDeclared'
<1>1. results \in Seq(Result)
  BY DEF ParserTypeOK
<1>2. results' \in Seq(Result) /\ Len(results') = Len(results) + 1
      /\ (\A i \in DOMAIN results' : i = Len(results') => results'[i] = inv)
      /\ (\A i \in DOMAIN results' : i # Len(results') => i \in DOMAIN results /\ results'[i] = results[i])
  BY <1>1
<1> QED
  BY <1>1, <1>2 DEF Current, CurrentArgDeclared

LEMMA ParserInvInit == ParserInit => ParserInv
<1> SUFFICES ASSUME ParserInit PROVE ParserInv
  OBVIOUS
<1>1. line \in Seq(Lexemes)
  BY ParserConstants DEF ParserInit, Lines
<1>2. NoRuns(line)
  <2>1. \A i \in 1 .. Len(line) - 1 : ~Touch(line[i], line[i + 1])
    BY DEF ParserInit, Lines
  <2> QED
    BY <2>1 DEF NoRuns, Touch
<1> QED
  BY <1>1, <1>2 DEF ParserInit, ParserInv, ParserTypeOK, CurrentArgDeclared, ArgPosition

LEMMA ParserInvStep ==
  ASSUME ParserInv, [ParserNext]_parserVars
  PROVE  ParserInv'
<1> USE DEF ParserInv
<1>1. CASE UNCHANGED parserVars
  BY <1>1 DEF parserVars, ParserTypeOK, CurrentArgDeclared, ArgPosition, Current
<1>2. CASE Start
  <2>1. Skip(input).rest \in Seq(Lexemes) /\ NoRuns(Skip(input).rest)
    BY SkipType DEF ParserTypeOK
  <2> QED
    BY <1>2, <2>1 DEF Start, ParserTypeOK, CurrentArgDeclared, ArgPosition
<1>3. CASE InputConsumed
  BY <1>3 DEF InputConsumed, ParserTypeOK, CurrentArgDeclared, ArgPosition
<1>4. CASE ParseBadName
  BY <1>4 DEF ParseBadName, Refuse, ParserTypeOK, CurrentArgDeclared, ArgPosition
<1>5. CASE ParseUnknownName
  <2> DEFINE inv == [name |-> Head(input), declared |-> FALSE, current |-> -1, termination |-> "none"]
             s   == Skip(Tail(input))
  <2>1. inv \in Result /\ inv.declared = FALSE
    BY <1>5 DEF ParseUnknownName, Result
  <2>2. s.skipped \in BOOLEAN
    BY <1>5, TailLexemes, SkipType DEF ParseUnknownName, ParserTypeOK
  <2>3. results' = Append(results, Advance(inv, s)) /\ pc' = "refused"
        /\ UNCHANGED <<line, input, arg, executed>>
    BY <1>5 DEF ParseUnknownName, Refuse
  <2> HIDE DEF inv, s
  <2>4. Advance(inv, s) \in Result /\ Advance(inv, s).declared = FALSE
    BY <2>1, <2>2, AdvanceBounds
  <2>5. results' \in Seq(Result) /\ CurrentArgDeclared'
    BY <2>3, <2>4, AppendStep
  <2> QED
    BY <2>3, <2>5 DEF ParserTypeOK, ArgPosition
<1>6. CASE ParseName
  <2> DEFINE inv == [name |-> Head(input), declared |-> TRUE, current |-> -1, termination |-> "none"]
  <2>1. inv \in Result /\ inv.name \in Commands /\ inv.declared /\ inv.current = -1
    BY <1>6 DEF ParseName, Result, Words
  <2>2. results' = Append(results, inv) /\ input' = Tail(input) /\ arg' = 1 /\ pc' = "args"
        /\ UNCHANGED <<line, executed>>
    BY <1>6 DEF ParseName
  <2>3. input' \in Seq(Lexemes) /\ NoRuns(input')
    BY <1>6, TailLexemes DEF ParseName, ParserTypeOK
  <2> HIDE DEF inv
  <2>4. Len(Optional[inv.name]) \in Nat
    BY <2>1, OptionalType
  <2>5. results' \in Seq(Result) /\ results' # <<>> /\ Current' = inv /\ CurrentArgDeclared'
    BY <2>1, <2>2, <2>4, AppendStep
  <2>6. ParserTypeOK'
    BY <2>2, <2>3, <2>5 DEF ParserTypeOK
  <2>7. ArgPosition'
    BY <2>1, <2>2, <2>4, <2>5 DEF ArgPosition
  <2> QED
    BY <2>3, <2>5, <2>6, <2>7
<1>7. ASSUME pc = "args", MoreArgs
      PROVE  LET s == Skip(input)
                 adv == Advance(Current, s)
             IN /\ s.rest \in Seq(Lexemes) /\ NoRuns(s.rest)
                /\ adv \in Result /\ adv.declared /\ adv.name = Current.name /\ adv.name \in Commands
                /\ adv.current <= arg - 1 /\ arg <= Len(Optional[adv.name])
                /\ Len(Optional[adv.name]) \in Nat
                /\ SetCurrent(adv) => /\ results' \in Seq(Result) /\ results' # <<>>
                                      /\ Current' = adv /\ CurrentArgDeclared'
  <2> DEFINE s   == Skip(input)
             adv == Advance(Current, s)
  <2>1. results # <<>> /\ Current.declared /\ Current.name \in Commands
        /\ Current.current <= arg - 2 /\ arg <= Len(Optional[Current.name])
    BY <1>7 DEF ArgPosition, MoreArgs
  <2>2. Current \in Result /\ arg \in Nat /\ Current.current \in Int
    BY <2>1, CurrentType DEF ParserTypeOK, Result
  <2>3. s.rest \in Seq(Lexemes) /\ NoRuns(s.rest) /\ s.skipped \in BOOLEAN
    BY SkipType DEF ParserTypeOK
  <2>4. /\ adv \in Result /\ adv.name = Current.name /\ adv.declared = Current.declared
        /\ adv.current <= Current.current + 1
    BY <2>2, <2>3, AdvanceBounds
  <2>5. Len(Optional[adv.name]) \in Nat /\ adv.current \in Int
    BY <2>1, <2>4, OptionalType DEF Result
  <2> HIDE DEF s, adv
  <2>6. adv.current <= arg - 1 /\ adv.current < Len(Optional[adv.name])
    BY <2>1, <2>2, <2>4, <2>5
  <2>7. SetCurrent(adv) => results' \in Seq(Result) /\ results' # <<>> /\ Current' = adv /\ CurrentArgDeclared'
    BY <2>1, <2>4, <2>6, SetCurrentStep
  <2> QED
    BY <2>1, <2>3, <2>4, <2>5, <2>6, <2>7 DEF s, adv
<1>8. CASE ParseNoArg
  <2> DEFINE s   == Skip(input)
             adv == Advance(Current, s)
  <2>1. SetCurrent(adv) /\ input' = s.rest /\ pc' \in {"end", "refused"}
        /\ UNCHANGED <<line, arg, executed>>
    BY <1>8 DEF ParseNoArg, Refuse
  <2>2. /\ s.rest \in Seq(Lexemes) /\ NoRuns(s.rest)
        /\ adv.declared /\ adv.name \in Commands
        /\ results' \in Seq(Result) /\ results' # <<>> /\ Current' = adv /\ CurrentArgDeclared'
    BY <1>7, <1>8, <2>1 DEF ParseNoArg
  <2> HIDE DEF s, adv
  <2> QED
    BY <2>1, <2>2 DEF ParserTypeOK, ArgPosition
<1>9. CASE ParseArg
  <2> DEFINE s   == Skip(input)
             adv == Advance(Current, s)
  <2>1. /\ s.rest \in Seq(Lexemes)
        /\ adv.declared /\ adv.name \in Commands /\ adv \in Result
        /\ adv.current <= arg - 1 /\ arg <= Len(Optional[adv.name]) /\ Len(Optional[adv.name]) \in Nat
        /\ results' \in Seq(Result) /\ results' # <<>> /\ Current' = adv /\ CurrentArgDeclared'
    BY <1>7, <1>9 DEF ParseArg
  <2>2. /\ pc = "args"
        /\ UNCHANGED <<line, executed>>
        /\ \/ input' = Tail(s.rest) /\ Head(s.rest) \in Words /\ arg' = arg + 1 /\ pc' = pc
           \/ input' = s.rest /\ arg' = arg /\ pc' = "refused"
    BY <1>9 DEF ParseArg, Refuse
  <2>3. s.rest # <<>> /\ NoRuns(s.rest)
    BY <1>9, SkipType DEF ParseArg, ParserTypeOK
  <2>4. Tail(s.rest) \in Seq(Lexemes) /\ NoRuns(Tail(s.rest))
    BY <2>1, <2>3, TailLexemes
  <2> HIDE DEF s, adv
  <2>5. input' \in Seq(Lexemes) /\ NoRuns(input') /\ arg' \in Nat \ {0}
    <3>1. arg \in Nat \ {0}
      BY DEF ParserTypeOK
    <3>2. CASE input' = Tail(s.rest) /\ arg' = arg + 1
      BY <2>4, <3>1, <3>2
    <3>3. CASE input' = s.rest /\ arg' = arg
      BY <2>1, <2>3, <3>1, <3>3, Zenon
    <3> QED
      BY <2>2, <3>2, <3>3
  <2>6. ParserTypeOK'
    BY <2>1, <2>2, <2>5 DEF ParserTypeOK
  <2>7. adv.current \in Int
    BY <2>1 DEF Result
  <2>8. pc' = "args" => arg' = arg + 1 /\ arg \in Int
    BY <2>2 DEF ParserTypeOK
  <2>9. pc' = "args" => arg' <= Len(Optional[adv.name]) + 1 /\ adv.current <= arg' - 2
    BY <2>1, <2>7, <2>8
  <2>10. ArgPosition'
    BY <2>1, <2>2, <2>9 DEF ArgPosition
  <2> QED
    BY <2>1, <2>5, <2>6, <2>10
<1>10. CASE ArgsParsed
  BY <1>10 DEF ArgsParsed, ParserTypeOK, CurrentArgDeclared, ArgPosition, Current
<1>11. CASE EndCommand
  <2> DEFINE s   == Skip(input)
             inv == [Current EXCEPT !.termination = s.term]
  <2>1. results # <<>> /\ Current \in Result
    BY <1>11, CurrentType DEF EndCommand, ArgPosition
  <2>2. s.rest \in Seq(Lexemes) /\ NoRuns(s.rest) /\ s.term \in {"none", "input", "command"}
    BY SkipType DEF ParserTypeOK
  <2>3. SetCurrent(inv) /\ input' = s.rest /\ pc' \in {"loop", "parsed"}
        /\ UNCHANGED <<line, arg, executed>>
    BY <1>11 DEF EndCommand
  <2>4. Current.declared => Current.current < Len(Optional[Current.name])
    BY <2>1, CurrentType DEF CurrentArgDeclared, Current
  <2>5. /\ inv \in Result
        /\ inv.declared => inv.current < Len(Optional[inv.name])
    BY <2>1, <2>2, <2>4 DEF Result
  <2> HIDE DEF inv, s
  <2>6. results' \in Seq(Result) /\ CurrentArgDeclared'
    BY <2>1, <2>3, <2>5, SetCurrentStep
  <2> QED
    BY <2>2, <2>3, <2>6 DEF ParserTypeOK, ArgPosition
<1>12. CASE Interpret
  <2>1. Len(executed) < Len(results) => results[Len(executed) + 1].name \in Words
    <3>1. Len(executed) \in Nat /\ Len(results) \in Nat /\ results \in Seq(Result)
      BY DEF ParserTypeOK
    <3>2. Len(executed) < Len(results) => results[Len(executed) + 1] \in Result
      BY <3>1
    <3> QED
      BY <3>2 DEF Result
  <2>2. executed' \in Seq(Words)
    <3> DEFINE name == results[Len(executed) + 1].name
    <3>1. executed \in Seq(Words)
      BY DEF ParserTypeOK
    <3>2. \/ Len(executed) < Len(results) /\ executed' = Append(executed, name)
          \/ executed' = executed
      BY <1>12 DEF Interpret
    <3> HIDE DEF name
    <3>3. Len(executed) < Len(results) => name \in Words
      BY <2>1 DEF name
    <3> QED
      BY <3>1, <3>2, <3>3
  <2> QED
    BY <1>12, <2>2 DEF Interpret, ParserTypeOK, CurrentArgDeclared, ArgPosition
<1>13. CASE Help
  BY <1>13 DEF Help, ParserTypeOK, CurrentArgDeclared, ArgPosition
<1> QED
  BY <1>1, <1>2, <1>3, <1>4, <1>5, <1>6, <1>8, <1>9, <1>10, <1>11, <1>12, <1>13 DEF ParserNext

\* Lines, results and counters keep their types (parser.go).
THEOREM ParserTypesHold == ParserSpec => []ParserTypeOK
<1>1. ParserInit => ParserInv
  BY ParserInvInit
<1>2. ParserInv /\ [ParserNext]_parserVars => ParserInv'
  BY ParserInvStep
<1>3. ParserInv => ParserTypeOK
  BY DEF ParserInv
<1> QED
  BY <1>1, <1>2, <1>3, PTL DEF ParserSpec

\* Metrics never indexes a declaration beyond its arguments, whatever is typed: the
\* counter moves at most once per argument looked for (interpreter.go:518).
THEOREM CountersDeclared == ParserSpec => []CurrentArgDeclared
<1>1. ParserInit => ParserInv
  BY ParserInvInit
<1>2. ParserInv /\ [ParserNext]_parserVars => ParserInv'
  BY ParserInvStep
<1>3. ParserInv => CurrentArgDeclared
  BY DEF ParserInv
<1> QED
  BY <1>1, <1>2, <1>3, PTL DEF ParserSpec

-------------------------------------------------------------------------------
\* What the parser has done with the first p lexemes of the line

Consumed == Len(line) - Len(input)
Names    == [i \in DOMAIN results |-> results[i].name]

\* s is what is left of the line after p lexemes.
Rest(s, p) == p \in Nat /\ p + Len(s) = Len(line) /\ \A i \in 1 .. Len(s) : s[i] = line[p + i]

\* Nothing but white space has been read since the last terminator.
Fresh(p) == \A j \in 1 .. p : line[j] = "space" \/ Terminated(line, j, p)

\* The names stand where `at' says, and no other command starts in the first p.
Covers(at, names, p) ==
  /\ at \in Positions(names, line)
  /\ \A s \in CommandStarts(line) : s <= p <=> \E i \in DOMAIN names : at[i] = s

\* While it parses, the results are the commands that start in what was consumed;
\* a refused line may have one more, and is not executed.
OrderInv ==
  /\ Rest(input, Consumed)
  /\ pc \in {"start", "loop"} => Fresh(Consumed)
  /\ pc = "args" => ~Fresh(Consumed)
  /\ pc \in {"start", "loop", "args", "end"} => \E at : Covers(at, Names, Consumed)
  /\ pc \in {"parsed", "done"} => Positions(Names, line) # {}
  /\ Len(executed) <= Len(results) /\ \A i \in DOMAIN executed : executed[i] = Names[i]
  /\ pc \notin {"parsed", "done"} => executed = <<>>

\* The lexemes of the command at c, in the first p, that are arguments.
ArgumentsSoFar(c, p) == {j \in c + 1 .. p : line[j] # "space"}

\* The command being parsed starts at c.  Between arguments, what was read last is
\* a word and `arg' counts the arguments; behind them, none is left.
AtCommand(c, p) ==
  /\ c \in CommandStarts(line) /\ c <= p /\ Current.name = line[c]
  /\ \A s \in CommandStarts(line) : s <= p => s <= c
  /\ pc = "args" => /\ ~Terminated(line, c, p) /\ line[p] \in Words
                    /\ arg = Cardinality(ArgumentsSoFar(c, p)) + 1
  /\ pc = "end" => \/ input = <<>>
                   \/ ~Terminated(line, c, p) /\ ArgumentsOf(line, c) \subseteq 1 .. p

WellFormed == GoodLine(line) /\ FullButLast(line)

FullInv ==
  /\ \A i \in 1 .. Len(line) - 1 : ~Touch(line[i], line[i + 1])
  /\ WellFormed =>
       /\ pc \notin {"refused", "helped", "panic"}
       /\ pc = "loop" /\ input # <<>> => Head(input) # "space"
       /\ pc \in {"args", "end"} => \E c \in CommandStarts(line) : AtCommand(c, Consumed)
       /\ pc \in {"parsed", "done"} => AllCommands(Names, line)
       /\ pc = "done" => Len(executed) = Len(results)

-------------------------------------------------------------------------------
\* Reading on: what is left, and the position it starts at

LEMMA RestTail ==
  ASSUME line \in Seq(Lexemes), NEW s \in Seq(Lexemes), s # <<>>, NEW p, Rest(s, p)
  PROVE  /\ p + 1 \in Nat /\ p + 1 \in DOMAIN line /\ Head(s) = line[p + 1]
         /\ Rest(Tail(s), p + 1)
<1>1. /\ Len(s) \in Nat \ {0} /\ Tail(s) \in Seq(Lexemes) /\ Len(Tail(s)) = Len(s) - 1
      /\ \A i \in 1 .. Len(s) - 1 : Tail(s)[i] = s[i + 1]
      /\ Head(s) = s[1]
  OBVIOUS
<1>2. p \in Nat /\ p + Len(s) = Len(line) /\ \A i \in 1 .. Len(s) : s[i] = line[p + i]
  BY DEF Rest
<1>3. \A i \in 1 .. Len(Tail(s)) : Tail(s)[i] = line[p + 1 + i]
  <2> SUFFICES ASSUME NEW i \in 1 .. Len(Tail(s)) PROVE Tail(s)[i] = line[p + 1 + i]
    OBVIOUS
  <2>1. i + 1 \in 1 .. Len(s) /\ i \in 1 .. Len(s) - 1 /\ p + (i + 1) = p + 1 + i
    BY <1>1, <1>2
  <2> QED
    BY <1>1, <1>2, <2>1
<1>4. p + 1 \in 1 .. Len(line) /\ 1 \in 1 .. Len(s)
  BY <1>1, <1>2
<1> QED
  BY <1>1, <1>2, <1>3, <1>4 DEF Rest

LEMMA RestDrop ==
  ASSUME line \in Seq(Lexemes), NEW s \in Seq(Lexemes), NEW p, Rest(s, p)
  PROVE  \E q \in Nat : /\ Rest(DropSpace(s), q) /\ p <= q
                        /\ \A j \in p + 1 .. q : line[j] = "space"
                        /\ DropSpace(s) = s => q = p
<1>1. p \in Nat
  BY DEF Rest
<1>2. CASE s # <<>> /\ Head(s) = "space"
  <2>1. DropSpace(s) = Tail(s) /\ Tail(s) # s
    BY <1>2 DEF DropSpace
  <2>2. Rest(Tail(s), p + 1) /\ line[p + 1] = "space"
    BY <1>2, RestTail
  <2>3. \A j \in p + 1 .. p + 1 : j = p + 1
    BY <1>1
  <2> QED
    BY <1>1, <2>1, <2>2, <2>3
<1>3. CASE ~(s # <<>> /\ Head(s) = "space")
  <2>1. DropSpace(s) = s
    BY <1>3 DEF DropSpace
  <2>2. p + 1 .. p = {}
    BY <1>1
  <2> QED
    BY <1>1, <2>1, <2>2
<1> QED
  BY <1>2, <1>3

\* What parseSkip consumes, in terms of the line.
LEMMA RestSkip ==
  ASSUME line \in Seq(Lexemes), NEW s \in Seq(Lexemes), NoRuns(s), NEW p, Rest(s, p)
  PROVE  \E q \in Nat :
           /\ Rest(Skip(s).rest, q) /\ p <= q
           /\ \A j \in p + 1 .. q : line[j] \in {"space", "semi"}
           /\ Skip(s).term # "command" => \A j \in p + 1 .. q : line[j] = "space"
           /\ Skip(s).term = "command" => \E j \in p + 1 .. q : line[j] = "semi"
           /\ Skip(s).term = "input" => Skip(s).rest = <<>>
           /\ Skip(s).term = "none" => Head(Skip(s).rest) # "semi"
           /\ Skip(s).rest # <<>> => Head(Skip(s).rest) # "space"
           /\ Skip(s).term = "none" /\ ~Skip(s).skipped => q = p
<1> DEFINE t == DropSpace(s)
           semi == t # <<>> /\ Head(t) = "semi"
           u == IF semi THEN Tail(t) ELSE t
<1>1. t \in Seq(Lexemes) /\ NoRuns(t) /\ (t # <<>> => Head(t) # "space")
  BY DropSpaceType
<1>2. Skip(s) = [rest    |-> DropSpace(u),
                 term    |-> IF semi THEN "command" ELSE IF t = <<>> THEN "input" ELSE "none",
                 skipped |-> t # s \/ DropSpace(u) # u]
  BY DEF Skip
<1>3. PICK a \in Nat : /\ Rest(t, a) /\ p <= a
                       /\ \A j \in p + 1 .. a : line[j] = "space"
                       /\ t = s => a = p
  BY RestDrop
<1> HIDE DEF t
<1>4. p \in Nat
  BY DEF Rest
<1>5. CASE semi
  <2>1. u = Tail(t) /\ line[a + 1] = "semi" /\ Rest(Tail(t), a + 1)
    BY <1>1, <1>3, <1>5, RestTail
  <2>2. Tail(t) \in Seq(Lexemes) /\ NoRuns(Tail(t))
    BY <1>1, <1>5, TailLexemes
  <2>3. PICK q \in Nat : /\ Rest(DropSpace(Tail(t)), q) /\ a + 1 <= q
                         /\ \A j \in a + 1 + 1 .. q : line[j] = "space"
    BY <2>1, <2>2, RestDrop
  <2>4. DropSpace(Tail(t)) # <<>> => Head(DropSpace(Tail(t))) # "space"
    BY <2>2, DropSpaceType
  <2>5. \A j \in p + 1 .. q : j \in p + 1 .. a \/ j = a + 1 \/ j \in a + 1 + 1 .. q
    BY <1>3, <1>4, <2>3
  <2>6. \A j \in p + 1 .. q : line[j] \in {"space", "semi"}
    BY <1>3, <2>1, <2>3, <2>5
  <2>7. a + 1 \in p + 1 .. q /\ p <= q
    BY <1>3, <1>4, <2>3
  <2>8. Skip(s).rest = DropSpace(Tail(t)) /\ Skip(s).term = "command"
    BY <1>2, <1>5, <2>1
  <2> HIDE DEF u, semi
  <2> QED
    BY <2>1, <2>3, <2>4, <2>6, <2>7, <2>8
<1>6. CASE ~semi
  <2>1. DropSpace(u) = t
    BY <1>1, <1>6 DEF DropSpace
  <2>2. u = t
    BY <1>6
  <2>3. t # <<>> => Head(t) # "semi"
    BY <1>6
  <2> HIDE DEF u, semi
  <2>4. /\ Skip(s).rest = t /\ Skip(s).term = (IF t = <<>> THEN "input" ELSE "none")
        /\ ~Skip(s).skipped => t = s
    <3>1. Skip(s).rest = t
      BY <1>2, <2>1
    <3>2. Skip(s).term = IF t = <<>> THEN "input" ELSE "none"
      BY <1>2, <1>6
    <3>3. Skip(s).skipped = (t # s \/ DropSpace(u) # u)
      BY <1>2
    <3>4. ~Skip(s).skipped => t = s
      BY <3>3, Zenon
    <3> QED
      BY <3>1, <3>2, <3>4
  <2>5. /\ \A j \in p + 1 .. a : line[j] \in {"space", "semi"}
        /\ Skip(s).term # "command" /\ (Skip(s).term = "input" => t = <<>>)
        /\ (Skip(s).term = "none" => t # <<>>)
    BY <1>3, <2>4
  <2> QED
    BY <1>1, <1>3, <2>3, <2>4, <2>5
<1> QED
  BY <1>5, <1>6
-------------------------------------------------------------------------------
\* Where commands start in what is read

LEMMA StartsType == ASSUME line \in Seq(Lexemes) PROVE CommandStarts(line) \subseteq 1 .. Len(line)
BY DEF CommandStarts

\* Neither white space nor a terminator starts a command.
LEMMA NoStart ==
  ASSUME line \in Seq(Lexemes), NEW j, line[j] \in {"space", "semi"}
  PROVE  j \notin CommandStarts(line)
BY DEF CommandStarts, IsSemi

\* Behind a name or an argument no command starts, unless a terminator comes first.
LEMMA NoStartBehind ==
  ASSUME line \in Seq(Lexemes), NEW p \in Nat, ~Fresh(p)
  PROVE  p + 1 \notin CommandStarts(line)
<1>1. PICK j \in 1 .. p : line[j] # "space" /\ ~Terminated(line, j, p)
  BY DEF Fresh
<1>2. p + 1 - 1 = p
  OBVIOUS
<1> QED
  BY <1>1, <1>2 DEF CommandStarts

\* Where nothing but white space was read since the last terminator, what comes starts one.
LEMMA StartHere ==
  ASSUME line \in Seq(Lexemes), NEW p \in Nat, Fresh(p), p + 1 \in DOMAIN line, line[p + 1] \notin {"space", "semi"}
  PROVE  p + 1 \in CommandStarts(line)
<1>1. p + 1 - 1 = p
  OBVIOUS
<1> QED
  BY <1>1 DEF CommandStarts, IsSemi, Fresh

LEMMA FreshSkipped ==
  ASSUME NEW p \in Nat, NEW q \in Nat, p <= q,
         \A j \in p + 1 .. q : line[j] \in {"space", "semi"},
         Fresh(p) \/ \E j \in p + 1 .. q : line[j] = "semi"
  PROVE  Fresh(q)
<1> SUFFICES ASSUME NEW j \in 1 .. q, line[j] # "space" PROVE Terminated(line, j, q)
  BY DEF Fresh
<1>1. CASE j \in p + 1 .. q
  <2>1. line[j] = "semi" /\ j \in j .. q
    BY <1>1
  <2> QED
    BY <2>1 DEF Terminated, IsSemi
<1>2. CASE j \notin p + 1 .. q /\ Fresh(p)
  <2>1. j \in 1 .. p
    BY <1>2
  <2>2. PICK k \in j .. p : IsSemi(line[k])
    BY <1>2, <2>1 DEF Fresh, Terminated
  <2>3. k \in j .. q
    BY <2>1
  <2> QED
    BY <2>2, <2>3 DEF Terminated
<1>3. CASE j \notin p + 1 .. q /\ \E k \in p + 1 .. q : line[k] = "semi"
  <2>1. PICK k \in p + 1 .. q : line[k] = "semi"
    BY <1>3
  <2>2. k \in j .. q
    BY <1>3
  <2> QED
    BY <2>1, <2>2 DEF Terminated, IsSemi
<1> QED
  BY <1>1, <1>2, <1>3

LEMMA StaleSkipped ==
  ASSUME NEW p \in Nat, NEW q \in Nat, p <= q, ~Fresh(p), \A j \in p + 1 .. q : line[j] = "space"
  PROVE  ~Fresh(q)
<1>1. PICK j \in 1 .. p : line[j] # "space" /\ ~Terminated(line, j, p)
  BY DEF Fresh
<1>2. ~Terminated(line, j, q)
  <2> SUFFICES ASSUME NEW k \in j .. q, IsSemi(line[k]) PROVE FALSE
    BY DEF Terminated
  <2>1. CASE k \in p + 1 .. q
    BY <2>1 DEF IsSemi
  <2>2. CASE k \notin p + 1 .. q
    <3>1. k \in j .. p
      BY <2>2
    <3> QED
      BY <1>1, <3>1 DEF Terminated
  <2> QED
    BY <2>1, <2>2
<1>3. j \in 1 .. q
  OBVIOUS
<1> QED
  BY <1>1, <1>2, <1>3 DEF Fresh

LEMMA StaleWord ==
  ASSUME NEW p \in Nat, p # 0, line[p] \in Words
  PROVE  ~Fresh(p)
<1>1. p \in 1 .. p /\ \A k \in p .. p : k = p
  OBVIOUS
<1>2. ~Terminated(line, p, p) /\ line[p] # "space"
  BY <1>1, ParserConstants DEF Terminated, IsSemi, Words
<1> QED
  BY <1>1, <1>2 DEF Fresh
-------------------------------------------------------------------------------
\* The names of the results stand at the first commands of the line

LEMMA CoversMoved ==
  ASSUME line \in Seq(Lexemes), NEW at, NEW names, NEW p \in Nat, NEW q \in Nat, p <= q,
         Covers(at, names, p), \A j \in p + 1 .. q : j \notin CommandStarts(line)
  PROVE  Covers(at, names, q)
<1>1. \A s \in CommandStarts(line) : s <= q <=> s <= p
  BY StartsType
<1> QED
  BY <1>1 DEF Covers

\* One more command is read.
LEMMA CoversExtended ==
  ASSUME line \in Seq(Lexemes), NEW at, NEW names \in Seq(Words), NEW p \in Nat,
         Covers(at, names, p), p + 1 \in CommandStarts(line)
  PROVE  Covers([i \in 1 .. Len(names) + 1 |-> IF i = Len(names) + 1 THEN p + 1 ELSE at[i]],
                Append(names, line[p + 1]), p + 1)
<1> DEFINE n     == Len(names) + 1
           more  == Append(names, line[p + 1])
           at2   == [i \in 1 .. n |-> IF i = n THEN p + 1 ELSE at[i]]
<1>1. n \in Nat /\ DOMAIN more = 1 .. n /\ DOMAIN names = 1 .. n - 1
      /\ more[n] = line[p + 1] /\ \A i \in 1 .. n - 1 : more[i] = names[i]
  <2>1. names \in Seq(Words) /\ Len(names) \in Nat
    OBVIOUS
  <2>2. names \in Seq({names[i] : i \in DOMAIN names} \cup {line[p + 1]})
    OBVIOUS
  <2> QED
    BY <2>1, <2>2
<1>2. /\ at \in [1 .. n - 1 -> CommandStarts(line)]
      /\ \A i \in 1 .. n - 1 : names[i] = line[at[i]]
      /\ \A i, j \in 1 .. n - 1 : i < j => at[i] < at[j]
      /\ \A s \in CommandStarts(line) : s <= p <=> \E i \in 1 .. n - 1 : at[i] = s
  BY <1>1 DEF Covers, Positions
<1> HIDE DEF more
<1>3. \A i \in 1 .. n : IF i = n THEN at2[i] = p + 1 ELSE i \in 1 .. n - 1 /\ at2[i] = at[i]
  BY <1>1
<1>4. \A i \in 1 .. n - 1 : i \in 1 .. n /\ i # n /\ at[i] \in CommandStarts(line) /\ at[i] <= p
  BY <1>1, <1>2
<1>5. n \in 1 .. n /\ at2[n] = p + 1
  BY <1>1
<1>6. at2 \in [1 .. n -> CommandStarts(line)]
  BY <1>2
<1> HIDE DEF at2, n
<1>7. \A i \in 1 .. n : more[i] = line[at2[i]]
  BY <1>1, <1>2, <1>3
<1>8. \A i, j \in 1 .. n : i < j => at2[i] < at2[j]
  <2> SUFFICES ASSUME NEW i \in 1 .. n, NEW j \in 1 .. n, i < j PROVE at2[i] < at2[j]
    OBVIOUS
  <2>1. i \in 1 .. n - 1 /\ at2[i] = at[i] /\ at[i] <= p /\ at[i] \in 1 .. Len(line)
    BY <1>1, <1>3, <1>4, StartsType
  <2>2. CASE j = n
    BY <1>5, <2>1, <2>2
  <2>3. CASE j # n
    BY <1>2, <1>3, <2>1, <2>3
  <2> QED
    BY <2>2, <2>3
<1>9. \A s \in CommandStarts(line) : s <= p + 1 <=> \E i \in 1 .. n : at2[i] = s
  <2> SUFFICES ASSUME NEW s \in CommandStarts(line) PROVE s <= p + 1 <=> \E i \in 1 .. n : at2[i] = s
    OBVIOUS
  <2>1. s \in Nat
    BY StartsType
  <2>2. CASE s = p + 1
    BY <1>5, <2>2
  <2>3. CASE s # p + 1
    <3>1. s <= p + 1 <=> s <= p
      BY <2>1, <2>3
    <3>2. (\E i \in 1 .. n : at2[i] = s) <=> \E i \in 1 .. n - 1 : at[i] = s
      BY <1>3, <1>4, <2>3
    <3> QED
      BY <1>2, <3>1, <3>2
  <2> QED
    BY <2>2, <2>3
<1>10. \A s \in CommandStarts(line), i \in 1 .. n : s < at2[i] => \E j \in 1 .. n : at2[j] = s
  <2> SUFFICES ASSUME NEW s \in CommandStarts(line), NEW i \in 1 .. n, s < at2[i]
               PROVE  s <= p + 1
    BY <1>9
  <2>1. s \in Nat /\ (i # n => at[i] \in Nat /\ at[i] <= p)
    BY <1>3, <1>4, StartsType
  <2> QED
    BY <1>3, <2>1
<1>11. at2 \in Positions(more, line)
  BY <1>1, <1>6, <1>7, <1>8, <1>10 DEF Positions
<1>12. DOMAIN more = 1 .. n
  BY <1>1
<1>13. Covers(at2, more, p + 1)
  BY <1>9, <1>11, <1>12 DEF Covers
<1> QED
  BY <1>13 DEF at2, more, n

\* Names that stand first still do without the last of them.
LEMMA FirstOfThem ==
  ASSUME NEW names \in Seq(Words), Positions(names, line) # {}, line \in Seq(Lexemes),
         NEW first \in Seq(Words), Len(first) <= Len(names),
         \A i \in DOMAIN first : first[i] = names[i]
  PROVE  Positions(first, line) # {}
<1>1. PICK at \in Positions(names, line) : TRUE
  OBVIOUS
<1>2. /\ at \in [DOMAIN names -> CommandStarts(line)]
      /\ \A i \in DOMAIN names : names[i] = line[at[i]]
      /\ \A i, j \in DOMAIN names : i < j => at[i] < at[j]
      /\ \A s \in CommandStarts(line), i \in DOMAIN names : s < at[i] => \E j \in DOMAIN names : at[j] = s
  BY <1>1 DEF Positions
<1>3. DOMAIN first \subseteq DOMAIN names /\ DOMAIN first = 1 .. Len(first) /\ DOMAIN names \subseteq Nat
  OBVIOUS
<1> DEFINE at2 == [i \in DOMAIN first |-> at[i]]
<1>4. \A s \in CommandStarts(line), i \in DOMAIN first : s < at[i] => \E j \in DOMAIN first : at[j] = s
  <2> SUFFICES ASSUME NEW s \in CommandStarts(line), NEW i \in DOMAIN first, s < at[i]
               PROVE  \E j \in DOMAIN first : at[j] = s
    OBVIOUS
  <2>1. PICK j \in DOMAIN names : at[j] = s
    BY <1>2, <1>3
  <2>2. s \in Nat /\ at[i] \in Nat /\ j \in Nat /\ i \in Nat
    BY <1>2, <1>3, StartsType
  <2>3. j < i
    <3>1. CASE i < j
      BY <1>2, <1>3, <2>1, <2>2, <3>1
    <3>2. CASE i = j
      BY <2>1, <2>2, <3>2
    <3> QED
      BY <2>2, <3>1, <3>2
  <2>4. j \in DOMAIN first
    <3>1. j \in 1 .. Len(names) /\ i \in 1 .. Len(first) /\ Len(first) \in Nat
      OBVIOUS
    <3> QED
      BY <1>3, <2>3, <3>1
  <2> QED
    BY <2>1, <2>4
<1>5. at2 \in [DOMAIN first -> CommandStarts(line)] /\ \A i \in DOMAIN first : at2[i] = at[i]
  BY <1>2, <1>3
<1> HIDE DEF at2
<1>6. /\ \A i \in DOMAIN first : first[i] = line[at2[i]]
      /\ \A i, j \in DOMAIN first : i < j => at2[i] < at2[j]
      /\ \A s \in CommandStarts(line), i \in DOMAIN first : s < at2[i] => \E j \in DOMAIN first : at2[j] = s
  BY <1>2, <1>3, <1>4, <1>5
<1>7. at2 \in Positions(first, line)
  BY <1>5, <1>6 DEF Positions
<1> QED
  BY <1>7
-------------------------------------------------------------------------------
\* The names of the results

LEMMA NamesType ==
  ASSUME ParserTypeOK
  PROVE  Names \in Seq(Words) /\ Len(Names) = Len(results) /\ DOMAIN Names = DOMAIN results
<1>1. results \in Seq(Result) /\ Len(results) \in Nat /\ DOMAIN results = 1 .. Len(results)
  BY DEF ParserTypeOK
<1>2. \A i \in DOMAIN results : results[i].name \in Words
  <2>1. \A i \in DOMAIN results : results[i] \in Result
    BY <1>1
  <2> QED
    BY <2>1 DEF Result
<1>3. Names \in [1 .. Len(results) -> Words]
  BY <1>1, <1>2 DEF Names
<1> QED
  BY <1>1, <1>3

\* A new state of the invocation that is being parsed has the name it had.
LEMMA NamesKept ==
  ASSUME ParserTypeOK, results # <<>>, NEW inv, SetCurrent(inv), inv.name = Current.name
  PROVE  Names' = Names
<1>1. results \in Seq(Result) /\ Len(results) \in DOMAIN results /\ DOMAIN results = 1 .. Len(results)
  BY CurrentType DEF ParserTypeOK
<1>2. results' = [results EXCEPT ![Len(results)] = inv]
  BY DEF SetCurrent
<1>3. DOMAIN results' = DOMAIN results
      /\ \A i \in DOMAIN results : results'[i] = IF i = Len(results) THEN inv ELSE results[i]
  BY <1>1, <1>2
<1>4. \A i \in DOMAIN results : results'[i].name = results[i].name
  BY <1>3 DEF Current
<1> QED
  BY <1>3, <1>4 DEF Names

LEMMA NamesAppended ==
  ASSUME ParserTypeOK, NEW inv \in Result, results' = Append(results, inv)
  PROVE  Names' = Append(Names, inv.name)
<1>1. results \in Seq(Result) /\ Len(results) \in Nat /\ DOMAIN results = 1 .. Len(results)
  BY DEF ParserTypeOK
<1>2. /\ DOMAIN results' = 1 .. Len(results) + 1
      /\ \A i \in 1 .. Len(results) + 1 :
           results'[i] = IF i = Len(results) + 1 THEN inv ELSE results[i]
  BY <1>1
<1>3. Append(Names, inv.name) = [i \in 1 .. Len(results) + 1 |->
                                   IF i = Len(results) + 1 THEN inv.name ELSE Names[i]]
  BY NamesType, <1>1 DEF Append
<1>4. \A i \in 1 .. Len(results) : Names[i] = results[i].name
  BY <1>1 DEF Names
<1>5. \A i \in 1 .. Len(results) + 1 :
        results'[i].name = IF i = Len(results) + 1 THEN inv.name ELSE Names[i]
  BY <1>1, <1>2, <1>4
<1>6. Names' = [i \in 1 .. Len(results) + 1 |-> results'[i].name]
  BY <1>2 DEF Names
<1> QED
  BY <1>3, <1>5, <1>6

LEMMA ConsumedIs ==
  ASSUME line \in Seq(Lexemes), NEW s \in Seq(Lexemes), NEW p, Rest(s, p)
  PROVE  Len(line) - Len(s) = p /\ p \in Nat
BY DEF Rest
LEMMA RestEnd ==
  ASSUME line \in Seq(Lexemes), NEW s \in Seq(Lexemes), NEW p, Rest(s, p)
  PROVE  p <= Len(line) /\ (s = <<>> <=> p = Len(line))
<1>1. Len(s) \in Nat /\ Len(line) \in Nat /\ (s = <<>> <=> Len(s) = 0)
  OBVIOUS
<1>2. p \in Nat /\ p + Len(s) = Len(line)
  BY DEF Rest
<1> QED
  BY <1>1, <1>2

LEMMA OrderInvInit == ParserInit => OrderInv
<1> SUFFICES ASSUME ParserInit PROVE OrderInv
  OBVIOUS
<1>1. line \in Seq(Lexemes) /\ input = line /\ results = <<>> /\ executed = <<>> /\ pc = "start"
  BY ParserConstants DEF ParserInit, Lines
<1>2. Consumed = 0 /\ Rest(input, 0)
  BY <1>1 DEF Consumed, Rest
<1>3. Fresh(0)
  BY DEF Fresh
<1>4. Names = <<>> /\ DOMAIN Names = {}
  BY <1>1 DEF Names
<1>5. <<>> \in Positions(Names, line)
  BY <1>1, <1>4 DEF Positions
<1>6. Covers(<<>>, Names, 0)
  BY <1>1, <1>4, <1>5, StartsType DEF Covers
<1> QED
  BY <1>1, <1>2, <1>3, <1>6 DEF OrderInv

\* What a step of the parser has to show: where it reads on, and what it has found.
LEMMA OrderKept ==
  ASSUME ParserInv, ParserInv', OrderInv, UNCHANGED <<line, executed>>, executed = <<>>,
         NEW q, Rest(input', q),
         pc' \in {"start", "loop"} => Fresh(q),
         pc' = "args" => ~Fresh(q),
         pc' \in {"start", "loop", "args", "end"} => \E at : Covers(at, Names', q),
         pc' \in {"parsed", "done"} => Positions(Names', line) # {}
  PROVE  OrderInv'
<1>1. line \in Seq(Lexemes) /\ input' \in Seq(Lexemes) /\ line' = line /\ executed' = <<>>
      /\ Len(results') \in Nat
  BY DEF ParserInv, ParserTypeOK
<1>2. Consumed' = q
  BY <1>1, ConsumedIs DEF Consumed
<1> QED
  BY <1>1, <1>2 DEF OrderInv, Rest, Fresh, Covers

LEMMA OrderInvStep ==
  ASSUME ParserInv, OrderInv, [ParserNext]_parserVars
  PROVE  OrderInv'
<1>a. ParserInv'
  BY ParserInvStep
<1>b. /\ line \in Seq(Lexemes) /\ input \in Seq(Lexemes) /\ NoRuns(input)
      /\ ParserTypeOK /\ Names \in Seq(Words)
  BY NamesType DEF ParserInv, ParserTypeOK
<1> DEFINE p == Consumed
<1>c. Rest(input, p) /\ p \in Nat
  BY <1>b, ConsumedIs DEF OrderInv, Rest
<1>d. pc \notin {"parsed", "done"} => executed = <<>>
  BY DEF OrderInv
<1> HIDE DEF p
<1>1. CASE UNCHANGED parserVars
  <2>1. UNCHANGED <<line, input, results, arg, pc, executed>>
    BY <1>1 DEF parserVars
  <2>2. Consumed' = Consumed /\ Names' = Names
    BY <2>1 DEF Consumed, Names
  <2> QED
    BY <2>1, <2>2 DEF OrderInv, Rest, Fresh, Covers
<1>2. CASE Start
  <2>1. pc = "start" /\ input' = Skip(input).rest /\ pc' = "loop" /\ UNCHANGED <<line, results, executed>>
    BY <1>2 DEF Start
  <2>2. PICK q \in Nat : /\ Rest(Skip(input).rest, q) /\ p <= q
                         /\ \A j \in p + 1 .. q : line[j] \in {"space", "semi"}
    BY <1>b, <1>c, RestSkip
  <2>3. Fresh(p) /\ \E at : Covers(at, Names, p)
    BY <2>1 DEF OrderInv, p
  <2>4. Fresh(q)
    BY <1>c, <2>2, <2>3, FreshSkipped
  <2>5. \E at : Covers(at, Names, q)
    BY <1>b, <1>c, <2>2, <2>3, NoStart, CoversMoved
  <2>6. Names' = Names
    BY <2>1 DEF Names
  <2> QED
    BY <1>a, <1>d, <2>1, <2>2, <2>4, <2>5, <2>6, OrderKept
<1>3. CASE InputConsumed
  <2>1. pc = "loop" /\ pc' = "parsed" /\ UNCHANGED <<line, input, results, executed>>
    BY <1>3 DEF InputConsumed
  <2>2. Positions(Names, line) # {}
    BY <2>1 DEF OrderInv, Covers
  <2>3. Names' = Names
    BY <2>1 DEF Names
  <2> QED
    BY <1>a, <1>c, <1>d, <2>1, <2>2, <2>3, OrderKept
<1>4. CASE ParseBadName
  <2>1. pc = "loop" /\ pc' = "refused" /\ UNCHANGED <<line, input, executed>>
    BY <1>4 DEF ParseBadName, Refuse
  <2> QED
    BY <1>a, <1>c, <1>d, <2>1, OrderKept
<1>5. CASE ParseUnknownName
  <2>1. pc = "loop" /\ pc' = "refused" /\ UNCHANGED <<line, input, executed>>
    BY <1>5 DEF ParseUnknownName, Refuse
  <2> QED
    BY <1>a, <1>c, <1>d, <2>1, OrderKept
<1>6. CASE ParseName
  <2> DEFINE inv == [name |-> Head(input), declared |-> TRUE, current |-> -1, termination |-> "none"]
  <2>1. /\ pc = "loop" /\ pc' = "args" /\ input # <<>> /\ Head(input) \in Commands
        /\ results' = Append(results, inv) /\ input' = Tail(input) /\ UNCHANGED <<line, executed>>
    BY <1>6 DEF ParseName
  <2>2. /\ p + 1 \in DOMAIN line /\ line[p + 1] = Head(input) /\ Rest(input', p + 1) /\ p + 1 \in Nat
    BY <1>b, <1>c, <2>1, RestTail
  <2>3. /\ line[p + 1] \in Words /\ line[p + 1] \notin {"space", "semi"}
    BY <2>1, <2>2, ParserConstants DEF Words
  <2>4. Fresh(p) /\ \E at : Covers(at, Names, p)
    BY <2>1 DEF OrderInv, p
  <2>5. p + 1 \in CommandStarts(line)
    BY <1>b, <1>c, <2>2, <2>3, <2>4, StartHere
  <2>6. Names' = Append(Names, line[p + 1])
    <3>1. inv \in Result /\ inv.name = Head(input)
      BY <2>1 DEF Result, Words
    <3> QED
      BY <1>b, <2>1, <2>2, <3>1, NamesAppended
  <2>7. \E at : Covers(at, Names', p + 1)
    BY <1>b, <1>c, <2>4, <2>5, <2>6, CoversExtended
  <2>8. ~Fresh(p + 1)
    BY <1>c, <2>2, <2>3, StaleWord
  <2> HIDE DEF inv
  <2> QED
    BY <1>a, <1>d, <2>1, <2>2, <2>7, <2>8, OrderKept
<1>7. ASSUME pc = "args", NEW s, s = Skip(input),
             SetCurrent(Advance(Current, s)), UNCHANGED line
      PROVE  Names' = Names
  <2>1. results # <<>> /\ Current \in Result /\ s.skipped \in BOOLEAN
    BY <1>7, <1>b, SkipType, CurrentType DEF ParserInv, ArgPosition
  <2>2. Advance(Current, s).name = Current.name
    BY <2>1, AdvanceBounds
  <2> QED
    BY <1>7, <1>b, <2>1, <2>2, NamesKept
<1>8. CASE ParseNoArg
  <2>1. /\ pc = "args" /\ SetCurrent(Advance(Current, Skip(input))) /\ input' = Skip(input).rest
        /\ pc' \in {"end", "refused"} /\ UNCHANGED <<line, executed>>
    BY <1>8 DEF ParseNoArg, Refuse
  <2>2. Names' = Names
    BY <1>7, <2>1
  <2>3. PICK q \in Nat : /\ Rest(Skip(input).rest, q) /\ p <= q
                         /\ \A j \in p + 1 .. q : line[j] \in {"space", "semi"}
    BY <1>b, <1>c, RestSkip
  <2>4. \E at : Covers(at, Names, p)
    BY <2>1 DEF OrderInv, p
  <2>5. \E at : Covers(at, Names, q)
    BY <1>b, <1>c, <2>3, <2>4, NoStart, CoversMoved
  <2> QED
    BY <1>a, <1>d, <2>1, <2>2, <2>3, <2>5, OrderKept
<1>9. CASE ParseArg
  <2> DEFINE s == Skip(input)
  <2>1. /\ pc = "args" /\ s.term = "none" /\ SetCurrent(Advance(Current, s)) /\ UNCHANGED <<line, executed>>
        /\ \/ pc' = "args" /\ Head(s.rest) \in Words /\ input' = Tail(s.rest)
           \/ pc' = "refused" /\ input' = s.rest
    BY <1>9 DEF ParseArg, Refuse
  <2>2. Names' = Names
    BY <1>7, <2>1
  <2>3. PICK q \in Nat : Rest(s.rest, q) /\ p <= q /\ \A j \in p + 1 .. q : line[j] = "space"
    BY <1>b, <1>c, <2>1, RestSkip
  <2>4. s.rest \in Seq(Lexemes) /\ s.rest # <<>>
    BY <1>b, <2>1, SkipType
  <2>5. ~Fresh(p) /\ \E at : Covers(at, Names, p)
    BY <2>1 DEF OrderInv, p
  <2>6. ~Fresh(q) /\ \E at : Covers(at, Names, q)
    BY <1>b, <1>c, <2>3, <2>5, StaleSkipped, NoStart, CoversMoved
  <2> HIDE DEF s
  <2>7. CASE pc' = "args" /\ Head(s.rest) \in Words /\ input' = Tail(s.rest)
    <3>1. line[q + 1] \in Words /\ Rest(input', q + 1) /\ q + 1 \in Nat
      BY <1>b, <2>3, <2>4, <2>7, RestTail
    <3>2. ~Fresh(q + 1)
      BY <3>1, StaleWord
    <3>3. q + 1 \notin CommandStarts(line)
      BY <1>b, <2>6, NoStartBehind
    <3>4. \A j \in q + 1 .. q + 1 : j \notin CommandStarts(line)
      BY <3>3
    <3>5. \E at : Covers(at, Names, q + 1)
      BY <1>b, <2>6, <3>1, <3>4, CoversMoved
    <3> QED
      BY <1>a, <1>d, <2>1, <2>2, <2>7, <3>1, <3>2, <3>5, OrderKept
  <2>8. CASE pc' = "refused" /\ input' = s.rest
    BY <1>a, <1>d, <2>1, <2>3, <2>8, OrderKept
  <2> QED
    BY <2>1, <2>7, <2>8
<1>10. CASE ArgsParsed
  <2>1. pc = "args" /\ pc' = "end" /\ UNCHANGED <<line, input, results, executed>>
    BY <1>10 DEF ArgsParsed
  <2>2. \E at : Covers(at, Names, p)
    BY <2>1 DEF OrderInv, p
  <2>3. Names' = Names
    BY <2>1 DEF Names
  <2> QED
    BY <1>a, <1>c, <1>d, <2>1, <2>2, <2>3, OrderKept
<1>11. CASE EndCommand
  <2> DEFINE s   == Skip(input)
             inv == [Current EXCEPT !.termination = s.term]
  <2>1. /\ pc = "end" /\ SetCurrent(inv) /\ input' = s.rest /\ UNCHANGED <<line, executed>>
        /\ pc' = IF s.term = "command" THEN "loop" ELSE "parsed"
    BY <1>11 DEF EndCommand
  <2>2. results # <<>> /\ Current \in Result
    BY <1>b, <2>1, CurrentType DEF ParserInv, ArgPosition
  <2>3. inv.name = Current.name
    BY <2>2 DEF Result
  <2>4. Names' = Names
    <3> HIDE DEF inv
    <3> QED
      BY <1>b, <2>1, <2>2, <2>3, NamesKept
  <2>5. PICK q \in Nat : /\ Rest(s.rest, q) /\ p <= q
                         /\ \A j \in p + 1 .. q : line[j] \in {"space", "semi"}
                         /\ s.term = "command" => \E j \in p + 1 .. q : line[j] = "semi"
    BY <1>b, <1>c, RestSkip
  <2>6. \E at : Covers(at, Names, p)
    BY <2>1 DEF OrderInv, p
  <2>7. \E at : Covers(at, Names, q)
    BY <1>b, <1>c, <2>5, <2>6, NoStart, CoversMoved
  <2>8. s.term = "command" => Fresh(q)
    BY <1>c, <2>5, FreshSkipped
  <2>9. Positions(Names, line) # {}
    BY <2>7 DEF Covers
  <2> HIDE DEF s, inv
  <2>10. (pc' = "loop" /\ s.term = "command") \/ pc' = "parsed"
    BY <2>1
  <2> QED
    BY <1>a, <1>d, <2>1, <2>4, <2>5, <2>7, <2>8, <2>9, <2>10, OrderKept
<1>12. CASE Interpret
  <2>1. pc = "parsed" /\ pc' \in {"parsed", "done"} /\ UNCHANGED <<line, input, results>>
    BY <1>12 DEF Interpret
  <2>2. Len(executed) \in Nat /\ Len(results) \in Nat /\ executed \in Seq(Words)
        /\ DOMAIN results = 1 .. Len(results)
    BY <1>b DEF ParserTypeOK
  <2>3. Len(executed) <= Len(results) /\ \A i \in DOMAIN executed : executed[i] = Names[i]
    BY DEF OrderInv
  <2>4. Len(executed') <= Len(results) /\ \A i \in DOMAIN executed' : executed'[i] = Names[i]
    <3>1. CASE Len(executed) < Len(results)
      <4> DEFINE n == Len(executed) + 1
      <4>1. executed' = Append(executed, results[n].name) /\ n \in DOMAIN results
        BY <1>12, <2>2, <3>1 DEF Interpret
      <4>2. results[n].name = Names[n] /\ Names[n] \in Words
        BY <1>b, <4>1, NamesType DEF Names
      <4>3. executed' = Append(executed, Names[n])
        BY <4>1, <4>2
      <4> QED
        BY <2>2, <2>3, <3>1, <4>2, <4>3
    <3>2. CASE ~(Len(executed) < Len(results))
      BY <1>12, <2>3, <3>2 DEF Interpret
    <3> QED
      BY <3>1, <3>2
  <2>5. Names' = Names /\ Consumed' = Consumed
    BY <2>1 DEF Names, Consumed
  <2> QED
    BY <2>1, <2>4, <2>5 DEF OrderInv, Rest
<1>13. CASE Help
  <2>1. pc = "refused" /\ pc' \in {"panic", "helped"} /\ UNCHANGED <<line, input, executed>>
    BY <1>13 DEF Help
  <2> QED
    BY <1>a, <1>c, <1>d, <2>1, OrderKept
<1> QED
  BY <1>1, <1>2, <1>3, <1>4, <1>5, <1>6, <1>8, <1>9, <1>10, <1>11, <1>12, <1>13 DEF ParserNext

\* For every command set and lines of any length: what runs are the first commands of
\* the line, in its order; no argument, and nothing after an error, runs as a command
\* (parser.go:93, interpreter.go:529).
THEOREM CommandsRunInOrder == ParserSpec => []ExecutesInOrder
<1>1. ParserInit => ParserInv /\ OrderInv
  BY ParserInvInit, OrderInvInit
<1>2. ParserInv /\ OrderInv /\ [ParserNext]_parserVars => (ParserInv /\ OrderInv)'
  BY ParserInvStep, OrderInvStep
<1>3. ParserInv /\ OrderInv => ExecutesInOrder
  <2> SUFFICES ASSUME ParserInv, OrderInv PROVE Positions(executed, line) # {}
    BY DEF ExecutesInOrder
  <2>1. line \in Seq(Lexemes) /\ executed \in Seq(Words) /\ Names \in Seq(Words) /\ Len(Names) = Len(results)
    BY NamesType DEF ParserInv, ParserTypeOK
  <2>2. CASE pc \in {"parsed", "done"}
    BY <2>1, <2>2, FirstOfThem DEF OrderInv
  <2>3. CASE pc \notin {"parsed", "done"}
    <3>1. executed = <<>>
      BY <2>3 DEF OrderInv
    <3>2. <<>> \in Positions(<<>>, line)
      BY DEF Positions
    <3> QED
      BY <3>1, <3>2
  <2> QED
    BY <2>2, <2>3
<1> QED
  BY <1>1, <1>2, <1>3, PTL DEF ParserSpec
-------------------------------------------------------------------------------
\* Well-formed lines

LEMMA CurrentSet ==
  ASSUME ParserTypeOK, results # <<>>, NEW inv, SetCurrent(inv)
  PROVE  Current' = inv
<1>1. results \in Seq(Result) /\ Len(results) \in DOMAIN results
  BY CurrentType DEF ParserTypeOK
<1>2. Len(results') = Len(results) /\ results'[Len(results)] = inv
  BY <1>1 DEF SetCurrent
<1> QED
  BY <1>2 DEF Current

LEMMA TerminatedSplit ==
  ASSUME NEW c \in Nat, NEW p \in Nat, NEW q \in Nat, c <= p, p <= q
  PROVE  Terminated(line, c, q) <=> Terminated(line, c, p) \/ \E k \in p + 1 .. q : line[k] = "semi"
<1>1. c .. q = (c .. p) \cup (p + 1 .. q)
  OBVIOUS
<1> QED
  BY <1>1 DEF Terminated, IsSemi

\* In a well-formed line, what comes where a command may start is a command.
LEMMA NextIsCommand ==
  ASSUME line \in Seq(Lexemes), WellFormed, NEW p \in Nat, Fresh(p),
         p + 1 \in DOMAIN line, line[p + 1] # "space"
  PROVE  p + 1 \in CommandStarts(line) /\ line[p + 1] \in Commands
<1>1. line[p + 1] # "semi"
  <2> SUFFICES ASSUME line[p + 1] = "semi" PROVE FALSE
    OBVIOUS
  <2>1. PICK j \in CommandStarts(line) : j < p + 1 /\ ~Terminated(line, j, p + 1 - 1)
    BY DEF WellFormed, GoodLine, NoBlankCommand, IsSemi
  <2>2. j \in 1 .. p /\ line[j] # "space" /\ p + 1 - 1 = p
    BY <2>1 DEF CommandStarts
  <2> QED
    BY <2>1, <2>2 DEF Fresh
<1>2. p + 1 \in CommandStarts(line)
  BY <1>1, StartHere
<1> QED
  BY <1>2 DEF WellFormed, GoodLine, GoodCommand

\* The arguments up to p, and those of the whole command.
LEMMA SoFarType ==
  ASSUME line \in Seq(Lexemes), NEW c \in Nat, NEW p \in Nat, c <= p, p <= Len(line), ~Terminated(line, c, p)
  PROVE  /\ IsFiniteSet(ArgumentsSoFar(c, p)) /\ Cardinality(ArgumentsSoFar(c, p)) \in Nat
         /\ IsFiniteSet(ArgumentsOf(line, c)) /\ Cardinality(ArgumentsOf(line, c)) \in Nat
         /\ ArgumentsSoFar(c, p) \subseteq ArgumentsOf(line, c)
<1>1. ArgumentsSoFar(c, p) \subseteq c + 1 .. p /\ ArgumentsOf(line, c) \subseteq c + 1 .. Len(line)
  BY DEF ArgumentsSoFar, ArgumentsOf
<1>2. IsFiniteSet(c + 1 .. p) /\ IsFiniteSet(c + 1 .. Len(line))
  BY FS_Interval
<1>3. IsFiniteSet(ArgumentsSoFar(c, p)) /\ IsFiniteSet(ArgumentsOf(line, c))
  BY <1>1, <1>2, FS_Subset
<1>4. Cardinality(ArgumentsSoFar(c, p)) \in Nat /\ Cardinality(ArgumentsOf(line, c)) \in Nat
  BY <1>3, FS_CardinalityType
<1>5. ASSUME NEW j \in ArgumentsSoFar(c, p) PROVE j \in ArgumentsOf(line, c)
  <2>1. j \in c + 1 .. p /\ j \in c + 1 .. Len(line) /\ line[j] # "space"
    BY DEF ArgumentsSoFar
  <2>2. ~Terminated(line, c, j)
    BY <2>1, TerminatedSplit
  <2> QED
    BY <2>1, <2>2 DEF ArgumentsOf
<1> QED
  BY <1>3, <1>4, <1>5

\* A terminator, or the end of the line, ends the arguments.
LEMMA NoMoreArguments ==
  ASSUME line \in Seq(Lexemes), NEW c \in Nat, NEW p \in Nat, c <= p, p <= Len(line),
         ~Terminated(line, c, p), NEW q \in Nat, p <= q,
         \A j \in p + 1 .. q : line[j] \in {"space", "semi"},
         q = Len(line) \/ \E j \in p + 1 .. q : line[j] = "semi"
  PROVE  ArgumentsOf(line, c) = ArgumentsSoFar(c, p)
<1>1. ArgumentsSoFar(c, p) \subseteq ArgumentsOf(line, c)
  BY SoFarType
<1>2. ASSUME NEW j \in ArgumentsOf(line, c) PROVE j \in ArgumentsSoFar(c, p)
  <2>1. j \in c + 1 .. Len(line) /\ line[j] # "space" /\ ~Terminated(line, c, j)
    BY DEF ArgumentsOf
  <2>2. j <= p
    <3> SUFFICES ASSUME p + 1 <= j PROVE FALSE
      BY <2>1
    <3>1. \A k \in p + 1 .. j : line[k] # "semi"
      BY <2>1, TerminatedSplit
    <3>2. j \in p + 1 .. j
      BY <2>1
    <3>3. j \notin p + 1 .. q
      BY <2>1, <3>1, <3>2
    <3>4. \A k \in p + 1 .. q : k \in p + 1 .. j
      BY <2>1, <3>3
    <3> QED
      BY <2>1, <3>1, <3>3, <3>4
  <2> QED
    BY <2>1, <2>2 DEF ArgumentsSoFar
<1> QED
  BY <1>1, <1>2

\* What follows white space behind an argument, and is no terminator, is the next one.
LEMMA NextArgument ==
  ASSUME line \in Seq(Lexemes), NEW c \in Nat, NEW p \in Nat, c <= p, p <= Len(line),
         ~Terminated(line, c, p), NEW q \in Nat, p <= q,
         \A j \in p + 1 .. q : line[j] = "space",
         q + 1 \in DOMAIN line, line[q + 1] \notin {"space", "semi"}
  PROVE  /\ ~Terminated(line, c, q + 1)
         /\ q + 1 \in ArgumentsOf(line, c)
         /\ Cardinality(ArgumentsSoFar(c, q + 1)) = Cardinality(ArgumentsSoFar(c, p)) + 1
<1>1. \A j \in p + 1 .. q + 1 : j \in p + 1 .. q \/ j = q + 1
  OBVIOUS
<1>2. \A j \in p + 1 .. q + 1 : line[j] # "semi"
  BY <1>1
<1>3. ~Terminated(line, c, q + 1)
  BY <1>2, TerminatedSplit
<1>4. q + 1 \in ArgumentsOf(line, c)
  BY <1>3 DEF ArgumentsOf
<1>5. ArgumentsSoFar(c, q + 1) = ArgumentsSoFar(c, p) \cup {q + 1}
  <2>1. c + 1 .. q + 1 = (c + 1 .. p) \cup (p + 1 .. q) \cup {q + 1}
    OBVIOUS
  <2> QED
    BY <2>1 DEF ArgumentsSoFar
<1>6. q + 1 \notin ArgumentsSoFar(c, p)
  BY DEF ArgumentsSoFar
<1>7. IsFiniteSet(ArgumentsSoFar(c, p))
  BY SoFarType
<1> QED
  BY <1>3, <1>4, <1>5, <1>6, <1>7, FS_AddElement

\* With as many arguments as a declaration has, a well-formed command has no more.
LEMMA AllArgumentsRead ==
  ASSUME line \in Seq(Lexemes), WellFormed, NEW c \in CommandStarts(line), NEW p \in Nat,
         c <= p, p <= Len(line), ~Terminated(line, c, p),
         Cardinality(ArgumentsSoFar(c, p)) = Len(Optional[line[c]])
  PROVE  ArgumentsOf(line, c) \subseteq 1 .. p
<1>1. c \in Nat
  BY StartsType
<1>2. /\ IsFiniteSet(ArgumentsOf(line, c)) /\ ArgumentsSoFar(c, p) \subseteq ArgumentsOf(line, c)
      /\ IsFiniteSet(ArgumentsSoFar(c, p)) /\ Cardinality(ArgumentsSoFar(c, p)) \in Nat
      /\ Cardinality(ArgumentsOf(line, c)) \in Nat
  BY <1>1, SoFarType
<1>3. Cardinality(ArgumentsOf(line, c)) <= Cardinality(ArgumentsSoFar(c, p))
  BY DEF WellFormed, GoodLine, GoodCommand
<1>4. ArgumentsOf(line, c) = ArgumentsSoFar(c, p)
  <2>1. Cardinality(ArgumentsSoFar(c, p)) <= Cardinality(ArgumentsOf(line, c))
        /\ (Cardinality(ArgumentsSoFar(c, p)) = Cardinality(ArgumentsOf(line, c))
              => ArgumentsSoFar(c, p) = ArgumentsOf(line, c))
    BY <1>2, FS_Subset
  <2> QED
    BY <1>2, <1>3, <2>1
<1>5. c + 1 .. p \subseteq 1 .. p
  BY <1>1
<1> QED
  BY <1>4, <1>5 DEF ArgumentsSoFar

\* When no command starts behind what was read, the names are those of all commands.
LEMMA CoversAll ==
  ASSUME line \in Seq(Lexemes), NEW at, NEW names, NEW p \in Nat, Covers(at, names, p), p = Len(line)
  PROVE  AllCommands(names, line)
<1>1. \A s \in CommandStarts(line) : s <= p
  BY StartsType
<1> QED
  BY <1>1 DEF Covers, AllCommands
LEMMA FullInvInit == ParserInit => FullInv
<1> SUFFICES ASSUME ParserInit PROVE FullInv
  OBVIOUS
<1>1. pc = "start" /\ \A i \in 1 .. Len(line) - 1 : ~Touch(line[i], line[i + 1])
  BY DEF ParserInit, Lines
<1> QED
  BY <1>1 DEF FullInv

\* What a step of the parser has to show of a well-formed line.
LEMMA FullKept ==
  ASSUME ParserInv, ParserInv', FullInv, UNCHANGED line, NEW q, Rest(input', q),
         pc' \notin {"refused", "helped", "panic", "done"},
         pc' = "loop" /\ input' # <<>> => Head(input') # "space",
         pc' \in {"args", "end"} => \E c \in CommandStarts(line) : AtCommand(c, q)',
         pc' = "parsed" => AllCommands(Names', line)
  PROVE  FullInv'
<1>1. line \in Seq(Lexemes) /\ input' \in Seq(Lexemes) /\ line' = line
  BY DEF ParserInv, ParserTypeOK
<1>2. Consumed' = q
  BY <1>1, ConsumedIs DEF Consumed
<1> QED
  BY <1>1, <1>2 DEF FullInv

LEMMA FullInvStep ==
  ASSUME ParserInv, OrderInv, FullInv, [ParserNext]_parserVars
  PROVE  FullInv'
<1>a. ParserInv' /\ OrderInv'
  BY ParserInvStep, OrderInvStep
<1>b. /\ line \in Seq(Lexemes) /\ input \in Seq(Lexemes) /\ NoRuns(input)
      /\ ParserTypeOK /\ Names \in Seq(Words) /\ DOMAIN line = 1 .. Len(line) /\ Len(line) \in Nat
  BY NamesType DEF ParserInv, ParserTypeOK
<1>p. PICK p \in Nat : p = Consumed
  BY <1>b, ConsumedIs DEF OrderInv, Rest
<1>c. Rest(input, p) /\ p \in Nat /\ p <= Len(line)
  BY <1>b, <1>p DEF OrderInv, Rest
<1>d. UNCHANGED line
  BY DEF ParserNext, parserVars, Start, InputConsumed, ParseBadName, ParseUnknownName, ParseName,
         ParseNoArg, ParseArg, ArgsParsed, EndCommand, Interpret, Help
<1> SUFFICES ASSUME WellFormed PROVE FullInv'
  BY <1>d DEF FullInv, WellFormed
<1>1. CASE UNCHANGED parserVars
  <2>1. UNCHANGED <<line, input, results, arg, pc, executed>>
    BY <1>1 DEF parserVars
  <2>2. Consumed' = Consumed /\ Names' = Names
    BY <2>1 DEF Consumed, Names
  <2>3. \A c \in CommandStarts(line) : AtCommand(c, p)' <=> AtCommand(c, p)
    BY <2>1 DEF AtCommand, ArgumentsSoFar, Current
  <2> QED
    BY <1>p, <2>1, <2>2, <2>3 DEF FullInv, WellFormed
<1>2. CASE Start
  <2>1. pc' = "loop" /\ input' = Skip(input).rest
    BY <1>2 DEF Start
  <2>2. PICK q \in Nat : /\ Rest(Skip(input).rest, q)
                         /\ Skip(input).rest # <<>> => Head(Skip(input).rest) # "space"
    BY <1>b, <1>c, RestSkip
  <2> QED
    BY <1>a, <1>d, <2>1, <2>2, FullKept
<1>3. CASE InputConsumed
  <2>1. pc = "loop" /\ input = <<>> /\ pc' = "parsed" /\ UNCHANGED <<line, input, results>>
    BY <1>3 DEF InputConsumed
  <2>2. p = Len(line)
    BY <1>b, <1>c, <2>1, RestEnd
  <2>3. AllCommands(Names, line)
    BY <1>p, <1>b, <1>c, <2>1, <2>2, CoversAll DEF OrderInv
  <2>4. Names' = Names
    BY <2>1 DEF Names
  <2> QED
    BY <1>a, <1>c, <1>d, <2>1, <2>3, <2>4, FullKept
<1>4. ASSUME pc = "loop", input # <<>>
      PROVE  /\ Head(input) \in Commands /\ Rest(Tail(input), p + 1)
             /\ p + 1 \in CommandStarts(line) /\ line[p + 1] = Head(input) /\ p + 1 \in Nat
  <2>1. /\ p + 1 \in DOMAIN line /\ Head(input) = line[p + 1] /\ Rest(Tail(input), p + 1)
    BY <1>b, <1>c, <1>4, RestTail
  <2>2. Fresh(p) /\ Head(input) # "space"
    BY <1>p, <1>4 DEF OrderInv, FullInv
  <2>3. p + 1 \in CommandStarts(line) /\ line[p + 1] \in Commands
    BY <1>b, <1>c, <2>1, <2>2, NextIsCommand
  <2> QED
    BY <1>c, <2>1, <2>3
<1>5. CASE ParseBadName
  BY <1>4, <1>5 DEF ParseBadName, Words
<1>6. CASE ParseUnknownName
  BY <1>4, <1>6 DEF ParseUnknownName
<1>7. CASE ParseName
  <2> DEFINE inv == [name |-> Head(input), declared |-> TRUE, current |-> -1, termination |-> "none"]
             c   == p + 1
  <2>1. /\ pc = "loop" /\ input # <<>> /\ pc' = "args" /\ results' = Append(results, inv)
        /\ input' = Tail(input) /\ arg' = 1
    BY <1>7 DEF ParseName
  <2>2. Head(input) \in Commands /\ Rest(input', c) /\ c \in CommandStarts(line) /\ line[c] = Head(input)
        /\ c \in Nat
    BY <1>4, <2>1
  <2>3. inv.name = line[c]
    BY <2>2
  <2>4. Current' = inv
    <3> HIDE DEF inv
    <3>1. Len(results') = Len(results) + 1 /\ results'[Len(results) + 1] = inv
      <4>1. results \in Seq(Result)
        BY <1>b DEF ParserTypeOK
      <4>2. inv \in Result
        BY <2>2 DEF inv, Result, Words
      <4> QED
        BY <2>1, <4>1, <4>2
    <3> QED
      BY <3>1 DEF Current
  <2>5. \A k \in c .. c : k = c
    BY <2>2
  <2>6. ~Terminated(line, c, c) /\ line[c] \in Words
    BY <2>2, <2>5, ParserConstants DEF Terminated, IsSemi, Words
  <2>7. Cardinality(ArgumentsSoFar(c, c)) = 0
    <3>1. c + 1 .. c = {}
      BY <2>2
    <3>2. ArgumentsSoFar(c, c) = {}
      BY <3>1 DEF ArgumentsSoFar
    <3> QED
      BY <3>2, FS_EmptySet
  <2> HIDE DEF inv, c
  <2>8. AtCommand(c, c)'
    BY <1>d, <2>1, <2>2, <2>3, <2>4, <2>6, <2>7 DEF AtCommand, ArgumentsSoFar
  <2> QED
    BY <1>a, <1>d, <2>1, <2>2, <2>8, FullKept
<1>8. ASSUME pc \in {"args", "end"}
      PROVE  \E c \in CommandStarts(line) : AtCommand(c, p) /\ c \in Nat /\ c # 0 /\ c <= p
  <2>1. PICK c \in CommandStarts(line) : AtCommand(c, p)
    BY <1>p, <1>8 DEF FullInv
  <2> QED
    BY <1>b, <2>1, StartsType DEF AtCommand
<1>9. ASSUME pc = "args", NEW s, s = Skip(input), SetCurrent(Advance(Current, s))
      PROVE  Current'.name = Current.name
  <2>1. results # <<>> /\ Current \in Result /\ s.skipped \in BOOLEAN
    BY <1>9, <1>b, SkipType, CurrentType DEF ParserInv, ArgPosition
  <2>2. Advance(Current, s).name = Current.name
    BY <2>1, AdvanceBounds
  <2> QED
    BY <1>9, <1>b, <2>1, <2>2, CurrentSet
<1>10. CASE ParseNoArg
  <2> DEFINE s == Skip(input)
  <2>1. /\ pc = "args" /\ MoreArgs /\ s.term # "none" /\ SetCurrent(Advance(Current, s))
        /\ input' = s.rest
        /\ IF Optional[Current.name][arg] THEN pc' = "end" ELSE pc' = "refused"
    BY <1>10 DEF ParseNoArg, Refuse
  <2>2. PICK c \in CommandStarts(line) : AtCommand(c, p) /\ c \in Nat /\ c # 0 /\ c <= p
    BY <1>8, <2>1
  <2>3. s.rest \in Seq(Lexemes) /\ s.term \in {"input", "command"}
    BY <1>b, <2>1, SkipType
  <2>4. PICK q \in Nat : /\ Rest(s.rest, q) /\ p <= q
                         /\ \A j \in p + 1 .. q : line[j] \in {"space", "semi"}
                         /\ s.term = "command" => \E j \in p + 1 .. q : line[j] = "semi"
                         /\ s.term = "input" => s.rest = <<>>
                         /\ s.rest # <<>> => Head(s.rest) # "space"
    BY <1>b, <1>c, RestSkip
  <2> HIDE DEF s
  <2>5. q = Len(line) \/ \E j \in p + 1 .. q : line[j] = "semi"
    BY <2>3, <2>4 DEF Rest
  <2>6. /\ Current.name = line[c] /\ ~Terminated(line, c, p)
        /\ arg = Cardinality(ArgumentsSoFar(c, p)) + 1
        /\ \A r \in CommandStarts(line) : r <= p => r <= c
    BY <2>1, <2>2 DEF AtCommand
  <2>7. ArgumentsOf(line, c) = ArgumentsSoFar(c, p)
    BY <1>b, <1>c, <2>2, <2>4, <2>5, <2>6, NoMoreArguments
  <2>8. Cardinality(ArgumentsOf(line, c)) = arg - 1 /\ arg \in Nat \ {0}
    <3>1. Cardinality(ArgumentsSoFar(c, p)) \in Nat
      BY <1>b, <1>c, <2>2, <2>6, SoFarType
    <3> QED
      BY <2>6, <2>7, <3>1
  <2>9. arg <= Len(Optional[line[c]]) /\ Len(Optional[line[c]]) \in Nat
    <3>1. line[c] \in Commands
      BY DEF WellFormed, GoodLine, GoodCommand
    <3> QED
      BY <2>1, <2>6, <3>1, OptionalType DEF MoreArgs
  <2>10. Optional[line[c]][arg]
    <3>1. \A k \in Cardinality(ArgumentsOf(line, c)) + 1 .. Len(Optional[line[c]]) : Optional[line[c]][k]
      BY DEF WellFormed, GoodLine, GoodCommand
    <3>2. arg \in Cardinality(ArgumentsOf(line, c)) + 1 .. Len(Optional[line[c]])
      BY <2>8, <2>9
    <3> QED
      BY <3>1, <3>2
  <2>11. pc' = "end"
    BY <2>1, <2>6, <2>10
  <2>12. \A r \in CommandStarts(line) : ~(c < r)
    BY <2>8, <2>9 DEF WellFormed, FullButLast, FullCommand
  <2>13. s.rest = <<>>
    <3> SUFFICES ASSUME s.rest # <<>> PROVE FALSE
      OBVIOUS
    <3>1. q + 1 \in DOMAIN line /\ line[q + 1] # "space"
      BY <1>b, <2>3, <2>4, RestTail
    <3>2. s.term = "command"
      BY <2>3, <2>4
    <3>3. Fresh(q)
      BY <1>c, <2>4, <3>2, FreshSkipped
    <3>4. q + 1 \in CommandStarts(line)
      BY <1>b, <3>1, <3>3, NextIsCommand
    <3> QED
      BY <1>c, <2>2, <2>4, <2>12, <3>4
  <2>14. \A r \in CommandStarts(line) : r <= c
    BY <1>b, <2>2, <2>12, StartsType
  <2>15. Current'.name = line[c]
    BY <1>9, <2>1, <2>6 DEF s
  <2>16. AtCommand(c, q)'
    BY <1>c, <1>d, <2>1, <2>2, <2>4, <2>11, <2>13, <2>14, <2>15 DEF AtCommand
  <2> QED
    BY <1>a, <1>d, <2>1, <2>4, <2>11, <2>16, FullKept
<1>11. CASE ParseArg
  <2> DEFINE s == Skip(input)
  <2>1. /\ pc = "args" /\ s.term = "none" /\ SetCurrent(Advance(Current, s))
        /\ IF s.skipped /\ Head(s.rest) \in Words
             THEN input' = Tail(s.rest) /\ arg' = arg + 1 /\ pc' = "args"
             ELSE pc' = "refused"
    BY <1>11 DEF ParseArg, Refuse
  <2>2. PICK c \in CommandStarts(line) : AtCommand(c, p) /\ c \in Nat /\ c # 0 /\ c <= p
    BY <1>8, <2>1
  <2>3. s.rest \in Seq(Lexemes) /\ s.rest # <<>> /\ s.skipped \in BOOLEAN
    BY <1>b, <2>1, SkipType
  <2>4. PICK q \in Nat : /\ Rest(s.rest, q) /\ p <= q
                         /\ \A j \in p + 1 .. q : line[j] = "space"
                         /\ Head(s.rest) \notin {"space", "semi"}
                         /\ ~s.skipped => q = p
    BY <1>b, <1>c, <2>1, <2>3, RestSkip
  <2> HIDE DEF s
  <2>5. q + 1 \in DOMAIN line /\ Head(s.rest) = line[q + 1] /\ Rest(Tail(s.rest), q + 1)
    BY <1>b, <2>3, <2>4, RestTail
  <2>6. /\ Current.name = line[c] /\ ~Terminated(line, c, p) /\ line[p] \in Words
        /\ arg = Cardinality(ArgumentsSoFar(c, p)) + 1
        /\ \A r \in CommandStarts(line) : r <= p => r <= c
    BY <2>1, <2>2 DEF AtCommand
  <2>7. /\ ~Terminated(line, c, q + 1) /\ q + 1 \in ArgumentsOf(line, c)
        /\ Cardinality(ArgumentsSoFar(c, q + 1)) = Cardinality(ArgumentsSoFar(c, p)) + 1
    BY <1>b, <1>c, <2>2, <2>4, <2>5, <2>6, NextArgument
  <2>8. line[q + 1] \in Words
    BY <2>7 DEF WellFormed, GoodLine, GoodCommand
  <2>9. s.skipped
    <3> SUFFICES ASSUME q = p PROVE FALSE
      BY <2>3, <2>4
    <3>1. p \in 1 .. Len(line) - 1
      BY <1>b, <1>c, <2>2, <2>5
    <3> QED
      BY <2>6, <2>8, <3>1 DEF FullInv, Touch
  <2>10. input' = Tail(s.rest) /\ arg' = arg + 1 /\ pc' = "args"
    BY <2>1, <2>5, <2>8, <2>9
  <2>11. \A r \in CommandStarts(line) : r <= q + 1 => r <= c
    <3>1. ~Fresh(q)
      BY <1>p, <1>c, <2>1, <2>4, StaleSkipped DEF OrderInv
    <3>2. q + 1 \notin CommandStarts(line)
      BY <1>b, <2>4, <3>1, NoStartBehind
    <3>3. \A j \in p + 1 .. q : j \notin CommandStarts(line)
      BY <1>b, <2>4, NoStart
    <3> SUFFICES ASSUME NEW r \in CommandStarts(line), r <= q + 1 PROVE r <= p
      BY <2>6
    <3>4. r \in Nat /\ r # q + 1 /\ r \notin p + 1 .. q
      BY <1>b, <3>2, <3>3, StartsType
    <3> QED
      BY <1>c, <2>4, <3>4
  <2>12. Current'.name = line[c]
    BY <1>9, <2>1, <2>6 DEF s
  <2>13. c <= q + 1 /\ arg' = Cardinality(ArgumentsSoFar(c, q + 1)) + 1
    BY <1>c, <2>2, <2>4, <2>6, <2>7, <2>10
  <2>14. AtCommand(c, q + 1)'
    BY <1>d, <2>2, <2>7, <2>8, <2>10, <2>11, <2>12, <2>13 DEF AtCommand, ArgumentsSoFar
  <2> QED
    BY <1>a, <1>d, <2>5, <2>10, <2>14, FullKept
<1>12. CASE ArgsParsed
  <2>1. pc = "args" /\ ~MoreArgs /\ pc' = "end" /\ UNCHANGED <<line, input, results, arg>>
    BY <1>12 DEF ArgsParsed
  <2>2. PICK c \in CommandStarts(line) : AtCommand(c, p) /\ c \in Nat /\ c # 0 /\ c <= p
    BY <1>8, <2>1
  <2>3. /\ Current.name = line[c] /\ ~Terminated(line, c, p)
        /\ arg = Cardinality(ArgumentsSoFar(c, p)) + 1
        /\ \A r \in CommandStarts(line) : r <= p => r <= c
    BY <2>1, <2>2 DEF AtCommand
  <2>4. Len(Optional[line[c]]) \in Nat
    BY OptionalType DEF WellFormed, GoodLine, GoodCommand
  <2>5. Cardinality(ArgumentsSoFar(c, p)) \in Nat
    BY <1>b, <1>c, <2>2, <2>3, SoFarType
  <2>6. Cardinality(ArgumentsSoFar(c, p)) = Len(Optional[line[c]])
    BY <2>1, <2>3, <2>4, <2>5 DEF MoreArgs, ParserInv, ArgPosition
  <2>7. ArgumentsOf(line, c) \subseteq 1 .. p
    BY <1>b, <1>c, <2>2, <2>3, <2>6, AllArgumentsRead
  <2>8. Current' = Current
    BY <2>1 DEF Current
  <2>9. AtCommand(c, p)'
    BY <1>d, <2>1, <2>2, <2>3, <2>7, <2>8 DEF AtCommand
  <2>10. Rest(input', p)
    BY <1>c, <2>1
  <2> QED
    BY <1>a, <1>d, <2>1, <2>9, <2>10, FullKept
<1>13. CASE EndCommand
  <2> DEFINE s   == Skip(input)
             inv == [Current EXCEPT !.termination = s.term]
  <2>1. /\ pc = "end" /\ SetCurrent(inv) /\ input' = s.rest
        /\ pc' = IF s.term = "command" THEN "loop" ELSE "parsed"
    BY <1>13 DEF EndCommand
  <2>2. PICK c \in CommandStarts(line) : AtCommand(c, p) /\ c \in Nat /\ c # 0 /\ c <= p
    BY <1>8, <2>1
  <2>3. /\ s.rest \in Seq(Lexemes) /\ s.term \in {"input", "command", "none"}
        /\ s.term = "none" => s.rest # <<>>
    BY <1>b, SkipType
  <2>4. PICK q \in Nat : /\ Rest(s.rest, q) /\ p <= q
                         /\ \A j \in p + 1 .. q : line[j] \in {"space", "semi"}
                         /\ s.term # "command" => \A j \in p + 1 .. q : line[j] = "space"
                         /\ s.term = "input" => s.rest = <<>>
                         /\ s.term = "none" => Head(s.rest) # "semi"
                         /\ s.rest # <<>> => Head(s.rest) # "space"
    BY <1>b, <1>c, RestSkip
  <2>5. Names' = Names
    <3>1. results # <<>> /\ Current \in Result
      BY <1>b, <2>1, CurrentType DEF ParserInv, ArgPosition
    <3>2. inv.name = Current.name
      BY <3>1 DEF Result
    <3> HIDE DEF inv
    <3> QED
      BY <1>b, <2>1, <3>1, <3>2, NamesKept
  <2> HIDE DEF s, inv
  <2>6. q <= Len(line) /\ (s.rest = <<>> => q = Len(line))
    BY <1>b, <2>3, <2>4, RestEnd
  <2>7. s.term # "none"
    <3> SUFFICES ASSUME s.term = "none" PROVE FALSE
      OBVIOUS
    <3>1. q + 1 \in DOMAIN line /\ line[q + 1] \notin {"space", "semi"}
      BY <1>b, <2>3, <2>4, RestTail
    <3>2. CASE input = <<>>
      <4>1. p = Len(line)
        BY <1>b, <1>c, <3>2, RestEnd
      <4> QED
        BY <1>b, <2>4, <3>1, <4>1
    <3>3. CASE ~Terminated(line, c, p) /\ ArgumentsOf(line, c) \subseteq 1 .. p
      <4>1. q + 1 \in ArgumentsOf(line, c)
        BY <1>b, <1>c, <2>2, <2>4, <3>1, <3>3, NextArgument
      <4> QED
        BY <1>c, <2>4, <3>3, <4>1
    <3> QED
      BY <2>1, <2>2, <3>2, <3>3 DEF AtCommand
  <2>8. CASE s.term = "command"
    BY <1>a, <1>d, <2>1, <2>4, <2>8, FullKept
  <2>9. CASE s.term = "input"
    <3>1. \E at : Covers(at, Names, p)
      BY <1>p, <2>1 DEF OrderInv
    <3>2. \E at : Covers(at, Names, q)
      BY <1>b, <1>c, <2>4, <3>1, NoStart, CoversMoved
    <3>3. AllCommands(Names', line)
      BY <1>b, <2>4, <2>5, <2>6, <2>9, <3>2, CoversAll
    <3>4. pc' = "parsed" /\ Rest(input', q)
      BY <2>1, <2>4, <2>9
    <3> QED
      BY <1>a, <1>d, <3>3, <3>4, FullKept
  <2> QED
    BY <2>3, <2>7, <2>8, <2>9
<1>14. CASE Interpret
  <2>1. /\ pc = "parsed" /\ UNCHANGED <<line, input, results>>
        /\ \/ pc' = "parsed"
           \/ pc' = "done" /\ executed' = executed /\ ~(Len(executed) < Len(results))
    BY <1>14 DEF Interpret
  <2>2. Len(executed) <= Len(results) /\ Len(executed) \in Nat /\ Len(results) \in Nat
    BY <1>b DEF OrderInv, ParserTypeOK
  <2>3. pc' = "done" => Len(executed') = Len(results')
    BY <2>1, <2>2
  <2>4. Names' = Names
    BY <2>1 DEF Names
  <2>5. AllCommands(Names', line)
    BY <2>1, <2>4 DEF FullInv
  <2> QED
    BY <1>d, <2>1, <2>3, <2>5 DEF FullInv
<1>15. CASE Help
  BY <1>15 DEF Help, FullInv
<1> QED
  BY <1>1, <1>2, <1>3, <1>5, <1>6, <1>7, <1>10, <1>11, <1>12, <1>13, <1>14, <1>15 DEF ParserNext

\* For every command set and lines of any length: a line of well-formed commands runs
\* to its end when no command but the last leaves out an optional argument
\* (parser.go:93).
THEOREM FullLinesRun == ParserSpec => []ExecutesFullCommands
<1>1. ParserInit => ParserInv /\ OrderInv /\ FullInv
  BY ParserInvInit, OrderInvInit, FullInvInit
<1>2. ParserInv /\ OrderInv /\ FullInv /\ [ParserNext]_parserVars => (ParserInv /\ OrderInv /\ FullInv)'
  BY ParserInvStep, OrderInvStep, FullInvStep
<1>3. ParserInv /\ OrderInv /\ FullInv => ExecutesFullCommands
  <2> SUFFICES ASSUME ParserInv, OrderInv, FullInv, WellFormed, pc \in {"done", "helped", "panic"}
               PROVE  pc = "done" /\ AllCommands(executed, line)
    BY DEF ExecutesFullCommands, WellFormed
  <2>1. pc = "done" /\ AllCommands(Names, line) /\ Len(executed) = Len(results)
    BY DEF FullInv
  <2>2. executed \in Seq(Words) /\ Names \in Seq(Words) /\ Len(Names) = Len(results)
    BY NamesType DEF ParserInv, ParserTypeOK
  <2>3. \A i \in DOMAIN executed : executed[i] = Names[i]
    BY DEF OrderInv
  <2>4. executed = Names
    BY <2>1, <2>2, <2>3
  <2> QED
    BY <2>1, <2>4
<1> QED
  BY <1>1, <1>2, <1>3, PTL DEF ParserSpec
===============================================================================
