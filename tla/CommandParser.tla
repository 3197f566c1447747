---------------------------- MODULE CommandParser ----------------------------
(***************************************************************************)
(* How a line becomes commands: the parser (internal/cli/parser.go), its   *)
(* result metrics and the execution of what it returns (interpreter.go).   *)
(*                                                                         *)
(* A line is a sequence of lexemes: a run of white space, a terminator, a  *)
(* word, or something no rule matches (an unclosed quote).  Every command  *)
(* name is a word too, and a word is an argument of every type.  One       *)
(* action is one turn of a loop of the parser.                             *)
(***************************************************************************)
EXTENDS Integers, Sequences, FiniteSets

CONSTANTS Commands,  \* the names in the command set
          Optional,  \* [Commands -> Seq(BOOLEAN)]: per argument, may it be left out?
          MaxLength  \* bound: lexemes in a line

\* NewCommandDeclaration refuses an optional argument before a required one; a name
\* is no other lexeme.
ASSUME ParserConstants ==
  /\ Commands \cap {"word", "space", "semi", "bad"} = {}
  /\ \A c \in Commands : /\ Optional[c] \in Seq(BOOLEAN)
                         /\ \A i \in 1 .. Len(Optional[c]) - 1 : Optional[c][i] => Optional[c][i + 1]
  /\ MaxLength \in Nat

VARIABLES
  line,      \* what was typed
  input,     \* what the parser has not consumed
  results,   \* ParseResults.CommandResults
  arg,       \* index of the argument to parse next
  pc,        \* where the parser or the interpreter is
  executed   \* names of the commands executed

parserVars == <<line, input, results, arg, pc, executed>>

Words   == Commands \cup {"word"}
Lexemes == Words \cup {"space", "semi", "bad"}

\* Two words, or two runs of white space, that touch are one.
Touch(a, b) == (a \in Words /\ b \in Words) \/ (a = "space" /\ b = "space")
Lines == {l \in UNION {[1 .. n -> Lexemes] : n \in 0 .. MaxLength} :
            \A i \in 1 .. Len(l) - 1 : ~Touch(l[i], l[i + 1])}

Result == [name : Words, declared : BOOLEAN, current : Int,
           termination : {"none", "input", "command"}]

ParserTypeOK ==
  /\ line \in Seq(Lexemes) /\ input \in Seq(Lexemes)
  /\ results \in Seq(Result)
  /\ arg \in Nat \ {0} /\ executed \in Seq(Words)
  /\ pc \in {"start", "loop", "args", "end", "parsed", "refused", "done", "helped", "panic"}

-------------------------------------------------------------------------------
DropSpace(s) == IF s # <<>> /\ Head(s) = "space" THEN Tail(s) ELSE s

\* Mutant of Skip: the white space after a terminator stays.
SkipShort(s) ==
  LET t    == DropSpace(s)
      semi == t # <<>> /\ Head(t) = "semi"
  IN [rest    |-> IF semi THEN Tail(t) ELSE t,
      term    |-> IF semi THEN "command" ELSE IF t = <<>> THEN "input" ELSE "none",
      skipped |-> t # s]

\* parseSkip: white space, at most one terminator, white space.
Skip(s) ==
  LET t     == DropSpace(s)
      semi  == t # <<>> /\ Head(t) = "semi"
      u     == IF semi THEN Tail(t) ELSE t
      rest  == DropSpace(u)
  IN [rest    |-> rest,
      term    |-> IF semi THEN "command" ELSE IF t = <<>> THEN "input" ELSE "none",
      skipped |-> t # s \/ rest # u]

Current == results[Len(results)]  \* the invocation being parsed

\* The invocation with its argument counter moved on when something was skipped.
Advance(inv, s) == IF s.skipped THEN [inv EXCEPT !.current = @ + 1] ELSE inv
SetCurrent(inv) == results' = [results EXCEPT ![Len(results)] = inv]

Refuse == pc' = "refused"

-------------------------------------------------------------------------------
\* Parse

Start ==
  /\ pc = "start"
  /\ input' = Skip(input).rest
  /\ pc' = "loop"
  /\ UNCHANGED <<line, results, arg, executed>>

InputConsumed ==
  /\ pc = "loop" /\ input = <<>>
  /\ pc' = "parsed"
  /\ UNCHANGED <<line, input, results, arg, executed>>

\* Mutant of ParseBadName: an invocation is added for what is no name.
ParseBadNameAdded ==
  /\ pc = "loop" /\ input # <<>>
  /\ Head(input) \notin Words
  /\ results' = Append(results, [name |-> Head(input), declared |-> FALSE,
                                 current |-> -1, termination |-> "none"])
  /\ Refuse
  /\ UNCHANGED <<line, input, arg, executed>>

\* parseNextCommand: the name cannot be a name; nothing is added to the results.
ParseBadName ==
  /\ pc = "loop" /\ input # <<>>
  /\ Head(input) \notin Words
  /\ Refuse
  /\ UNCHANGED <<line, input, results, arg, executed>>

\* parseNextCommand: an unknown name is added, without a declaration.
ParseUnknownName ==
  /\ pc = "loop" /\ input # <<>>
  /\ Head(input) \in Words \ Commands
  /\ LET inv == [name |-> Head(input), declared |-> FALSE, current |-> -1, termination |-> "none"]
     IN  results' = Append(results, Advance(inv, Skip(Tail(input))))
  /\ Refuse
  /\ UNCHANGED <<line, input, arg, executed>>

ParseName ==
  /\ pc = "loop" /\ input # <<>>
  /\ Head(input) \in Commands
  /\ results' = Append(results, [name |-> Head(input), declared |-> TRUE,
                                 current |-> -1, termination |-> "none"])
  /\ input' = Tail(input)
  /\ arg' = 1 /\ pc' = "args"
  /\ UNCHANGED <<line, executed>>

\* Whether the loop of parseArgs has an argument left.
MoreArgs == arg <= Len(Optional[Current.name])

\* parseArgs: a terminator instead of an argument; it is consumed.
ParseNoArg ==
  /\ pc = "args" /\ MoreArgs
  /\ LET s == Skip(input) IN
       /\ s.term # "none"
       /\ SetCurrent(Advance(Current, s))
       /\ input' = s.rest
       /\ IF Optional[Current.name][arg] THEN pc' = "end" ELSE Refuse
  /\ UNCHANGED <<line, arg, executed>>

\* parseArgs: an argument, set off by white space and of the right type, or not.
ParseArg ==
  /\ pc = "args" /\ MoreArgs
  /\ LET s == Skip(input) IN
       /\ s.term = "none"
       /\ SetCurrent(Advance(Current, s))
       /\ IF s.skipped /\ Head(s.rest) \in Words
            THEN input' = Tail(s.rest) /\ arg' = arg + 1 /\ UNCHANGED pc
            ELSE input' = s.rest /\ UNCHANGED arg /\ Refuse
  /\ UNCHANGED <<line, executed>>

ArgsParsed ==
  /\ pc = "args" /\ ~MoreArgs
  /\ pc' = "end"
  /\ UNCHANGED <<line, input, results, arg, executed>>

\* Mutant of EndCommand: what follows a command counts as an argument.
EndCommandCounted ==
  /\ pc = "end"
  /\ LET s == Skip(input) IN
       /\ SetCurrent([Advance(Current, s) EXCEPT !.termination = s.term])
       /\ input' = s.rest
       /\ pc' = IF s.term = "command" THEN "loop" ELSE "parsed"
  /\ UNCHANGED <<line, arg, executed>>

\* Mutant of EndCommand: the next command needs no terminator.
EndCommandLax ==
  /\ pc = "end"
  /\ LET s == Skip(input) IN
       /\ SetCurrent([Current EXCEPT !.termination = s.term])
       /\ input' = s.rest
       /\ pc' = IF s.term = "input" THEN "parsed" ELSE "loop"
  /\ UNCHANGED <<line, arg, executed>>

\* The end of parseNextCommand and of the turn of Parse's loop: parsing goes on
\* only after a terminator, and what is left otherwise is dropped.
EndCommand ==
  /\ pc = "end"
  /\ LET s == Skip(input) IN
       /\ SetCurrent([Current EXCEPT !.termination = s.term])
       /\ input' = s.rest
       /\ pc' = IF s.term = "command" THEN "loop" ELSE "parsed"
  /\ UNCHANGED <<line, arg, executed>>

-------------------------------------------------------------------------------
\* ParseAndInterpret

\* Metrics: the result the cursor is in; one past the last after a terminator.
CurrentResultIndex ==
  IF Current.termination = "command" THEN Len(results) + 1 ELSE Len(results)

\* Interpret runs every result, whether or not the ones before it failed.
Interpret ==
  /\ pc = "parsed"
  /\ IF Len(executed) < Len(results)
       THEN executed' = Append(executed, results[Len(executed) + 1].name) /\ UNCHANGED pc
       ELSE pc' = "done" /\ UNCHANGED executed
  /\ UNCHANGED <<line, input, results, arg>>

\* A refused line: the usage of the current result, which must exist.
Help ==
  /\ pc = "refused"
  /\ pc' = IF results # <<>> /\ CurrentResultIndex > Len(results) THEN "panic" ELSE "helped"
  /\ UNCHANGED <<line, input, results, arg, executed>>

ParserInit ==
  /\ line \in Lines /\ input = line
  /\ results = <<>> /\ arg = 1 /\ executed = <<>>
  /\ pc = "start"

ParserNext ==
  \/ Start \/ InputConsumed \/ ParseBadName \/ ParseUnknownName \/ ParseName
  \/ ParseNoArg \/ ParseArg \/ ArgsParsed \/ EndCommand
  \/ Interpret \/ Help

ParserSpec == ParserInit /\ [][ParserNext]_parserVars

-------------------------------------------------------------------------------
\* Reference: positions in a line, without a parser.

IsSemi(x) == x = "semi"
Terminated(l, i, j) == \E k \in i .. j : IsSemi(l[k])

\* Where commands start: at what comes first in the line or after a terminator.
CommandStarts(l) ==
  {i \in DOMAIN l : /\ l[i] # "space" /\ ~IsSemi(l[i])
                    /\ \A j \in 1 .. i - 1 : l[j] = "space" \/ Terminated(l, j, i - 1)}

\* What follows the command that starts at i, up to its terminator.
ArgumentsOf(l, i) == {j \in i + 1 .. Len(l) : l[j] # "space" /\ ~Terminated(l, i, j)}

\* A command with as many arguments as its declaration takes.
GoodCommand(l, i) ==
  /\ l[i] \in Commands /\ \A j \in ArgumentsOf(l, i) : l[j] \in Words
  /\ LET n == Cardinality(ArgumentsOf(l, i))
         O == Optional[l[i]]
     IN  n <= Len(O) /\ \A k \in n + 1 .. Len(O) : O[k]

\* ... and with none left out.
FullCommand(l, i) == Cardinality(ArgumentsOf(l, i)) = Len(Optional[l[i]])

\* Every terminator ends a command.
NoBlankCommand(l) ==
  \A i \in DOMAIN l : IsSemi(l[i]) => \E j \in CommandStarts(l) : j < i /\ ~Terminated(l, j, i - 1)

GoodLine(l)    == NoBlankCommand(l) /\ \A i \in CommandStarts(l) : GoodCommand(l, i)
FullButLast(l) == \A i, j \in CommandStarts(l) : i < j => FullCommand(l, i)

\* Where in the line these names stand, if they are its first commands, in order.
Positions(names, l) ==
  {at \in [DOMAIN names -> CommandStarts(l)] :
     /\ \A i \in DOMAIN names : names[i] = l[at[i]]
     /\ \A i, j \in DOMAIN names : i < j => at[i] < at[j]
     /\ \A s \in CommandStarts(l), i \in DOMAIN names : s < at[i] => \E j \in DOMAIN names : at[j] = s}

\* ... and these are all of them.
AllCommands(names, l) ==
  \E at \in Positions(names, l) : \A s \in CommandStarts(l) : \E i \in DOMAIN names : at[i] = s

-------------------------------------------------------------------------------
\* Properties

\* The argument counter always names an argument of the declaration: Metrics,
\* which runs at every key stroke of the prompt, indexes Decl.Args with it.
CurrentArgDeclared ==
  \A i \in DOMAIN results :
    results[i].declared => results[i].current < Len(Optional[results[i].name])

\* Only what stands in command position is executed, in the order it was typed:
\* no argument and nothing after an error ever runs as a command.
ExecutesInOrder == Positions(executed, line) # {}

\* A line of well-formed commands runs to its end when no command but the last
\* leaves out an optional argument.
ExecutesFullCommands ==
  pc \in {"done", "helped", "panic"} /\ GoodLine(line) /\ FullButLast(line) =>
    pc = "done" /\ AllCommands(executed, line)

-------------------------------------------------------------------------------
\* What the documentation and the comments promise

\* README.md:190, "takes a semicolon separated list of commands, executes them".
ExecutesWholeList ==
  pc \in {"done", "helped", "panic"} /\ GoodLine(line) => AllCommands(executed, line)

\* interpreter.go:534, "Display help for the command if it is a valid command":
\* a line that is refused is answered, and the CLI goes on.
RefusalAnswered == pc # "panic"
===============================================================================
