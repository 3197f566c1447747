--------------------------- MODULE ContractRegistry ---------------------------
(***************************************************************************)
(* The contracts a user registers and the commands they add: `register'    *)
(* (contract_commands.go), `register_token' (token_commands.go), the       *)
(* command set (commands.go), the lines that reach the interpreter from    *)
(* -x, from files and from the prompt (main.go), and the suggestions the   *)
(* prompt keeps (interactive.go).                                          *)
(*                                                                         *)
(* A command name is the sequence of its dotted parts.  The CLI is one     *)
(* goroutine and nothing else touches this state, so a handler is one      *)
(* action; an RPC or a file it needs may fail.                             *)
(***************************************************************************)
EXTENDS ArgumentMessages, FiniteSets

CONSTANTS ContractNames,  \* names a user may give
          ABIs,           \* ABIs a file or the node may hold: [Seq(Part) -> method]
          BuiltIns,       \* commands of NewKoinosCommandSet that are listed
          Hidden,         \* commands of NewKoinosCommandSet that are not
          NoABI,          \* the ABI of a token: nil
          MaxLine         \* bound: commands in a line

\* What a dotted name is made of.
Part == STRING

NopArguments == "nop_arguments"
NopResult    == "nop_result"
Method == [argument : STRING, return : STRING, entryPoint : {"hex", "other", "short"}, readOnly : BOOLEAN]

TokenMethods == {<<"balance_of">>, <<"total_supply">>, <<"transfer">>}
MethodNames  == (UNION {DOMAIN abi : abi \in ABIs}) \cup TokenMethods

ASSUME RegistryConstants ==
  /\ {NopArguments, NopResult} \subseteq Messages
  /\ Fields[NopArguments] = <<>> /\ Fields[NopResult] = <<>>
  /\ {"balance_of", "total_supply", "transfer"} \subseteq Part
  /\ ContractNames \subseteq Part /\ BuiltIns \cap Hidden = {}
  /\ {"register", "register_token", "exit"} \subseteq BuiltIns
  /\ \A abi \in ABIs : /\ IsFiniteSet(DOMAIN abi) /\ abi \in [DOMAIN abi -> Method]
                        /\ DOMAIN abi \subseteq Seq(Part) \ {<<>>}
  /\ IsFiniteSet(BuiltIns) /\ IsFiniteSet(Hidden) /\ MaxLine \in Nat

VARIABLES
  stage,           \* where the next line comes from (main)
  contracts,       \* ee.Contracts: name -> ABI, without the address
  commands,        \* CommandSet.Commands: how often each name is in the slice
  name2Command,    \* CommandSet.Name2Command
  revision,        \* CommandSet.Revision
  suggestions,     \* KoinosPrompt.commandSuggestions, their names
  latestRevision,  \* KoinosPrompt.latestRevision
  queue,           \* the declarations the line was parsed to, not yet executed
  built,           \* the last message built: its type, the data and the result
  crash            \* why the process died, or "none"

registryVars == <<stage, contracts, commands, name2Command, revision,
                  suggestions, latestRevision, queue, built, crash>>
setVars    == <<contracts, commands, name2Command, revision>>
promptVars == <<suggestions, latestRevision>>

-------------------------------------------------------------------------------
\* The command set

\* fmt.Sprintf("%s.%s", c, m)
Name(c, m) == <<c>> \o m

OwnNames(S)    == {<<b>> : b \in S}
GeneratedNames == {Name(c, m) : c \in ContractNames, m \in MethodNames}
AllNames       == OwnNames(BuiltIns \cup Hidden) \cup GeneratedNames
Declaration    == [name : AllNames, kind : {"builtin", "read", "write", "token"},
                   argument : Messages \cup {"none"}]

BuiltIn(b) == [name |-> <<b>>, kind |-> "builtin", argument |-> "none"]

\* What `list' prints and the prompt suggests: the commands that are not hidden.
List == {n \in AllNames \ OwnNames(Hidden) : commands[n] > 0}

\* Mutant of AddCommands: the revision is forgotten when the set is extended by one.
AddCommandsSilently(D) ==
  LET names == {d.name : d \in D} IN
  /\ commands' = [n \in AllNames |-> IF n \in names THEN commands[n] + 1 ELSE commands[n]]
  /\ name2Command' = [n \in DOMAIN name2Command \cup names |->
                        IF n \in names THEN CHOOSE d \in D : d.name = n ELSE name2Command[n]]
  /\ revision' = IF Cardinality(D) = 1 THEN revision ELSE revision + Cardinality(D)

\* AddCommand for each of D, in whatever order a map is iterated: List sorts.
AddCommands(D) ==
  LET names == {d.name : d \in D} IN
  /\ commands' = [n \in AllNames |-> IF n \in names THEN commands[n] + 1 ELSE commands[n]]
  /\ name2Command' = [n \in DOMAIN name2Command \cup names |->
                        IF n \in names THEN CHOOSE d \in D : d.name = n ELSE name2Command[n]]
  /\ revision' = revision + Cardinality(D)

\* Contracts

IsRegistered(c) == c \in DOMAIN contracts

\* Contracts.Add refuses a name it has.
AddContract(c, abi) ==
  contracts' = IF IsRegistered(c) THEN contracts
               ELSE [n \in DOMAIN contracts \cup {c} |-> IF n = c THEN abi ELSE contracts[n]]

\* getMethodData, GetFromMethodName and GetMethod split the name at its dots; with
\* other than two parts, no such contract, a token's nil ABI or no such method
\* they return nil (or dereference it), which every caller dereferences.
Resolves(n) ==
  /\ Len(n) = 2 /\ IsRegistered(n[1])
  /\ contracts[n[1]] # NoABI
  /\ <<n[2]>> \in DOMAIN contracts[n[1]]
MethodOf(n) == contracts[n[1]][<<n[2]>>]

-------------------------------------------------------------------------------
\* Lines

Init ==
  /\ stage = "execute"
  /\ contracts = <<>>
  /\ commands = [n \in AllNames |-> IF n \in GeneratedNames THEN 0 ELSE 1]
  /\ name2Command = [n \in OwnNames(BuiltIns \cup Hidden) |-> BuiltIn(n[1])]
  /\ revision = Cardinality(BuiltIns \cup Hidden)
  /\ suggestions = {} /\ latestRevision = -1
  /\ queue = <<>> /\ built = <<>> /\ crash = "none"

Ready    == crash = "none" /\ stage # "exit"
AtPrompt == Ready /\ queue = <<>>

\* Parse looks every name of the line up before any of it runs; one that is
\* unknown refuses the line.  commandNameRE matches names with at most one dot.
Known    == {n \in DOMAIN name2Command : Len(n) <= 2}
Lines(S) == UNION {[1 .. n -> S] : n \in 1 .. MaxLine}
TypeLine(l) ==
  /\ AtPrompt
  /\ queue' = [i \in DOMAIN l |-> name2Command[l[i]]]
  /\ built' = <<>>
  /\ UNCHANGED <<stage, setVars, promptVars, crash>>

\* main: the -x commands, then the rc files and the -f files, then the prompt, if
\* it is asked for or nothing else was; a file that cannot be read ends the CLI.
NextStage ==
  /\ AtPrompt
  /\ \/ stage = "execute" /\ stage' = "files"
     \/ stage = "files" /\ stage' \in {"prompt", "exit"}
  /\ UNCHANGED <<setVars, promptVars, queue, built, crash>>

\* A key stroke at the prompt.
Completer ==
  /\ AtPrompt /\ stage = "prompt"
  /\ latestRevision # revision
  /\ latestRevision' = revision
  /\ suggestions' = List
  /\ UNCHANGED <<stage, setVars, queue, built, crash>>

-------------------------------------------------------------------------------
\* Commands

\* Interpret takes the next command of the line, which is of this kind or name.
Runs(d) == Ready /\ queue # <<>> /\ Head(queue) = d /\ queue' = Tail(queue)

\* A command that fails before it changes anything, or changes nothing here.
NothingDone ==
  /\ queue # <<>> /\ Runs(Head(queue))
  /\ UNCHANGED <<stage, setVars, promptVars, built, crash>>

Exit ==
  /\ Runs(BuiltIn("exit"))
  /\ stage' = "exit"
  /\ UNCHANGED <<setVars, promptVars, built, crash>>

\* The process dies in the command: nothing it does afterwards counts.
Dies(d, why) ==
  /\ Runs(d) /\ crash' = why
  /\ UNCHANGED <<stage, setVars, promptVars>>

\* register replaces blank types by those of no arguments and no result.
WithDefaults(abi) ==
  [m \in DOMAIN abi |-> [abi[m] EXCEPT !.argument = IF @ = "" THEN NopArguments ELSE @,
                                       !.return   = IF @ = "" THEN NopResult ELSE @]]
StoredABIs == {WithDefaults(abi) : abi \in ABIs}
ASSUME NilIsNoABI == NoABI \notin StoredABIs

Declarations(c, abi) ==
  {[name |-> Name(c, m), kind |-> IF abi[m].readOnly THEN "read" ELSE "write",
    argument |-> abi[m].argument] : m \in DOMAIN abi}

\* FindDescriptorByName for both types of a method, ParseABIFields for the first.
Usable(method) ==
  /\ method.argument \in Messages /\ method.return \in Messages
  /\ ParseABIFields[method.argument].outcome = "ok"

\* Mutant of RegisterContract: commands before Contracts.Add, whose answer decides.
RegisterContractUnchecked(c, abi) ==
  LET full == WithDefaults(abi) IN
  /\ \A m \in DOMAIN full : Usable(full[m])
  /\ Runs(BuiltIn("register"))
  /\ AddContract(c, full)
  /\ AddCommands(Declarations(c, full))
  /\ UNCHANGED <<stage, promptVars, built, crash>>

\* Mutant of RegisterContract: a copy of the method gets the default types.
RegisterContractCopied(c, abi) ==
  LET full == WithDefaults(abi) IN
  /\ ~IsRegistered(c)
  /\ \A m \in DOMAIN full : Usable(full[m])
  /\ Runs(BuiltIn("register"))
  /\ AddContract(c, abi)
  /\ AddCommands(Declarations(c, full))
  /\ UNCHANGED <<stage, promptVars, built, crash>>

RegisterContract(c, abi) ==
  LET full == WithDefaults(abi) IN
  /\ ~IsRegistered(c)
  /\ \A m \in DOMAIN full : Usable(full[m])
  /\ Runs(BuiltIn("register"))
  /\ AddContract(c, full)
  /\ AddCommands(Declarations(c, full))
  /\ UNCHANGED <<stage, promptVars, built, crash>>

\* A message type that contains itself: ParseABIFields recurses without end.
RegisterOverflows(c, abi) ==
  /\ ~IsRegistered(c)
  /\ \E m \in DOMAIN abi : /\ abi[m].argument \in Messages
                           /\ ParseABIFields[abi[m].argument].outcome = "overflow"
  /\ Dies(BuiltIn("register"), "overflow") /\ built' = built

TokenDeclarations(c) ==
  {[name |-> Name(c, m), kind |-> "token", argument |-> "none"] : m \in TokenMethods}

\* Mutant of RegisterToken: the name is not looked up first.
RegisterTokenUnchecked(c) ==
  /\ Runs(BuiltIn("register_token"))
  /\ AddCommands(TokenDeclarations(c))
  /\ AddContract(c, NoABI)
  /\ UNCHANGED <<stage, promptVars, built, crash>>

\* Symbol and precision are given or have been retrieved.  The commands are added
\* before Contracts.Add, which may refuse.
RegisterToken(c) ==
  /\ ~IsRegistered(c)
  /\ Runs(BuiltIn("register_token"))
  /\ AddCommands(TokenDeclarations(c))
  /\ AddContract(c, NoABI)
  /\ UNCHANGED <<stage, promptVars, built, crash>>

\* A read or write command looks its contract and method up by its own name.
LookupPanics(d) == d.kind \in {"read", "write"} /\ ~Resolves(d.name) /\ Dies(d, "lookup") /\ built' = built

\* EntryPoint[2:] of an entry point shorter than that.
EntryPointPanics(d) ==
  /\ d.kind \in {"read", "write"} /\ Resolves(d.name)
  /\ MethodOf(d.name).entryPoint = "short"
  /\ Dies(d, "entry") /\ built' = built

\* getMethodData panics when a type is not found: the argument's before the
\* message is built, the result's after the node has answered a read.
DescriptorPanics(d) ==
  /\ d.kind \in {"read", "write"} /\ Resolves(d.name)
  /\ MethodOf(d.name).entryPoint = "hex"
  /\ \/ MethodOf(d.name).argument \notin Messages
     \/ d.kind = "read" /\ MethodOf(d.name).return \notin Messages
  /\ Dies(d, "descriptor") /\ built' = built

\* ParseResultToMessage on what was typed for the arguments of the declaration; a
\* panic ends the process, a conversion error the command.
BuildMessage(d, data) ==
  LET type   == MethodOf(d.name).argument
      result == DataToMessage(data, type)
  IN /\ d.kind \in {"read", "write"} /\ Resolves(d.name)
     /\ MethodOf(d.name).entryPoint = "hex" /\ type \in Messages
     /\ Runs(d)
     /\ built' = <<[type |-> type, data |-> data, result |-> result]>>
     /\ crash' = IF result.outcome \in {"nil", "set"} THEN result.outcome ELSE "none"
     /\ UNCHANGED <<stage, setVars, promptVars>>

RunContractCommand(d) ==
  \/ LookupPanics(d) \/ EntryPointPanics(d) \/ DescriptorPanics(d)
  \/ \E data \in Arguments[d.argument] : BuildMessage(d, data)

Next ==
  \/ \E l \in Lines(Known) : TypeLine(l)
  \/ NextStage \/ Completer \/ NothingDone \/ Exit
  \/ \E c \in ContractNames : \/ \E abi \in ABIs : RegisterContract(c, abi) \/ RegisterOverflows(c, abi)
                              \/ RegisterToken(c)
  \/ queue # <<>> /\ Head(queue).kind \in {"read", "write"} /\ RunContractCommand(Head(queue))

Spec == Init /\ [][Next]_registryVars

-------------------------------------------------------------------------------
\* Properties

DeclarationsOf(c, abi) == IF abi = NoABI THEN TokenDeclarations(c) ELSE Declarations(c, abi)
Generated == UNION {DeclarationsOf(c, contracts[c]) : c \in DOMAIN contracts}

\* The types of the registry, the command set, the prompt and the line.
RegistryTypeOK ==
  /\ stage \in {"execute", "files", "prompt", "exit"}
  /\ DOMAIN contracts \subseteq ContractNames
  /\ \A c \in DOMAIN contracts : contracts[c] \in {NoABI} \cup StoredABIs
  /\ commands \in [AllNames -> Nat]
  /\ DOMAIN name2Command \subseteq AllNames
  /\ \A n \in DOMAIN name2Command : name2Command[n] \in Declaration /\ name2Command[n].name = n
  /\ revision \in Nat /\ latestRevision \in Nat \cup {-1}
  /\ suggestions \subseteq AllNames
  /\ queue \in Seq(Declaration)
  /\ crash \in {"none", "lookup", "entry", "descriptor", "nil", "set", "overflow"}

\* Registry and command set agree whenever a handler has returned: the commands are
\* the built-in ones and, for each registered contract or token, exactly those of
\* its methods, each once, and a name leads to its declaration.  A handler that
\* adds to one of the two and fails before the other leaves them apart
\* (token_commands.go:159, contract_commands.go:138).
RegistryAgrees ==
  /\ DOMAIN name2Command = OwnNames(BuiltIns \cup Hidden) \cup {d.name : d \in Generated}
  /\ \A n \in AllNames : commands[n] = IF n \in DOMAIN name2Command THEN 1 ELSE 0
  /\ \A d \in Generated : name2Command[d.name] = d

\* A line is parsed before any of it runs (interpreter.go:529), so a command may run
\* after others of its line have changed the command set: its declaration, and so
\* the arguments typed for it, must still be the one of the set.  Whether it should
\* run at all when one before it failed (interpreter.go:476) is another question.
QueueCurrent ==
  \A i \in DOMAIN queue : /\ queue[i].name \in DOMAIN name2Command
                          /\ name2Command[queue[i].name] = queue[i]

\* A generated command finds its contract, its method and both message types,
\* although the registry stores tokens without an ABI and methods may have any
\* name: no nil is dereferenced, and the panics of getMethodData are dead code
\* ("This was checked when parsing the ABI", abi.go:194).  The methods of an ABI are
\* objects here; a null one (contract_commands.go:93) is not covered.
GeneratedCommandsResolve == crash \notin {"lookup", "descriptor"}

\* The prompt is never ahead of the command set, and when it has seen the latest
\* revision its suggestions are what `list' prints: whatever adds a command also
\* changes the revision (interactive.go:100).
SuggestionsFollow ==
  /\ latestRevision <= revision
  /\ latestRevision = revision => suggestions = List

\* What a name has come to mean it means until the end: no registration replaces a
\* contract, a token or a command, neither its own kind's nor the other's, nor a
\* built-in command (contract_commands.go:42, token_commands.go:118).
NothingRedefined ==
  [][/\ \A c \in DOMAIN contracts : c \in DOMAIN contracts' /\ contracts'[c] = contracts[c]
     /\ \A n \in DOMAIN name2Command : n \in DOMAIN name2Command' /\ name2Command'[n] = name2Command[n]
    ]_registryVars

\* A message that could be built holds every argument, and nothing else, in the
\* field it is named for, converted to the width of the field, that is modulo 2^32
\* for the 32-bit kinds, whatever was typed (abi.go:333, 347); of a oneof, the
\* last member.  It cannot be built only if a text is refused or a field repeated:
\* every argument dataToMessage looks up is one ParseABIFields has declared.
MessageCarriesArguments ==
  \A i \in DOMAIN built :
    LET b == built[i] IN
    /\ b.result.outcome \in {"ok", "set", "error"}
    /\ b.result.outcome = "ok" => CarriesAll(b.result.set, b.data, b.type)
    /\ b.result.outcome = "set" => \E c \in Chains[b.type] : At(c[Len(c)]).repeated
    /\ b.result.outcome = "error" => \E c \in LeafChains[b.type] :
                                       Refuses(KindOf(c), b.data[NameOf(c)])
===============================================================================
