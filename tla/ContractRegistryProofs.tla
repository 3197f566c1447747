------------------------ MODULE ContractRegistryProofs ------------------------
(***************************************************************************)
(* The contract registry, the command set, the prompt and the line being   *)
(* executed agree, whatever contracts and tokens are registered.           *)
(***************************************************************************)
EXTENDS ContractRegistry, ArgumentMessagesProofs

\* A generated name begins with its contract and goes on with its method.
LEMMA NameParts ==
  ASSUME NEW S, NEW c \in S, NEW m \in Seq(S), m # <<>>
  PROVE  /\ Len(Name(c, m)) = Len(m) + 1 /\ Len(m) \in Nat \ {0}
         /\ (Name(c, m))[1] = c
         /\ \A i \in 1 .. Len(m) : (Name(c, m))[i + 1] = m[i]
BY EmptySeq DEF Name

LEMMA NamesDiffer ==
  ASSUME NEW S, NEW c \in S, NEW m \in Seq(S), m # <<>>,
         NEW d \in S, NEW n \in Seq(S), n # <<>>,
         Name(c, m) = Name(d, n)
  PROVE  c = d /\ m = n
<1>1. c = d /\ Len(m) = Len(n)
  BY NameParts
<1>2. \A i \in 1 .. Len(m) : m[i] = n[i]
  BY <1>1, NameParts
<1> QED
  BY <1>1, <1>2, SeqEqual

\* With two parts, the second is the method.
LEMMA TwoParts ==
  ASSUME NEW S, NEW c \in S, NEW m \in Seq(S), m # <<>>, Len(Name(c, m)) <= 2
  PROVE  Len(Name(c, m)) = 2 /\ m = <<(Name(c, m))[2]>>
<1> DEFINE n == Len(Name(c, m))
           k == Len(m)
<1>0. n = k + 1 /\ k \in Nat \ {0} /\ n <= 2
  BY NameParts
<1> HIDE DEF n, k
<1>a. k = 1 /\ n = 2
  BY <1>0
<1>1. Len(m) = 1 /\ Len(Name(c, m)) = 2 /\ 1 \in 1 .. Len(m)
  BY <1>a DEF n, k
<1>2. (Name(c, m))[1 + 1] = m[1]
  BY <1>1, NameParts
<1>3. m = <<m[1]>>
  BY <1>1
<1> QED
  BY <1>1, <1>2, <1>3

-------------------------------------------------------------------------------
LEMMA MethodNamesType ==
  /\ \A m \in MethodNames : m \in Seq(Part) /\ m # <<>>
  /\ \A abi \in ABIs : DOMAIN abi \subseteq MethodNames
  /\ TokenMethods \subseteq MethodNames
<1>1. "balance_of" \in Part /\ "total_supply" \in Part /\ "transfer" \in Part
  BY RegistryConstants
<1>2. \A p \in Part : <<p>> \in Seq(Part) /\ <<p>> # <<>>
  OBVIOUS
<1>3. \A m \in TokenMethods : m \in Seq(Part) /\ m # <<>>
  BY <1>1, <1>2 DEF TokenMethods
<1> QED
  BY <1>3, RegistryConstants DEF MethodNames

LEMMA GeneratedShape ==
  \A n : n \in GeneratedNames <=> \E c \in ContractNames, m \in MethodNames : n = Name(c, m)
BY DEF GeneratedNames

\* Names of generated commands have two parts or more, those of built-in ones one.
LEMMA NamesApart ==
  /\ \A n \in GeneratedNames : Len(n) # 1
  /\ \A S : \A n \in OwnNames(S) : Len(n) = 1
  /\ OwnNames(BuiltIns \cup Hidden) \cap GeneratedNames = {}
<1>1. ASSUME NEW c \in ContractNames, NEW m \in MethodNames PROVE Len(Name(c, m)) # 1
  <2>1. c \in Part /\ m \in Seq(Part) /\ m # <<>>
    BY MethodNamesType, RegistryConstants
  <2>2. Len(Name(c, m)) = Len(m) + 1 /\ Len(m) \in Nat \ {0}
    BY <2>1, NameParts
  <2> QED
    BY <2>2
<1>2. \A S : \A n \in OwnNames(S) : Len(n) = 1
  <2> SUFFICES ASSUME NEW S, NEW b \in S PROVE Len(<<b>>) = 1
    BY DEF OwnNames
  <2> QED
    OBVIOUS
<1>3. \A n \in GeneratedNames : Len(n) # 1
  BY <1>1, GeneratedShape
<1> QED
  BY <1>2, <1>3

\* What a registration stores.
LEMMA StoredABIType ==
  ASSUME NEW abi \in ABIs
  PROVE  /\ WithDefaults(abi) \in StoredABIs
         /\ DOMAIN WithDefaults(abi) = DOMAIN abi
         /\ WithDefaults(abi) # NoABI
         /\ \A m \in DOMAIN abi : WithDefaults(abi)[m].readOnly \in BOOLEAN
<1>1. \A m \in DOMAIN abi : abi[m] \in Method
  BY RegistryConstants
<1> QED
  BY <1>1, NilIsNoABI DEF WithDefaults, StoredABIs, Method

LEMMA StoredDomain ==
  ASSUME NEW abi \in StoredABIs
  PROVE  DOMAIN abi \subseteq MethodNames /\ IsFiniteSet(DOMAIN abi) /\ \A m \in DOMAIN abi : abi[m].readOnly \in BOOLEAN
BY StoredABIType, MethodNamesType, RegistryConstants DEF StoredABIs

\* The declarations of one contract: finitely many, of one each name, all new names.
LEMMA ImageFinite ==
  ASSUME NEW S, IsFiniteSet(S), NEW f, f = [s \in S |-> f[s]]
  PROVE  IsFiniteSet({f[s] : s \in S})
<1>1. f \in Surjection(S, {f[s] : s \in S})
  BY DEF Surjection
<1> QED
  BY <1>1, FS_Surjection

LEMMA DeclarationsFinite ==
  ASSUME NEW c, NEW abi, IsFiniteSet(DOMAIN abi)
  PROVE  IsFiniteSet(Declarations(c, abi))
<1> DEFINE f == [m \in DOMAIN abi |->
                   [name |-> Name(c, m), kind |-> IF abi[m].readOnly THEN "read" ELSE "write",
                    argument |-> abi[m].argument]]
<1>1. Declarations(c, abi) = {f[m] : m \in DOMAIN abi}
  BY DEF Declarations
<1>2. f = [m \in DOMAIN abi |-> f[m]]
  OBVIOUS
<1> HIDE DEF f
<1> QED
  BY <1>1, <1>2, ImageFinite

LEMMA TokenDeclarationsFinite == \A c : IsFiniteSet(TokenDeclarations(c))
<1> SUFFICES ASSUME NEW c PROVE IsFiniteSet(TokenDeclarations(c))
  OBVIOUS
<1>1. IsFiniteSet(TokenMethods)
  <2>1. IsFiniteSet({<<"balance_of">>} \cup {<<"total_supply">>} \cup {<<"transfer">>})
    BY FS_Singleton, FS_Union
  <2>2. TokenMethods = {<<"balance_of">>} \cup {<<"total_supply">>} \cup {<<"transfer">>}
    BY DEF TokenMethods
  <2> QED
    BY <2>1, <2>2
<1> DEFINE f == [m \in TokenMethods |-> [name |-> Name(c, m), kind |-> "token", argument |-> "none"]]
<1>2. TokenDeclarations(c) = {f[m] : m \in TokenMethods}
  BY DEF TokenDeclarations
<1>3. f = [m \in TokenMethods |-> f[m]]
  OBVIOUS
<1> HIDE DEF f
<1> QED
  BY <1>1, <1>2, <1>3, ImageFinite

\* What is added for a contract or a token: finitely many declarations, each with a
\* name of its own that begins with the contract's.
LEMMA DeclarationsAdded ==
  ASSUME NEW c \in ContractNames, NEW abi \in StoredABIs \cup {NoABI},
         abi # NoABI => \A m \in DOMAIN abi : Usable(abi[m])
  PROVE  /\ DeclarationsOf(c, abi) \subseteq Declaration
         /\ IsFiniteSet(DeclarationsOf(c, abi))
         /\ \A d \in DeclarationsOf(c, abi) : \E m \in MethodNames : d.name = Name(c, m)
         /\ \A d, e \in DeclarationsOf(c, abi) : d.name = e.name => d = e
<1>1. \A m, n \in MethodNames : Name(c, m) = Name(c, n) => m = n
  BY NamesDiffer, MethodNamesType, RegistryConstants
<1>2. \A m \in MethodNames : Name(c, m) \in AllNames
  BY GeneratedShape DEF AllNames
<1>3. CASE abi = NoABI
  <2>1. DeclarationsOf(c, abi) = TokenDeclarations(c)
    BY <1>3 DEF DeclarationsOf
  <2> QED
    BY <1>1, <1>2, <2>1, TokenDeclarationsFinite, MethodNamesType DEF TokenDeclarations, Declaration
<1>4. CASE abi # NoABI
  <2>1. DeclarationsOf(c, abi) = Declarations(c, abi) /\ abi \in StoredABIs
    BY <1>4 DEF DeclarationsOf
  <2>2. \A m \in DOMAIN abi : m \in MethodNames /\ abi[m].argument \in Messages
    BY <1>4, <2>1, StoredDomain DEF Usable
  <2>3. IsFiniteSet(Declarations(c, abi))
    BY <2>1, StoredDomain, DeclarationsFinite
  <2> QED
    BY <1>1, <1>2, <2>1, <2>2, <2>3 DEF Declarations, Declaration
<1> QED
  BY <1>3, <1>4

-------------------------------------------------------------------------------
\* The invariant.  The properties alone are not inductive: a built-in command keeps
\* its declaration, what is stored can be used, and no name on a line has more
\* than two parts.
Shape ==
  /\ \A b \in BuiltIns \cup Hidden : name2Command[<<b>>] = BuiltIn(b)
  /\ \A c \in DOMAIN contracts : contracts[c] # NoABI =>
       \A m \in DOMAIN contracts[c] : Usable(contracts[c][m])
  /\ \A i \in DOMAIN queue : Len(queue[i].name) <= 2

RegistryInv ==
  /\ RegistryTypeOK /\ RegistryAgrees /\ QueueCurrent /\ GeneratedCommandsResolve
  /\ SuggestionsFollow /\ Shape

\* What the names in the command set are.
LEMMA KnownNames ==
  ASSUME RegistryInv, NEW n \in DOMAIN name2Command
  PROVE  \/ \E b \in BuiltIns \cup Hidden : n = <<b>> /\ name2Command[n] = BuiltIn(b)
         \/ \E c \in DOMAIN contracts :
              /\ c \in ContractNames
              /\ \E d \in DeclarationsOf(c, contracts[c]) : n = d.name /\ name2Command[n] = d
<1>1. CASE n \in OwnNames(BuiltIns \cup Hidden)
  BY <1>1 DEF RegistryInv, Shape, OwnNames
<1>2. CASE \E d \in Generated : n = d.name
  BY <1>2 DEF RegistryInv, RegistryAgrees, Generated, RegistryTypeOK
<1>3. DOMAIN name2Command = OwnNames(BuiltIns \cup Hidden) \cup {d.name : d \in Generated}
  BY DEF RegistryInv, RegistryAgrees
<1>4. n \in OwnNames(BuiltIns \cup Hidden) \/ n \in {d.name : d \in Generated}
  BY <1>3
<1> QED
  BY <1>1, <1>2, <1>4

LEMMA StoredUsable ==
  ASSUME RegistryInv, NEW c \in DOMAIN contracts
  PROVE  /\ c \in ContractNames /\ contracts[c] \in StoredABIs \cup {NoABI}
         /\ contracts[c] # NoABI => \A m \in DOMAIN contracts[c] : Usable(contracts[c][m])
BY DEF RegistryInv, RegistryTypeOK, Shape

\* The names of a contract that is not registered are new.
LEMMA NamesNew ==
  ASSUME RegistryInv, NEW c \in ContractNames, ~IsRegistered(c), NEW m \in MethodNames
  PROVE  Name(c, m) \notin DOMAIN name2Command
<1> SUFFICES ASSUME Name(c, m) \in DOMAIN name2Command PROVE FALSE
  OBVIOUS
<1>1. ASSUME NEW b \in BuiltIns \cup Hidden, Name(c, m) = <<b>> PROVE FALSE
  BY <1>1, NamesApart, GeneratedShape DEF OwnNames
<1>2. ASSUME NEW x \in DOMAIN contracts, x \in ContractNames,
             NEW d \in DeclarationsOf(x, contracts[x]), Name(c, m) = d.name
      PROVE  FALSE
  <2>1. PICK k \in MethodNames : d.name = Name(x, k)
    BY <1>2, StoredUsable, DeclarationsAdded
  <2>2. c = x
    BY <1>2, <2>1, NamesDiffer, MethodNamesType, RegistryConstants
  <2> QED
    BY <2>2 DEF IsRegistered
<1> QED
  BY <1>1, <1>2, KnownNames

\* Registering: registry and command set grow together.
LEMMA Extended ==
  ASSUME RegistryInv, NEW c \in ContractNames, ~IsRegistered(c),
         NEW abi \in StoredABIs \cup {NoABI},
         abi # NoABI => \A m \in DOMAIN abi : Usable(abi[m]),
         AddContract(c, abi), AddCommands(DeclarationsOf(c, abi))
  PROVE  /\ DOMAIN contracts' = DOMAIN contracts \cup {c}
         /\ \A x \in DOMAIN contracts' : contracts'[x] = IF x = c THEN abi ELSE contracts[x]
         /\ commands' \in [AllNames -> Nat] /\ revision' \in Nat /\ revision <= revision'
         /\ revision' = revision => commands' = commands
         /\ DOMAIN name2Command \subseteq DOMAIN name2Command'
         /\ \A n \in DOMAIN name2Command : name2Command'[n] = name2Command[n]
         /\ \A n \in DOMAIN name2Command' :
              n \in AllNames /\ name2Command'[n] \in Declaration /\ name2Command'[n].name = n
         /\ RegistryAgrees'
<1> DEFINE D     == DeclarationsOf(c, abi)
           names == {d.name : d \in D}
<1>1. /\ D \subseteq Declaration /\ IsFiniteSet(D)
      /\ \A d \in D : \E m \in MethodNames : d.name = Name(c, m)
      /\ \A d, e \in D : d.name = e.name => d = e
  BY DeclarationsAdded
<1>2. names \cap DOMAIN name2Command = {} /\ names \subseteq AllNames
  BY <1>1, NamesNew, GeneratedShape DEF AllNames
<1>3. /\ contracts' = [n \in DOMAIN contracts \cup {c} |-> IF n = c THEN abi ELSE contracts[n]]
      /\ commands' = [n \in AllNames |-> IF n \in names THEN commands[n] + 1 ELSE commands[n]]
      /\ name2Command' = [n \in DOMAIN name2Command \cup names |->
                            IF n \in names THEN CHOOSE d \in D : d.name = n ELSE name2Command[n]]
      /\ revision' = revision + Cardinality(D)
  BY DEF AddContract, AddCommands
<1>4. /\ commands \in [AllNames -> Nat] /\ revision \in Nat /\ DOMAIN name2Command \subseteq AllNames
      /\ \A n \in DOMAIN name2Command : name2Command[n] \in Declaration /\ name2Command[n].name = n
  BY DEF RegistryInv, RegistryTypeOK
<1>5. Cardinality(D) \in Nat /\ (Cardinality(D) = 0 <=> D = {})
  BY <1>1, FS_CardinalityType, FS_EmptySet
<1>6. ~IsRegistered(c) /\ c \notin DOMAIN contracts
  BY DEF IsRegistered
<1>7. \A d \in D : (CHOOSE e \in D : e.name = d.name) = d
  BY <1>1
<1> HIDE DEF D
<1>8. \A d \in D : d.name \in DOMAIN name2Command' /\ name2Command'[d.name] = d
  BY <1>3, <1>7
<1>9. \A n \in DOMAIN name2Command : n \in DOMAIN name2Command' /\ name2Command'[n] = name2Command[n]
  BY <1>2, <1>3
<1>10. Generated' = Generated \cup D
  <2>1. D = DeclarationsOf(c, abi)
    BY DEF D
  <2>2. \A x \in DOMAIN contracts' : DeclarationsOf(x, contracts'[x]) =
                                      IF x = c THEN D ELSE DeclarationsOf(x, contracts[x])
    BY <1>3, <2>1
  <2>3. DOMAIN contracts' = DOMAIN contracts \cup {c}
    BY <1>3
  <2> QED
    BY <1>6, <2>2, <2>3 DEF Generated
<1>11. RegistryAgrees'
  <2>1. DOMAIN name2Command' = DOMAIN name2Command \cup names
    BY <1>3
  <2>2. DOMAIN name2Command' = OwnNames(BuiltIns \cup Hidden) \cup {d.name : d \in Generated'}
    BY <1>10, <2>1 DEF RegistryInv, RegistryAgrees
  <2>3. \A n \in AllNames : commands'[n] = IF n \in DOMAIN name2Command' THEN 1 ELSE 0
    <3> SUFFICES ASSUME NEW n \in AllNames
                 PROVE  commands'[n] = IF n \in DOMAIN name2Command' THEN 1 ELSE 0
      OBVIOUS
    <3>1. commands[n] = IF n \in DOMAIN name2Command THEN 1 ELSE 0
      BY DEF RegistryInv, RegistryAgrees
    <3>2. commands'[n] = IF n \in names THEN commands[n] + 1 ELSE commands[n]
      BY <1>3
    <3> QED
      BY <1>2, <2>1, <3>1, <3>2
  <2>4. \A d \in Generated' : name2Command'[d.name] = d
    <3>1. \A d \in Generated : d.name \in DOMAIN name2Command /\ name2Command[d.name] = d
      BY DEF RegistryInv, RegistryAgrees
    <3> QED
      BY <1>8, <1>9, <1>10, <3>1
  <2> QED
    BY <2>2, <2>3, <2>4 DEF RegistryAgrees
<1>12. commands' \in [AllNames -> Nat] /\ revision' \in Nat /\ revision <= revision'
  BY <1>3, <1>4, <1>5
<1>13. ASSUME revision' = revision PROVE commands' = commands
  <2>1. names = {}
    BY <1>3, <1>4, <1>5, <1>13
  <2> QED
    BY <1>3, <1>4, <2>1
<1>14. \A n \in DOMAIN name2Command' :
         n \in AllNames /\ name2Command'[n] \in Declaration /\ name2Command'[n].name = n
  <2> SUFFICES ASSUME NEW n \in DOMAIN name2Command'
               PROVE  n \in AllNames /\ name2Command'[n] \in Declaration /\ name2Command'[n].name = n
    OBVIOUS
  <2>1. CASE n \in names
    BY <1>1, <1>2, <1>8, <2>1
  <2>2. CASE n \in DOMAIN name2Command
    BY <1>4, <1>9, <2>2
  <2> QED
    BY <1>3, <2>1, <2>2
<1> QED
  BY <1>3, <1>9, <1>11, <1>12, <1>13, <1>14

-------------------------------------------------------------------------------
LEMMA RegistryInvInit == Init => RegistryInv
<1> SUFFICES ASSUME Init PROVE RegistryInv
  OBVIOUS
<1>1. Cardinality(BuiltIns \cup Hidden) \in Nat
  BY RegistryConstants, FS_Union, FS_CardinalityType
<1>2. DOMAIN contracts = {} /\ Generated = {} /\ DOMAIN queue = {} /\ queue = <<>>
  BY DEF Init, Generated
<1>3. \A n \in OwnNames(BuiltIns \cup Hidden) : \E b \in BuiltIns \cup Hidden : n = <<b>> /\ n[1] = b
  BY DEF OwnNames
<1>4. DOMAIN name2Command = OwnNames(BuiltIns \cup Hidden)
      /\ \A b \in BuiltIns \cup Hidden : name2Command[<<b>>] = BuiltIn(b)
  BY <1>3 DEF Init, OwnNames
<1>5. \A n \in DOMAIN name2Command : name2Command[n] \in Declaration /\ name2Command[n].name = n
  <2> SUFFICES ASSUME NEW b \in BuiltIns \cup Hidden
               PROVE  BuiltIn(b) \in Declaration /\ BuiltIn(b).name = <<b>>
    BY <1>3, <1>4
  <2>1. <<b>> \in AllNames
    BY DEF AllNames, OwnNames
  <2> QED
    BY <2>1 DEF BuiltIn, Declaration
<1>6. \A n \in AllNames : commands[n] = IF n \in DOMAIN name2Command THEN 1 ELSE 0
  BY <1>4, NamesApart DEF Init, AllNames
<1>7. commands \in [AllNames -> Nat]
  BY DEF Init
<1>8. RegistryTypeOK
  <2>1. queue \in Seq(Declaration)
    BY <1>2, EmptySeq
  <2>2. revision \in Nat /\ latestRevision \in Nat \cup {-1}
    BY <1>1 DEF Init
  <2>3. DOMAIN name2Command \subseteq AllNames
    BY <1>4 DEF AllNames
  <2> QED
    BY <1>2, <1>5, <1>7, <2>1, <2>2, <2>3 DEF Init, RegistryTypeOK
<1>9. RegistryAgrees
  BY <1>2, <1>4, <1>6 DEF RegistryAgrees
<1>10. SuggestionsFollow
  BY <1>1 DEF Init, SuggestionsFollow
<1>11. QueueCurrent /\ GeneratedCommandsResolve /\ Shape
  BY <1>2, <1>4 DEF Init, QueueCurrent, GeneratedCommandsResolve, Shape
<1> QED
  BY <1>8, <1>9, <1>10, <1>11 DEF RegistryInv

\* What holds of a line holds of the rest of it, while declarations stay.
LEMMA QueueKept ==
  ASSUME RegistryInv, queue # <<>>, queue' = Tail(queue),
         DOMAIN name2Command \subseteq DOMAIN name2Command',
         \A n \in DOMAIN name2Command : name2Command'[n] = name2Command[n]
  PROVE  queue' \in Seq(Declaration) /\ QueueCurrent' /\ \A i \in DOMAIN queue' : Len(queue'[i].name) <= 2
<1>1. queue \in Seq(Declaration)
  BY DEF RegistryInv, RegistryTypeOK
<1>2. queue' \in Seq(Declaration) /\ \A i \in DOMAIN queue' : i + 1 \in DOMAIN queue /\ queue'[i] = queue[i + 1]
  BY <1>1
<1>3. \A i \in DOMAIN queue : /\ queue[i].name \in DOMAIN name2Command
                              /\ name2Command[queue[i].name] = queue[i]
                              /\ Len(queue[i].name) <= 2
  BY DEF RegistryInv, QueueCurrent, Shape
<1> QED
  BY <1>2, <1>3 DEF QueueCurrent

\* A command that leaves the set and the prompt alone.
LEMMA CommandKept ==
  ASSUME RegistryInv, UNCHANGED setVars, UNCHANGED promptVars,
         UNCHANGED queue \/ (queue # <<>> /\ queue' = Tail(queue)),
         stage' \in {"execute", "files", "prompt", "exit"},
         crash' \in {"none", "entry", "nil", "set", "overflow"} \/ UNCHANGED crash
  PROVE  RegistryInv'
<1>1. queue' \in Seq(Declaration) /\ QueueCurrent' /\ \A i \in DOMAIN queue' : Len(queue'[i].name) <= 2
  <2>1. CASE UNCHANGED queue
    BY <2>1 DEF RegistryInv, RegistryTypeOK, QueueCurrent, Shape, setVars
  <2>2. CASE queue # <<>> /\ queue' = Tail(queue)
    BY <2>2, QueueKept DEF setVars
  <2> QED
    BY <2>1, <2>2
<1>2. RegistryTypeOK'
  BY <1>1 DEF RegistryInv, RegistryTypeOK, setVars, promptVars
<1>3. RegistryAgrees' /\ SuggestionsFollow'
  <2>1. Generated' = Generated /\ List' = List
    BY DEF Generated, List, setVars
  <2> QED
    BY <2>1 DEF RegistryInv, RegistryAgrees, SuggestionsFollow, setVars, promptVars
<1>4. Shape'
  BY <1>1 DEF RegistryInv, Shape, setVars
<1>5. GeneratedCommandsResolve'
  BY DEF RegistryInv, GeneratedCommandsResolve
<1> QED
  BY <1>1, <1>2, <1>3, <1>4, <1>5 DEF RegistryInv

\* A registration, once its declarations are known.
LEMMA RegisterKept ==
  ASSUME RegistryInv, NEW c \in ContractNames, ~IsRegistered(c),
         NEW abi \in StoredABIs \cup {NoABI},
         abi # NoABI => \A m \in DOMAIN abi : Usable(abi[m]),
         AddContract(c, abi), AddCommands(DeclarationsOf(c, abi)),
         queue # <<>>, queue' = Tail(queue), UNCHANGED <<stage, promptVars, crash>>
  PROVE  RegistryInv'
<1>1. /\ DOMAIN contracts' = DOMAIN contracts \cup {c}
      /\ \A x \in DOMAIN contracts' : contracts'[x] = IF x = c THEN abi ELSE contracts[x]
      /\ commands' \in [AllNames -> Nat] /\ revision' \in Nat /\ revision <= revision'
      /\ revision' = revision => commands' = commands
      /\ DOMAIN name2Command \subseteq DOMAIN name2Command'
      /\ \A n \in DOMAIN name2Command : name2Command'[n] = name2Command[n]
      /\ \A n \in DOMAIN name2Command' :
           n \in AllNames /\ name2Command'[n] \in Declaration /\ name2Command'[n].name = n
      /\ RegistryAgrees'
  BY Extended
<1>2. queue' \in Seq(Declaration) /\ QueueCurrent' /\ \A i \in DOMAIN queue' : Len(queue'[i].name) <= 2
  BY <1>1, QueueKept
<1>3. RegistryTypeOK'
  <2>1. \A x \in DOMAIN contracts' : x \in ContractNames /\ contracts'[x] \in {NoABI} \cup StoredABIs
    BY <1>1 DEF RegistryInv, RegistryTypeOK
  <2> QED
    BY <1>1, <1>2, <2>1 DEF RegistryInv, RegistryTypeOK, promptVars
<1>4. SuggestionsFollow'
  <2>1. latestRevision' = latestRevision /\ suggestions' = suggestions
        /\ latestRevision \in Int /\ revision \in Nat
        /\ latestRevision <= revision /\ (latestRevision = revision => suggestions = List)
    BY DEF RegistryInv, RegistryTypeOK, SuggestionsFollow, promptVars
  <2>2. latestRevision' = revision' => revision' = revision
    BY <1>1, <2>1
  <2>3. revision' = revision => List' = List
    BY <1>1 DEF List
  <2> QED
    BY <1>1, <2>1, <2>2, <2>3 DEF SuggestionsFollow
<1>5. Shape'
  <2>1. \A b \in BuiltIns \cup Hidden : <<b>> \in DOMAIN name2Command /\ name2Command[<<b>>] = BuiltIn(b)
    BY DEF RegistryInv, RegistryAgrees, Shape, OwnNames
  <2>2. \A x \in DOMAIN contracts' : contracts'[x] # NoABI =>
          \A m \in DOMAIN contracts'[x] : Usable(contracts'[x][m])
    BY <1>1 DEF RegistryInv, Shape
  <2> QED
    BY <1>1, <1>2, <2>1, <2>2 DEF Shape
<1>6. GeneratedCommandsResolve'
  BY DEF RegistryInv, GeneratedCommandsResolve
<1> QED
  BY <1>1, <1>2, <1>3, <1>4, <1>5, <1>6 DEF RegistryInv

\* The next command of the line finds what it was generated for.
LEMMA HeadResolves ==
  ASSUME RegistryInv, queue # <<>>, Head(queue).kind \in {"read", "write"}
  PROVE  /\ Resolves(Head(queue).name)
         /\ Usable(MethodOf(Head(queue).name))
         /\ MethodOf(Head(queue).name).argument = Head(queue).argument
<1> DEFINE d == Head(queue)
<1>1. queue \in Seq(Declaration)
  BY DEF RegistryInv, RegistryTypeOK
<1>2. 1 \in DOMAIN queue /\ d = queue[1]
  BY <1>1
<1>3. d.name \in DOMAIN name2Command /\ name2Command[d.name] = d /\ Len(d.name) <= 2
  BY <1>2 DEF RegistryInv, QueueCurrent, Shape
<1> HIDE DEF d
<1>4. d.kind \in {"read", "write"}
  BY DEF d
<1>5. PICK c \in DOMAIN contracts : d \in DeclarationsOf(c, contracts[c])
  <2>1. \A b : d # BuiltIn(b)
    BY <1>4 DEF BuiltIn
  <2> QED
    BY <1>3, <2>1, KnownNames
<1>6. contracts[c] # NoABI /\ d \in Declarations(c, contracts[c])
  BY <1>4, <1>5 DEF DeclarationsOf, TokenDeclarations
<1>7. PICK m \in DOMAIN contracts[c] : d.name = Name(c, m) /\ d.argument = contracts[c][m].argument
  BY <1>6 DEF Declarations
<1>8. c \in Part /\ m \in Seq(Part) /\ m # <<>> /\ contracts[c] \in StoredABIs
      /\ Usable(contracts[c][m])
  BY <1>6, StoredUsable, StoredDomain, MethodNamesType, RegistryConstants
<1>9. Len(d.name) = 2 /\ d.name[1] = c /\ <<d.name[2]>> = m
  BY <1>3, <1>7, <1>8, TwoParts, NameParts
<1>10. Resolves(d.name) /\ MethodOf(d.name) = contracts[c][m]
  BY <1>6, <1>9 DEF Resolves, MethodOf, IsRegistered
<1> QED
  BY <1>7, <1>8, <1>10 DEF d

LEMMA TypeLineKept ==
  ASSUME RegistryInv, NEW l \in Lines(Known), TypeLine(l)
  PROVE  RegistryInv'
<1>1. PICK n \in 1 .. MaxLine : l \in [1 .. n -> Known]
  BY DEF Lines
<1>2. n \in Nat
  BY <1>1, RegistryConstants
<1>3. queue' = [i \in 1 .. n |-> name2Command[l[i]]]
  BY <1>1 DEF TypeLine
<1>4. \A i \in 1 .. n : /\ l[i] \in DOMAIN name2Command /\ Len(l[i]) <= 2
                         /\ name2Command[l[i]] \in Declaration /\ name2Command[l[i]].name = l[i]
  BY <1>1 DEF Known, RegistryInv, RegistryTypeOK
<1>5. queue' \in Seq(Declaration)
  BY <1>2, <1>3, <1>4, IsASeq
<1>6. UNCHANGED <<stage, setVars, promptVars, crash>>
  BY DEF TypeLine
<1>7. QueueCurrent' /\ \A i \in DOMAIN queue' : Len(queue'[i].name) <= 2
  BY <1>3, <1>4, <1>6 DEF QueueCurrent, setVars
<1>8. RegistryTypeOK'
  BY <1>5, <1>6 DEF RegistryInv, RegistryTypeOK, setVars, promptVars
<1>9. Generated' = Generated /\ List' = List
  BY <1>6 DEF Generated, List, setVars
<1>10. RegistryAgrees' /\ SuggestionsFollow' /\ GeneratedCommandsResolve' /\ Shape'
  BY <1>6, <1>7, <1>9
  DEF RegistryInv, RegistryAgrees, SuggestionsFollow, GeneratedCommandsResolve, Shape, setVars, promptVars
<1> QED
  BY <1>7, <1>8, <1>10 DEF RegistryInv

LEMMA CompleterKept == ASSUME RegistryInv, Completer PROVE RegistryInv'
<1>1. latestRevision' = revision /\ suggestions' = List /\ UNCHANGED <<stage, setVars, queue, built, crash>>
  BY DEF Completer
<1>2. Generated' = Generated /\ List' = List /\ List \subseteq AllNames
  BY <1>1 DEF Generated, List, setVars
<1>3. RegistryTypeOK'
  BY <1>1, <1>2 DEF RegistryInv, RegistryTypeOK, setVars
<1>4. RegistryAgrees' /\ QueueCurrent' /\ GeneratedCommandsResolve' /\ Shape'
  BY <1>1, <1>2 DEF RegistryInv, RegistryAgrees, QueueCurrent, GeneratedCommandsResolve, Shape, setVars
<1>5. SuggestionsFollow'
  <2>1. revision \in Nat /\ revision' = revision
    BY <1>1 DEF RegistryInv, RegistryTypeOK, setVars
  <2> QED
    BY <1>1, <1>2, <2>1 DEF SuggestionsFollow
<1> QED
  BY <1>3, <1>4, <1>5 DEF RegistryInv

LEMMA RegistryInvStep == ASSUME RegistryInv, [Next]_registryVars PROVE RegistryInv'
<1>0. stage \in {"execute", "files", "prompt", "exit"}
  BY DEF RegistryInv, RegistryTypeOK
<1>1. CASE UNCHANGED registryVars
  BY <1>0, <1>1, CommandKept DEF registryVars, setVars, promptVars
<1>2. ASSUME NEW l \in Lines(Known), TypeLine(l) PROVE RegistryInv'
  BY <1>2, TypeLineKept
<1>3. CASE NextStage
  BY <1>0, <1>3, CommandKept DEF NextStage
<1>4. CASE Completer
  BY <1>4, CompleterKept
<1>5. CASE NothingDone \/ Exit
  BY <1>0, <1>5, CommandKept DEF NothingDone, Exit, Runs
<1>6. ASSUME NEW c \in ContractNames, NEW abi \in ABIs, RegisterContract(c, abi) PROVE RegistryInv'
  <2> DEFINE full == WithDefaults(abi)
  <2>1. full \in StoredABIs \cup {NoABI} /\ DeclarationsOf(c, full) = Declarations(c, full)
    BY StoredABIType DEF DeclarationsOf
  <2>2. /\ ~IsRegistered(c) /\ AddContract(c, full) /\ AddCommands(Declarations(c, full))
        /\ \A m \in DOMAIN full : Usable(full[m])
        /\ queue # <<>> /\ queue' = Tail(queue) /\ UNCHANGED <<stage, promptVars, crash>>
    BY <1>6 DEF RegisterContract, Runs
  <2> HIDE DEF full
  <2> QED
    BY <2>1, <2>2, RegisterKept
<1>7. ASSUME NEW c \in ContractNames, RegisterToken(c) PROVE RegistryInv'
  <2>1. DeclarationsOf(c, NoABI) = TokenDeclarations(c)
    BY DEF DeclarationsOf
  <2>2. /\ ~IsRegistered(c) /\ AddContract(c, NoABI) /\ AddCommands(DeclarationsOf(c, NoABI))
        /\ queue # <<>> /\ queue' = Tail(queue) /\ UNCHANGED <<stage, promptVars, crash>>
    BY <1>7, <2>1 DEF RegisterToken, Runs
  <2> QED
    BY <2>2, RegisterKept
<1>8. ASSUME NEW c \in ContractNames, NEW abi \in ABIs, RegisterOverflows(c, abi) PROVE RegistryInv'
  BY <1>0, <1>8, CommandKept DEF RegisterOverflows, Dies, Runs
<1>9. ASSUME queue # <<>>, Head(queue).kind \in {"read", "write"}, RunContractCommand(Head(queue))
      PROVE  RegistryInv'
  <2>1. ~LookupPanics(Head(queue)) /\ ~DescriptorPanics(Head(queue))
    BY <1>9, HeadResolves DEF LookupPanics, DescriptorPanics, Usable
  <2>2. CASE EntryPointPanics(Head(queue))
    BY <1>0, <1>9, <2>2, CommandKept DEF EntryPointPanics, Dies, Runs
  <2>3. ASSUME NEW data, BuildMessage(Head(queue), data) PROVE RegistryInv'
    <3>1. crash' \in {"none", "nil", "set"}
      BY <2>3 DEF BuildMessage
    <3>2. queue' = Tail(queue) /\ UNCHANGED <<stage, setVars, promptVars>>
      BY <2>3 DEF BuildMessage, Runs
    <3> QED
      BY <1>0, <1>9, <3>1, <3>2, CommandKept
  <2> QED
    BY <1>9, <2>1, <2>2, <2>3 DEF RunContractCommand
<1> QED
  BY <1>1, <1>2, <1>3, <1>4, <1>5, <1>6, <1>7, <1>8, <1>9 DEF Next

-------------------------------------------------------------------------------
\* The message built last, for the command whose arguments the line was parsed with:
\* a registration has accepted its type, so all that is built conveys its arguments.
LEMMA BuiltConveys ==
  ASSUME RegistryInv, Head(queue).kind \in {"read", "write"},
         NEW data \in Arguments[Head(queue).argument], BuildMessage(Head(queue), data)
  PROVE  MessageCarriesArguments'
<1>1. queue # <<>>
  BY DEF BuildMessage, Runs
<1>2. PICK t : t = Head(queue).argument
  OBVIOUS
<1>3. t = MethodOf(Head(queue).name).argument /\ t \in Messages /\ ParseABIFields[t].outcome = "ok"
  BY <1>1, <1>2, HeadResolves DEF Usable
<1>4. PICK r : r = DataToMessage(data, t)
  OBVIOUS
<1>5. Conveys(r, data, t)
  BY <1>2, <1>3, <1>4, ArgumentsConveyed
<1>6. built' = <<[type |-> t, data |-> data, result |-> r]>>
  BY <1>3, <1>4 DEF BuildMessage
<1>7. \A i \in DOMAIN built' : built'[i].type = t /\ built'[i].data = data /\ built'[i].result = r
  BY <1>6
<1> QED
  BY <1>5, <1>7 DEF MessageCarriesArguments, Conveys

LEMMA CarriesStep ==
  ASSUME RegistryInv, MessageCarriesArguments, [Next]_registryVars
  PROVE  MessageCarriesArguments'
<1>1. CASE UNCHANGED built
  BY <1>1 DEF MessageCarriesArguments
<1>2. ASSUME NEW l \in Lines(Known), TypeLine(l) PROVE MessageCarriesArguments'
  BY <1>2 DEF TypeLine, MessageCarriesArguments
<1>3. ASSUME queue # <<>>, Head(queue).kind \in {"read", "write"}, RunContractCommand(Head(queue))
      PROVE  UNCHANGED built \/ MessageCarriesArguments'
  <2>1. ASSUME NEW data \in Arguments[Head(queue).argument], BuildMessage(Head(queue), data)
        PROVE  MessageCarriesArguments'
    BY <1>3, <2>1, BuiltConveys
  <2>2. CASE LookupPanics(Head(queue)) \/ EntryPointPanics(Head(queue)) \/ DescriptorPanics(Head(queue))
    BY <2>2 DEF LookupPanics, EntryPointPanics, DescriptorPanics
  <2> QED
    BY <1>3, <2>1, <2>2 DEF RunContractCommand
<1>4. ASSUME NEW c \in ContractNames, NEW abi \in ABIs, RegisterContract(c, abi) \/ RegisterOverflows(c, abi)
      PROVE  UNCHANGED built
  BY <1>4 DEF RegisterContract, RegisterOverflows
<1>5. ASSUME NEW c \in ContractNames, RegisterToken(c) PROVE UNCHANGED built
  BY <1>5 DEF RegisterToken
<1>6. CASE NextStage \/ Completer \/ NothingDone \/ Exit
  BY <1>1, <1>6 DEF NextStage, Completer, NothingDone, Exit
<1>7. CASE UNCHANGED registryVars
  BY <1>1, <1>7 DEF registryVars
<1> QED
  BY <1>1, <1>2, <1>3, <1>4, <1>5, <1>6, <1>7 DEF Next

-------------------------------------------------------------------------------
\* Registry, command set, prompt and line keep their types.
THEOREM RegistryTypesHold == Spec => []RegistryTypeOK
<1>1. RegistryInv => RegistryTypeOK
  BY DEF RegistryInv
<1> QED
  BY <1>1, RegistryInvInit, RegistryInvStep, PTL DEF Spec

\* Whatever ABIs and tokens are registered, in whatever lines: the registry and the
\* command set agree between any two commands.
THEOREM RegistryAndCommandsAgree == Spec => []RegistryAgrees
<1>1. RegistryInv => RegistryAgrees
  BY DEF RegistryInv
<1> QED
  BY <1>1, RegistryInvInit, RegistryInvStep, PTL DEF Spec

\* A command that was parsed before others of its line registered contracts or tokens
\* is still the one the set has under its name.
THEOREM LinesStayCurrent == Spec => []QueueCurrent
<1>1. RegistryInv => QueueCurrent
  BY DEF RegistryInv
<1> QED
  BY <1>1, RegistryInvInit, RegistryInvStep, PTL DEF Spec

\* What a name means it keeps meaning, contracts, tokens and commands alike.
THEOREM NamesKeepMeaning == Spec => NothingRedefined
<1> DEFINE Keeps == /\ \A c \in DOMAIN contracts : c \in DOMAIN contracts' /\ contracts'[c] = contracts[c]
                    /\ \A n \in DOMAIN name2Command :
                         n \in DOMAIN name2Command' /\ name2Command'[n] = name2Command[n]
<1>1. ASSUME RegistryInv, NEW c \in ContractNames, ~IsRegistered(c), NEW abi \in StoredABIs \cup {NoABI},
             abi # NoABI => \A m \in DOMAIN abi : Usable(abi[m]),
             AddContract(c, abi), AddCommands(DeclarationsOf(c, abi))
      PROVE  Keeps
  BY <1>1, Extended DEF IsRegistered
<1>2. ASSUME RegistryInv, [Next]_registryVars PROVE Keeps
  <2>1. CASE UNCHANGED setVars
    BY <2>1 DEF setVars
  <2>2. ASSUME NEW c \in ContractNames, NEW abi \in ABIs, RegisterContract(c, abi) PROVE Keeps
    <3> DEFINE full == WithDefaults(abi)
    <3>1. full \in StoredABIs \cup {NoABI} /\ DeclarationsOf(c, full) = Declarations(c, full)
      BY StoredABIType DEF DeclarationsOf
    <3>2. /\ ~IsRegistered(c) /\ AddContract(c, full) /\ AddCommands(Declarations(c, full))
          /\ \A m \in DOMAIN full : Usable(full[m])
      BY <2>2 DEF RegisterContract
    <3> HIDE DEF full, Keeps
    <3> QED
      BY <1>1, <1>2, <3>1, <3>2
  <2>3. ASSUME NEW c \in ContractNames, RegisterToken(c) PROVE Keeps
    <3>1. DeclarationsOf(c, NoABI) = TokenDeclarations(c)
      BY DEF DeclarationsOf
    <3>2. ~IsRegistered(c) /\ AddContract(c, NoABI) /\ AddCommands(DeclarationsOf(c, NoABI))
      BY <2>3, <3>1 DEF RegisterToken
    <3> HIDE DEF Keeps
    <3> QED
      BY <1>1, <1>2, <3>2
  <2>4. ASSUME NEW l \in Lines(Known), TypeLine(l) PROVE UNCHANGED setVars
    BY <2>4 DEF TypeLine
  <2>5. ASSUME NEW c \in ContractNames, NEW abi \in ABIs, RegisterOverflows(c, abi) PROVE UNCHANGED setVars
    BY <2>5 DEF RegisterOverflows, Dies
  <2>6. ASSUME RunContractCommand(Head(queue)) PROVE UNCHANGED setVars
    BY <2>6 DEF RunContractCommand, LookupPanics, EntryPointPanics, DescriptorPanics, BuildMessage, Dies
  <2>7. CASE NextStage \/ Completer \/ NothingDone \/ Exit \/ UNCHANGED registryVars
    BY <2>1, <2>7 DEF NextStage, Completer, NothingDone, Exit, registryVars, setVars
  <2> HIDE DEF Keeps
  <2> QED
    BY <1>2, <2>1, <2>2, <2>3, <2>4, <2>5, <2>6, <2>7 DEF Next
<1> HIDE DEF Keeps
<1>3. RegistryInv /\ [Next]_registryVars => [Keeps]_registryVars
  BY <1>2
<1>4. Spec => [][Keeps]_registryVars
  BY <1>3, RegistryInvInit, RegistryInvStep, PTL DEF Spec
<1> QED
  BY <1>4 DEF Keeps, NothingRedefined

\* No generated command dereferences the nil that a missing contract, method or
\* descriptor would give.
THEOREM NoCommandDangles == Spec => []GeneratedCommandsResolve
<1>1. RegistryInv => GeneratedCommandsResolve
  BY DEF RegistryInv
<1> QED
  BY <1>1, RegistryInvInit, RegistryInvStep, PTL DEF Spec

\* The prompt suggests what `list' prints, as soon as it has seen the last revision.
THEOREM PromptFollows == Spec => []SuggestionsFollow
<1>1. RegistryInv => SuggestionsFollow
  BY DEF RegistryInv
<1> QED
  BY <1>1, RegistryInvInit, RegistryInvStep, PTL DEF Spec

\* Whatever types an accepted ABI has, nested however deep, and whatever is typed: the
\* message of a contract command holds every argument in the field it is named for,
\* or a repeated field or a refused text is why there is none.
THEOREM ArgumentsArrive == Spec => []MessageCarriesArguments
<1>1. Init => MessageCarriesArguments
  BY DEF Init, MessageCarriesArguments
<1>2. RegistryInv /\ MessageCarriesArguments /\ [Next]_registryVars => MessageCarriesArguments'
  BY CarriesStep
<1> QED
  BY <1>1, <1>2, RegistryInvInit, RegistryInvStep, PTL DEF Spec
===============================================================================
