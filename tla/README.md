# A TLA+ model of the Koinos CLI

The Koinos CLI (`cmd/cli`, `internal/cli`, `internal/cliutil`) is a wallet for the
Koinos blockchain: a user types commands at a prompt, or passes them with
`--execute` and command files; commands open wallets, collect operations in a
transaction session, and submit transactions to a node over JSON-RPC. This
directory holds TLA+ models of its logic, the TLC configurations that check
them, and theorems that TLAPS proves.

    tlc -workers 2 -config EnvNonce.cfg MC_ExecutionEnvironment.tla
    tlapm ExecutionEnvironmentProofs.tla

## Inventory

| Component | Source | State | Operations | What makes it correct |
|---|---|---|---|---|
| Execution environment | `interpreter.go`, `commands.go` | open key, RPC client, settings (nonce, rc limit, payer, chain id), nonce cache per wallet | open, close, connect, disconnect, nonce, rclimit, payer, chain_id, submission | no nil client or key is dereferenced; the cached nonce is right; what is sent is what was set |
| Transaction session | `session.go`, `SessionCommand` | active flag, pending operations | begin, submit, cancel, view, and every operation command | operations leave whole, in order, exactly when they were submitted |
| RPC client and transactions | `rpc.go`, `transaction.go` | none of its own | one call per query, `SubmitTransactionOpsWithPayer` | a missing parameter, and only that, is queried |
| Koinos node (not in the repository) | used by `rpc.go` | account and pending nonces | queries, acceptance, blocks | (environment) |
| Command parser and interpreter | `parser.go`, `interpreter.go` | input, results, argument counter | parse, metrics, interpret | commands run in order, nothing else runs, no panic |
| Wallet files | `commands.go`, `util.go` | files, open key | create, import, open, close | a wallet announced is never lost |
| Contract registry, command set | `contract_commands.go`, `commands.go` | Contracts, commands, revision | register, register_token, generated commands | registry and commands agree; no generated command dereferences nil |
| Token commands | `token_commands.go` | none of their own | balance, supply, transfer | a transfer is reverted only when the balance it was checked against is gone |
| ABI conversion | `abi.go` | none | arguments of a type; arguments to message | every argument lands in its field |
| Prompt | `interactive.go` | suggestions, revision | completer, executor | suggestions follow the command set |
| Start-up | `main.go` | none | flags, `-x`, rc files | order of the sources; whether a prompt follows |
| Display commands | `commands.go` | none | help, list, read, account_rc, generate ... | (they print) |

The CLI is one goroutine that runs one command at a time. What interleaves with
it is the rest of the world: while a command is blocked at one RPC of several,
blocks are produced, another program submits with the same key, the 30 seconds
a cached nonce lives pass, a reply is lost, the process is killed. State survives from
command to command in the environment, and from process to process in the
wallet files and at the node. These are the hard parts, and PROJECT.json lists
each hazard at its line.

## Modules

An arrow points from a module to the ones it extends.

    ExecutionEnvironment   --> KoinosNode       (and INSTANCE OperationOutbox)
      MC_ExecutionEnvironment     --> ExecutionEnvironment
      ExecutionEnvironmentProofs  --> ExecutionEnvironment
      SessionProofs               --> ExecutionEnvironmentProofs
    TokenTransfers         --> RcLimit
      MC_TokenTransfers           --> TokenTransfers
      TokenTransfersProofs        --> TokenTransfers, DataInduction
    ContractRegistry       --> ArgumentMessages
      MC_ContractRegistry         --> ContractRegistry
      ArgumentMessagesProofs      --> ArgumentMessages, DataInduction
      ContractRegistryProofs      --> ContractRegistry, ArgumentMessagesProofs
    CommandParser
      MC_CommandParser            --> CommandParser
      CommandParserProofs         --> CommandParser, DataInduction
    WalletFiles                                 (INSTANCE WalletVault)
      MC_WalletFiles, WalletFilesProofs           --> WalletFiles
    DataInduction

**KoinosNode** is the environment: per network and account the nonce of the
last transaction in a block and of the last one in the mempool. An endpoint
serves a network of its own, so its id also names the chain id. Evicting a
transaction from the mempool is left out: it moves an account's nonce back, which no client can
see, and a cached nonce is then simply wrong for 30 seconds.

**ExecutionEnvironment** is the core. One action is one command run up to its
first RPC, or one RPC answer and what the handler does with it up to the next
RPC or the prompt. `pc` names the RPC the handler is blocked at:

| `pc` | RPC | called from |
|---|---|---|
| `pendingNonce`, `accountNonce` | `mempool.get_pending_nonce`, `chain.get_account_nonce` | `GetNextNonce` |
| `accountRc` | `chain.get_account_rc` | `GetRcLimit`, a percentage |
| `chainNonce`, `wholeRc`, `chainId` | the same, and `chain.get_chain_id` | `SubmitTransactionOpsWithPayer`, for a parameter that is zero or nil |
| `submit` | `chain.submit_transaction` | `SubmitTransaction` |
| `rcHint` | `chain.get_account_rc` | `createInsufficientRCMessage` |

`key`, `client`, `nonceMode`, `rcLimit`, `payer`, `chainID`, `session`, `nonceMap`
are the fields of the Go struct; a cache entry keeps its nonce and whether its
time is zero, within 30 seconds or older. `call` holds the
locals of the handlers on the stack. `issued` numbers the operations; `delivered`,
`source` and `astray` are history, which no action of the CLI depends on. `signed` is what the offline `session
submit` has printed, which the user can pass to `submit_transaction`. `astray` keeps,
per wallet, what has set its cached nonce and its account apart: `foreign`, another
program used the key; `bypassed`, a fixed nonce or `submit_transaction` did;
`unused`, `GetRcLimit` failed after the cache had given a nonce away. An answer of
`get_pending_nonce`, or an automatic submission the network takes, empties it.
The first two leave the cache behind, the third leaves it ahead, and `CacheExact` and
`SubmitsExpectedNonce` except each in its direction only (`Explained`): a nonce is too
high only after `unused`, too low only after the others, and exact otherwise. Both
speak of the network the nonce was queried from (`source`). So they do not say that
the CLI never causes a refusal: it does, in three ways, which violate
`AutoMeansQueried` (Disagreements).

The operation commands (`upload`, `call`, `set_system_call`, `set_system_contract`,
`<token>.transfer`, write methods of contracts) have one shape: the same two
checks, an operation built from the arguments, `AddOperation`, and
`SubmitTransaction` when there is no session (`AddOrSubmit`). They are the one
action `OperationCommand`. The query before a transfer is in TokenTransfers; a malformed
argument and commands that only print change nothing and are left out. A kill between two RPCs is
`Restart`; a kill before a receipt arrives is `SubmitReplyLost` and then `Restart`.

**OperationOutbox** says what the CLI owes its user, without RPCs, nonces and
settings: a session leaves whole and in order; only a confirmed delivery, an
export, the user or the end of the process empties it; a failure does not.
`ImplementsOutbox` is the refinement: `staged` is the session, `submitting` is
a command in flight, `hand` its operation when it comes from no session.

**CommandParser** takes a line as a sequence of lexemes (white space,
terminator, word, or something no rule matches) and follows `Parse`,
`parseNextCommand`, `parseArgs` and `parseSkip` loop turn by loop turn, then
`Interpret` or the help for a refused line with the index `Metrics` computes.
A word matches every argument type, so a type mismatch is the lexeme `bad`.
Command names and words are one lexical class, as in the code. The reference is stated on
positions of the line and parses nothing: `CommandStarts` are the positions a command
begins at, and the names executed must stand at the first of these, in order
(`Positions`), or at all of them (`AllCommands`).

**WalletFiles** has the steps of `create` and `import`: look whether the file
exists, make it empty, get the password, encrypt the key into it. Any number
of processes run them on one file system. `sio.Decrypt` is taken to fail on an
empty or partial file.

**WalletVault** says what these commands promise while nobody else uses the files: a
place is filled once and for all, in one step that also opens and announces the
wallet, and nothing that fails half way leaves a trace. `ImplementsVault` is the
refinement: a file that is missing, empty or damaged is a free place (`Stored`).

**TokenTransfers** follows a transfer RPC by RPC: the balance query and the check
against it, the session or the submission, the queries of credits, the
receipt. Between two RPCs other programs move balances, with the same key too,
and every query of the credits answers what it likes. The token contract
applies a transaction whole or reverts it. Nonce and chain id, which do not depend on
balances, are left to ExecutionEnvironment; what is added here is what that
module cannot say: which balance a transfer was checked against, and the value of
the limit.

**RcLimit** is the arithmetic of limits: a decimal becomes an integer of 1/`Unit` and
is truncated (`Satoshi`), a percentage of the credits is truncated again
(`Relative`), and the example printed after a refusal is twice the limit, at most
all there is (`Advice`). `Unit` stands for 10^8; the decimal library is exact, so nothing overflows
before the conversion.

**ContractRegistry** has the registry (`Contracts`), the command set as both the slice
(`commands` counts how often a name is in it) and the map (`name2Command`), its
revision, the suggestions and the revision the prompt made them for. A line is
looked up as a whole (`TypeLine`) and its declarations are then run one by one from
`queue`, as `ParseAndInterpret` does, while the commands among them change the
set. `stage` is where lines come from: `-x`, files, prompt. Nothing else touches this state, so a
handler is one action; a handler that panics sets `crash`.

**ArgumentMessages** has the two functions of `abi.go` that walk a message type:
`parseABIFields` declares arguments, `dataToMessage` looks up what was typed for
them. They never see each other and meet only in dotted names. A result is `ok`,
`error`, or a panic by its cause: `nil` (a missing argument), `set` (a repeated
field), `overflow` (a type inside itself). One level of each walk is an operator of
its own (`MessageParams`, `MessageValues`) that gets what the level below returns; the
recursive functions `parseABIFields` and `dataToMessage` tie them together. The
reference, `CarriesAll`, does not recurse: a leaf of a type is a chain of fields, and
says by itself what its name, kind and value are. `Half32` and `Half64` stand for 2^31
and 2^63. That a message could not be built because a field is repeated holds for any
field on the way, not only for leaves: a repeated field of a message type without
fields panics too, whatever was typed.

**DataInduction** has no model: it proves, from the well-foundedness of finite sets, that
a set of natural numbers with 0 and every successor is `Nat`.

## Runs

| Run | Instance | What it shows |
|---|---|---|
| EnvNonce | 1 wallet, 2 endpoints, 2 operations, nonces to 2, credits 0 and 10 | `CacheExact`, `SubmitsExpectedNonce` through every interleaving of RPCs, blocks, foreign transactions, expiry, refusals, lost receipts, reconnections and kills: at the network queried, ahead only after `GetRcLimit` failed with a nonce taken, behind only after the key was used past the cache |
| EnvSession | 1 wallet, 1 endpoint, 2 operations, fixed nonces 0 and 1, limit 0 | sessions implement `OperationOutbox`, online and offline; `ConfirmedOnce`, also for transactions signed offline; `LeavesWhole`: what leaves was issued one right after the other; `SubmitsExpectedNonce`: a fixed nonce, or an exported transaction, in between can leave the automatic nonce behind, never ahead; `SubmissionFollowsSettings`: the nonce, 0 excepted; `TypeOK`; `Responds` under fairness, the parameters 0 included that are queried again |
| EnvTwoWallets | 2 wallets, 1 endpoint, another payer, an absolute limit | `OnlineWhileCalling`; cache entries never mix (`CacheExact`); `SubmissionFollowsSettings`: limit and payer |
| EnvAutoNonce | 1 wallet, 2 endpoints, a fixed nonce | violation: see below |
| EnvRcLimit | smallest instance | violation: see below |
| Parser | all lines of up to 6 lexemes, four commands: no argument, an optional one, a required one, both | `CurrentArgDeclared`, `ExecutesInOrder`, `ExecutesFullCommands` |
| ParserList, ParserRefusal | lines of up to 4 and 3 | violations |
| Wallet | 1 process, 2 files, 2 passwords, 3 keys | `AnnouncedKept`, `OpenKeyStored`; create, import, open and close implement `WalletVault` |
| WalletReplaced | 1 file, 2 processes | violation |
| TokenTransfers | 2 wallets and a third address, 2 tokens, sessions of 2, amounts and limits finer than the unit, credits 0, 5, 15 | `RevertedOnlyIfSpent`, `AdviceHelps`, and `PercentageHonoured` (the exact part, rounded down; all the credits only when the part is below the smallest unit) while balances and credits move |
| Registry | 2 names, 6 ABIs, lines of 2 commands | `RegistryAgrees`, `QueueCurrent`, `GeneratedCommandsResolve`, `SuggestionsFollow`, `NothingRedefined`, `MessageCarriesArguments` |

Bounds. `MaxNonce` (transactions per account and network), `MaxOps` (operations
issued) and `MaxCachedNonce` are the only counters that would grow without end; `MaxKeys`
and `MaxLength` bound keys and lines, `MaxLine` the commands of a line, `MaxStaged` a
session of transfers, `MaxDepth` the nesting of types (it is the stack). The hazards of the
nonce cache need one entry, one intruding transaction and one submission after
it, and the entry in use again after a success: two nonces, two operations. Two wallets, or two endpoints, are enough to mix
entries, since a command uses one wallet and one endpoint. Two operations are
enough for order and for an operation alone beside a session. For the parser,
six lexemes hold a command, a terminator, a second command with an argument
and something illegal after it. A line of two commands lets one change the set the other
was looked up in. The types of Registry nest to depth two, have a oneof with a
nested member, a repeated field, a repeated field of a type without fields, an untranslated
kind and one that contains itself; the texts
lie on both sides of each width. `Unit` 10 and `Fine` 2 make both truncations
happen, and credits of 5 make a percentage come to 0. Symmetry is used only
where all properties are invariants or refinements of a safety specification, so not in EnvSession. Registry and the parser
runs set `CHECK_DEADLOCK FALSE`: the CLI exits or dies there.

Fairness. `FairSpec`, which EnvSession checks, adds `WF_vars(RpcReturns)`: every RPC returns with an answer
or an error, because the transport ends when the endpoint or the connection
does. The CLI sets no time limit itself (`context.Background`), and `Responds` says nothing
about that: it shows that the chain of RPCs of a command is finite. Nothing else is
fair: the user may never type, and blocks may never come.

### Disagreements

Each of these is a run whose only property states what the repository says.

* `rclimit 0`, or a percentage that comes to 0, offers all the credits of the account: `rpc.go:230`
  takes 0 for missing (EnvRcLimit).
* `nonce auto` "will default to querying for nonce" (`commands.go:110`): after `connect` the
  nonce queried from the old network is sent to the new one for 30 seconds
  (EnvAutoNonce, `commands.go:184`). It is the shortest of the three ways to violate
  `AutoMeansQueried`, which holds only when all are mended. The others: when `GetRcLimit`
  fails, the nonce taken from the cache is lost, and the next submission carries one too
  high (`interpreter.go:317`); after a fixed nonce or `submit_transaction` it carries one
  that is used up (`interpreter.go:152`, `commands.go:657`). A submission with a wrong nonce
  is refused, and the refusal resets the cache.
* A command that leaves out its optional argument ends the line: in
  `nonce ; address` the second command is dropped without a word (ParserList).
* `address ; ;` panics: index out of range at `interpreter.go:535` (ParserRefusal).
* Two processes that create the same file replace each other's wallet
  (WalletReplaced).

These were found by reading. The models do what the code does, but a property would
restate the assignment in question, so there is no run.

* An ABI with a repeated field is accepted, and the command it adds panics in
  `msg.Set`: `ErrUnsupportedType` "is returned when an unsupported type is passed"
  (`errors.go:59`), and is not. `MessageCarriesArguments` allows for this panic alone.
* The chain id set with `chain_id` is ignored online: `GetSubmissionParams` does
  not pass it on (`ChainIdAnswer`).
* `create` without a password leaves an empty file, and the retry reports that
  the wallet exists (`CreationFails`).
* The example of a higher limit than 0 is 0 (`Advice`).
* A command cannot be used on the line that registers it (`TypeLine`).

A submission whose receipt was lost may be delivered twice when the user
submits the session again. The outbox says so (at least once), and
`ConfirmedOnce` speaks of confirmed transactions only.

## Proofs

All theorems hold for arbitrary sets of wallets, endpoints, payers, nonces,
limits, files, passwords, commands, ABIs and message types, and for all bounds; they
assume the `ASSUME`s of their modules (`NodeConstants`, `EnvConstants`,
`ParserConstants`, `WalletConstants`, `ArgumentConstants`, `RegistryConstants`,
`NilIsNoABI`, `RcConstants`, `TransferConstants`). Each rests on an inductive
invariant, whose proof has a lemma per action, and TLC has agreed to every
property before. Every invariant and action property the passing runs check has a
theorem.

Some of them need what a recursive function computes. The induction theorems of
the library take a predicate, which the provers cannot instantiate; `NatSetInduction`
(DataInduction) takes a set instead. For a recursive function it gives
the set of the arguments up to which a solution of its equation exists, and so that
the function satisfies its equation; a second induction then says what it computes.

* `TypesHold`: `Spec => []TypeOK`, one step per action.
* `CallsAreOnline`: `OnlineWhileCalling` is inductive together with `TypeOK`
  (`CallOK`): a command that reaches an RPC found key and client at the prompt,
  and nothing but a command changes them.
* `CacheIsExact` and `SubmissionsUseExpectedNonce` share the invariant
  `NonceInv`: `CacheExact`; a fresh entry has a known source (`SourceKnown`); the
  nonce a command took is the one in the cache and, when the entry is from this
  endpoint, the one expected, but for what `astray` explains (`TakenExact`); when the account
  nonce is being queried the mempool was empty, or the account has moved since
  (`EmptyMempool`); what is pending comes after what is in a block, so a nonce read is
  never too high (`MempoolAhead`); these two queries happen only in automatic mode, for an
  entry that is not fresh, and `chainNonce` only with a fixed nonce
  (`ModeOfQuery`, `QueryWhenOld`). `EmptyMempool` shows why
  the two-query nonce is right: a block between the queries can only empty a
  mempool, so if it was empty at the first query, the second one misses
  nothing unless somebody else submitted.
* `SessionsImplementOutbox`: the refinement. `SessionInv` says what a submission
  holds while it is in flight: the session as it is, or one operation while there
  is no session; with it every action is a step of the outbox or a stutter.
* `ConfirmedAtMostOnce`: `DeliveryInv` follows an operation number to the places it can be
  in: session, hand, signed transactions, deliveries. A number
  confirmed is no longer held; transactions signed offline share no number; and
  one that holds a confirmed number is `Spent`: the account's nonce has passed its
  own, and nonces never go back (`NoncesAdvance`), so no network takes it again.
* `TransactionsLeaveWhole`: `RunsInv` adds that the session, and the operation in the hand,
  are whole too, and that the session ends with the operation issued last: while it
  is open nothing can be issued but into it, which is `SessionInv`.
* `SettingsFollowed`: `SettingsInv` ties what a command has gathered before each RPC to the
  settings, which cannot change before it returns.
* `ParserTypesHold`, `CountersDeclared`: `ParserInv` adds the position in the argument
  loop (`ArgPosition`) and that white space comes in single lexemes (`NoRuns`).
* `CommandsRunInOrder`: `OrderInv` says that the results are exactly the commands that start
  in what has been consumed (`Covers`), and that the loop is at the start of a command
  only where one may stand (`Fresh`).
* `FullLinesRun`: `FullInv` adds, for a line of well-formed commands, that nothing is refused,
  and that the argument counter is one more than the arguments that stand between the
  command's name and what is left; so `parseArgs` stops at its terminator, not before.
* `AnnouncedWalletsKept`, `OpenWalletStored`: with a single process
  (`SingleProcess`). `JobFile` says that the file a process found missing is still
  missing when it is made, and still empty when the key is written;
  WalletReplaced shows that it fails with two processes. `WalletTypesHold` needs no such
  assumption. From the same invariant, `WalletsImplementVault` is the refinement:
  making the file is a stutter, since it was no wallet before and is none after, and writing
  the key is the step that fills the place. `WalletsNotReplaced` is the action property that
  WalletReplaced refutes for two processes.
* `RegistryTypesHold`, `RegistryAndCommandsAgree`, `LinesStayCurrent`,
  `NoCommandDangles`, `PromptFollows`: `RegistryInv` is
  the conjunction of the properties with `Shape`. That no generated command
  dereferences nil needs all of them: the queued declaration is the one of the set, the
  set's comes from a registered contract, and its ABI was accepted. A name that is
  registered is new (`NamesNew`), since a dotted name determines its contract and its
  method; `NamesKeepMeaning` is the action property that follows.
* `ArgumentsArrive`: what `RegistryInv` says of the queued declaration makes the type of the
  message one `ParseABIFields` has accepted. The rest is about the two walks, for types of
  any shape (ArgumentMessagesProofs), each by induction on the nesting: a type that is
  accepted lists exactly the leaves below it (`AllListLeaves`); given these as
  data, the message sets exactly the leaves that no later member of a oneof
  overrides, or ends for one of the stated reasons (`AllAnswered`). Two chains of a type with
  one name are the same (`NamesIdentify`), because the fields of a type
  differ in their names, so no argument fills two fields; and what `strconv.Atoi` lets through
  fits the field up to its width (`ConversionFits`).
* `TransferTypesHold`, `RevertsAreExplained`: `After`, the balances after each operation of a
  transaction, is such a recursion. `TransferInv` adds that every transfer in the session or in flight
  was checked or is marked as not checked (`Checked`); a transfer the token contract refuses then
  finds less than it was checked against (`RefusedIsSpent`).
* `LimitsHonoured`, `AdviceAlwaysHelps`: `RcInv` adds that the setting, and every advice, is at
  most 100% when it is a percentage (`Sound`), and follows the two queries of the credits: the limit of a submission is
  the part of the first answer, or, if that part rounds to 0 (`RoundedToNothing`), the second answer;
  the rest is division.

Model-checked only: `Responds`, since liveness under fairness is out of the reach of
TLAPS. The violations are TLC's too.

## Not modelled

* The node beyond nonces, balances and acceptance: eviction from the mempool, forks,
  credits spent.
* Merkle roots, hashes, signatures, encryption: a transaction is what it carries.
* `DecodeMessageBytes`, which prepares a result for printing, and `GetFiles`, which hands
  descriptors to the protobuf library.
* Display commands and queries, `sleep`, `generate` and its vanity keys, and
  `sign_transaction`, which prints a transaction with one more signature: they
  change no state.
* Flags, the reading of files, printing, and drawing of the prompt.
* Negative limits, and amounts beyond 64 bits. Of an integer typed for a 32-bit field the
  model keeps what the code keeps, its value modulo 2^32.
* ABI files whose methods are not objects: a `null` method makes `register` panic
  (`contract_commands.go:93`).

## Plan

1. Nonce, settings and session of the execution environment, the outbox. (done)
2. Parser and interpreter; wallet files. (done)
3. `ContractRegistry` and `ArgumentMessages`. (done)
4. `TokenTransfers` and `RcLimit`. (done)
5. Proofs of the safety invariants, of the action property and of the two refinements.
   (done)
6. Open: credits of the payer against those of the signer, which `GetRcLimit` does not
   tell apart; eviction from the mempool as a fault of the nonce cache;
   `DecodeMessageBytes` against `dataToMessage`; which answers are printed when
   a line of a file ends the process.
