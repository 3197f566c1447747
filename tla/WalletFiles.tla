----------------------------- MODULE WalletFiles -----------------------------
(***************************************************************************)
(* Wallet files: create, import, open and close (internal/cli/commands.go) *)
(* over the file helpers of internal/cliutil/util.go, run by one or more   *)
(* CLI processes that share a file system.  create and import are not      *)
(* atomic: they look whether the file exists, then create it empty, and    *)
(* only then ask for the password and write the encrypted key.             *)
(***************************************************************************)
EXTENDS Naturals, FiniteSets

CONSTANTS Processes, Files,
          Passwords,  \* passwords that are not blank
          Blank,      \* no password, and WALLET_PASS is not set
          NoKey,      \* no open wallet
          Absent,     \* no such file
          Empty,      \* a file without a readable wallet
          MaxKeys     \* bound: keys generated

Wallet == [key : Nat, password : Passwords]

ASSUME WalletConstants == /\ Blank \notin Passwords /\ Absent # Empty
                          /\ Absent \notin Wallet /\ Empty \notin Wallet
                          /\ NoKey \notin Nat /\ MaxKeys \in Nat

VARIABLES
  disk,       \* [Files -> Absent, Empty or the encrypted wallet]
  generated,  \* number of keys generated: 0 .. generated - 1
  open,       \* [Processes -> the key of the open wallet]
  job,        \* [Processes -> the create or import in progress]
  reported    \* wallets announced by "Created and opened new wallet"

walletVars == <<disk, generated, open, job, reported>>

IsWallet(content) == content \notin {Absent, Empty}

Idle == [step |-> "idle"]
Job  == [step : {"create", "write"}, file : Files, key : Nat, password : Passwords \cup {Blank}]

WalletTypeOK ==
  /\ disk \in [Files -> Wallet \cup {Absent, Empty}]
  /\ generated \in Nat
  /\ open \in [Processes -> Nat \cup {NoKey}]
  /\ job \in [Processes -> Job \cup {Idle}]
  /\ reported \subseteq [file : Files, wallet : Wallet]

-------------------------------------------------------------------------------
\* create and import

Finish(p) == job' = [job EXCEPT ![p] = Idle]

\* Mutant of Begin: whether the file exists is not checked.
BeginUnchecked(p, f, key, password) ==
  /\ job[p] = Idle
  /\ job' = [job EXCEPT ![p] = [step |-> "create", file |-> f, key |-> key, password |-> password]]

\* os.Stat: nothing is there, or the command ends with ErrWalletExists; the key is
\* made, or decoded.
Begin(p, f, key, password) ==
  /\ job[p] = Idle
  /\ disk[f] = Absent
  /\ job' = [job EXCEPT ![p] = [step |-> "create", file |-> f, key |-> key, password |-> password]]

Create(p, f, password) ==
  /\ generated < MaxKeys
  /\ Begin(p, f, generated, password)
  /\ generated' = generated + 1
  /\ UNCHANGED <<disk, open, reported>>

\* A private key the user has written down earlier.
Import(p, f, key, password) ==
  /\ key < generated
  /\ Begin(p, f, key, password)
  /\ UNCHANGED <<disk, generated, open, reported>>

\* Mutant of CreateFile: a blank password is not refused.
CreateFileAnyPassword(p) ==
  /\ job[p].step = "create"
  /\ disk' = [disk EXCEPT ![job[p].file] = Empty]
  /\ job' = [job EXCEPT ![p].step = "write"]
  /\ UNCHANGED <<generated, open, reported>>

\* os.Create empties the file, then GetPassword may fail and leave it so.
CreateFile(p) ==
  /\ job[p].step = "create"
  /\ disk' = [disk EXCEPT ![job[p].file] = Empty]
  /\ \/ job[p].password = Blank /\ Finish(p)
     \/ job[p].password # Blank /\ job' = [job EXCEPT ![p].step = "write"]
  /\ UNCHANGED <<generated, open, reported>>

\* Mutant of WriteKey: the wallet that was open stays open.
WriteKeyUnopened(p) ==
  /\ job[p].step = "write"
  /\ LET wallet == [key |-> job[p].key, password |-> job[p].password] IN
       /\ disk' = [disk EXCEPT ![job[p].file] = wallet]
       /\ reported' = reported \cup {[file |-> job[p].file, wallet |-> wallet]}
  /\ Finish(p)
  /\ UNCHANGED <<generated, open>>

\* CreateWalletFile; the last writer of a file wins, the keys being of one size.
WriteKey(p) ==
  /\ job[p].step = "write"
  /\ LET wallet == [key |-> job[p].key, password |-> job[p].password] IN
       /\ disk' = [disk EXCEPT ![job[p].file] = wallet]
       /\ reported' = reported \cup {[file |-> job[p].file, wallet |-> wallet]}
  /\ open' = [open EXCEPT ![p] = job[p].key]
  /\ Finish(p)
  /\ UNCHANGED generated

\* Mutant of CreationFails: the wallet is opened before it is written.
CreationFailsOpened(p) ==
  /\ job[p] # Idle
  /\ open' = [open EXCEPT ![p] = job[p].key]
  /\ Finish(p)
  /\ UNCHANGED <<disk, generated, reported>>

\* os.Create failed before it changed anything, or the write failed.
CreationFails(p) ==
  /\ job[p] # Idle
  /\ Finish(p)
  /\ UNCHANGED <<disk, generated, open, reported>>

-------------------------------------------------------------------------------
\* open and close

\* A wrong or blank password, or a file that is no wallet, leaves the wallet
\* that was open before open.
Open(p, f, password) ==
  /\ job[p] = Idle
  /\ IsWallet(disk[f]) /\ disk[f].password = password
  /\ open' = [open EXCEPT ![p] = disk[f].key]
  /\ UNCHANGED <<disk, generated, job, reported>>

Close(p) ==
  /\ job[p] = Idle
  /\ open[p] # NoKey
  /\ open' = [open EXCEPT ![p] = NoKey]
  /\ UNCHANGED <<disk, generated, job, reported>>

\* exit, or the process is killed at any point.
Kill(p) ==
  /\ open' = [open EXCEPT ![p] = NoKey]
  /\ Finish(p)
  /\ UNCHANGED <<disk, generated, reported>>

-------------------------------------------------------------------------------
WalletInit ==
  /\ disk = [f \in Files |-> Absent]
  /\ generated = 0
  /\ open = [p \in Processes |-> NoKey]
  /\ job = [p \in Processes |-> Idle]
  /\ reported = {}

WalletNext ==
  \E p \in Processes :
    \/ \E f \in Files :
         \E password \in Passwords \cup {Blank} :
           \/ Create(p, f, password)
           \/ \E key \in 0 .. MaxKeys - 1 : Import(p, f, key, password)
           \/ Open(p, f, password)
    \/ CreateFile(p) \/ WriteKey(p) \/ CreationFails(p)
    \/ Close(p) \/ Kill(p)

WalletSpec == WalletInit /\ [][WalletNext]_walletVars

-------------------------------------------------------------------------------
\* Properties

\* A wallet the CLI announced is in its file for good, under its password: with
\* one process, no later create, import, failure or kill loses the key.
AnnouncedKept == \A r \in reported : disk[r.file] = r.wallet

\* The open wallet can be opened again: its key is in a file.
OpenKeyStored ==
  \A p \in Processes : open[p] # NoKey =>
    \E f \in Files : IsWallet(disk[f]) /\ disk[f].key = open[p]

-------------------------------------------------------------------------------
\* What the comment on the error promises (errors.go:32): "ErrWalletExists is
\* returned when trying to create a new wallet and it already exists".  A wallet
\* that is there makes create and import fail: it is not replaced.
NotReplaced == [][\A f \in Files : IsWallet(disk[f]) => disk'[f] = disk[f]]_walletVars

-------------------------------------------------------------------------------
\* What a wallet file is to its user

\* An empty or damaged file holds no wallet yet.
Stored == [f \in Files |-> IF IsWallet(disk[f]) THEN disk[f] ELSE Absent]

Vault == INSTANCE WalletVault WITH
  Users <- Processes, Places <- Files, Free <- Absent,
  vault <- Stored,
  opened <- open, announced <- reported

\* With one process, create and import put a wallet in place, open and announce it
\* as if in one step, although they take three and may be refused, fail or be
\* killed between any two; no file that holds a wallet is ever written again, and
\* open shows what was put there (commands.go:415-454, 472-517).
ImplementsVault == Vault!VaultSpec
===============================================================================
