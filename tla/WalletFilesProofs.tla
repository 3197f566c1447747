-------------------------- MODULE WalletFilesProofs --------------------------
(***************************************************************************)
(* With a single CLI process no wallet is ever lost.                       *)
(***************************************************************************)
EXTENDS WalletFiles, TLAPS

\* What create and import rely on between their steps: nobody else writes the
\* file they found missing.  It fails as soon as there are two processes.
JobFile ==
  \A p \in Processes :
    /\ job[p].step = "create" => disk[job[p].file] = Absent
    /\ job[p].step = "write" => disk[job[p].file] = Empty /\ job[p].password \in Passwords

WalletInv == WalletTypeOK /\ JobFile /\ AnnouncedKept /\ OpenKeyStored

SingleProcess == \A p, q \in Processes : p = q

LEMMA WalletInvInit == WalletInit => WalletInv
BY DEF WalletInit, WalletInv, WalletTypeOK, JobFile, AnnouncedKept, OpenKeyStored, Idle

\* A process that is not idle has a job with all its fields.
LEMMA JobType ==
  ASSUME WalletTypeOK, NEW p \in Processes, job[p] # Idle
  PROVE  job[p] \in Job /\ job[p].step # "idle"
BY DEF WalletTypeOK, Job, Idle

LEMMA IdleStep == Idle.step = "idle"
BY DEF Idle

LEMMA WalletInvStep ==
  ASSUME SingleProcess, WalletInv, [WalletNext]_walletVars
  PROVE  WalletInv'
<1> USE DEF WalletInv
<1>1. CASE UNCHANGED walletVars
  BY <1>1 DEF walletVars, WalletTypeOK, JobFile, AnnouncedKept, OpenKeyStored
<1>3. ASSUME NEW p \in Processes, NEW f \in Files, NEW key \in Nat,
             NEW password \in Passwords \cup {Blank}, Begin(p, f, key, password),
             generated' \in Nat, UNCHANGED <<disk, open, reported>>
      PROVE  WalletInv'
  <2> DEFINE j == [step |-> "create", file |-> f, key |-> key, password |-> password]
  <2>1. j \in Job
    BY DEF Job
  <2>2. \A q \in Processes : job'[q] = IF q = p THEN j ELSE job[q]
    BY <1>3 DEF Begin, WalletTypeOK
  <2>3. WalletTypeOK'
    BY <1>3, <2>1 DEF Begin, WalletTypeOK
  <2>4. JobFile'
    BY <1>3, <2>2 DEF Begin, JobFile
  <2>5. AnnouncedKept' /\ OpenKeyStored'
    BY <1>3 DEF AnnouncedKept, OpenKeyStored
  <2> QED
    BY <2>3, <2>4, <2>5
<1>4. ASSUME NEW p \in Processes, CreateFile(p) PROVE WalletInv'
  <2>1. job[p] \in Job /\ job[p].file \in Files /\ disk[job[p].file] = Absent
    BY <1>4, JobType, IdleStep DEF CreateFile, JobFile, Job
  <2>2. \A f \in Files : disk'[f] = IF f = job[p].file THEN Empty ELSE disk[f]
    BY <1>4 DEF CreateFile, WalletTypeOK
  <2> DEFINE next == IF job[p].password = Blank THEN Idle ELSE [job[p] EXCEPT !.step = "write"]
  <2>3. job' = [job EXCEPT ![p] = next]
    BY <1>4 DEF CreateFile, Finish
  <2>4. /\ next \in Job \cup {Idle}
         /\ \/ next = Idle
            \/ next.step = "write" /\ next.file = job[p].file /\ next.password \in Passwords
    BY <2>1 DEF Job
  <2> HIDE DEF next
  <2>5. job' \in [Processes -> Job \cup {Idle}]
    BY <2>3, <2>4 DEF WalletTypeOK
  <2>6. WalletTypeOK'
    BY <1>4, <2>5 DEF CreateFile, WalletTypeOK
  <2>7. \/ job'[p] = Idle
        \/ job'[p].step = "write" /\ job'[p].file = job[p].file /\ job'[p].password \in Passwords
    BY <2>3, <2>4 DEF WalletTypeOK
  <2>8. JobFile'
    BY <2>1, <2>2, <2>7, IdleStep DEF JobFile, SingleProcess
  <2>9. AnnouncedKept'
    BY <1>4, <2>1, <2>2, WalletConstants DEF CreateFile, AnnouncedKept, WalletTypeOK
  <2>10. OpenKeyStored'
    BY <1>4, <2>1, <2>2 DEF CreateFile, OpenKeyStored, IsWallet
  <2> QED
    BY <2>6, <2>8, <2>9, <2>10
<1>5. ASSUME NEW p \in Processes, WriteKey(p) PROVE WalletInv'
  <2> DEFINE wallet == [key |-> job[p].key, password |-> job[p].password]
             g == job[p].file
  <2>1. job[p] \in Job /\ g \in Files /\ disk[g] = Empty /\ wallet \in Wallet
        /\ job[p].key \in Nat
    BY <1>5, JobType, IdleStep DEF WriteKey, JobFile, Job, Wallet
  <2>2. \A f \in Files : disk'[f] = IF f = g THEN wallet ELSE disk[f]
    BY <1>5 DEF WriteKey, WalletTypeOK
  <2>3. reported' = reported \cup {[file |-> g, wallet |-> wallet]}
        /\ open' = [open EXCEPT ![p] = job[p].key] /\ wallet.key = job[p].key
    BY <1>5 DEF WriteKey
  <2>4. disk' = [disk EXCEPT ![g] = wallet]
        /\ job' = [job EXCEPT ![p] = Idle] /\ UNCHANGED generated
    BY <1>5 DEF WriteKey, Finish
  <2> HIDE DEF wallet, g
  <2>5. WalletTypeOK'
    BY <2>1, <2>3, <2>4 DEF WalletTypeOK
  <2>6. JobFile'
    BY <2>4, IdleStep DEF JobFile, SingleProcess, WalletTypeOK
  <2>7. AnnouncedKept'
    BY <2>1, <2>2, <2>3, WalletConstants DEF AnnouncedKept, WalletTypeOK
  <2>8. OpenKeyStored'
    BY <2>1, <2>2, <2>3, WalletConstants DEF OpenKeyStored, IsWallet, WalletTypeOK
  <2> QED
    BY <2>5, <2>6, <2>7, <2>8
<1>6. ASSUME NEW p \in Processes, CreationFails(p) \/ Kill(p) PROVE WalletInv'
  <2>1. job' = [job EXCEPT ![p] = Idle] /\ UNCHANGED <<disk, generated, reported>>
        /\ (open' = open \/ open' = [open EXCEPT ![p] = NoKey])
    BY <1>6 DEF CreationFails, Kill, Finish
  <2> QED
    BY <2>1, IdleStep DEF WalletTypeOK, JobFile, AnnouncedKept, OpenKeyStored
<1>7. ASSUME NEW p \in Processes, NEW f \in Files, NEW password \in Passwords \cup {Blank},
             Open(p, f, password)
      PROVE  WalletInv'
  <2>1. disk[f] \in Wallet /\ disk[f].key \in Nat /\ open' = [open EXCEPT ![p] = disk[f].key]
        /\ IsWallet(disk[f])
    BY <1>7 DEF Open, IsWallet, WalletTypeOK, Wallet
  <2> QED
    BY <1>7, <2>1 DEF Open, WalletTypeOK, JobFile, AnnouncedKept, OpenKeyStored
<1>8. ASSUME NEW p \in Processes, Close(p) PROVE WalletInv'
  BY <1>8 DEF Close, WalletTypeOK, JobFile, AnnouncedKept, OpenKeyStored
<1>9. ASSUME NEW p \in Processes, NEW f \in Files, NEW password \in Passwords \cup {Blank},
             Create(p, f, password) \/ \E key \in 0 .. MaxKeys - 1 : Import(p, f, key, password)
      PROVE  WalletInv'
  <2>1. generated \in Nat /\ generated + 1 \in Nat /\ 0 .. MaxKeys - 1 \subseteq Nat
    BY WalletConstants DEF WalletTypeOK
  <2> QED
    BY <1>3, <1>9, <2>1 DEF Create, Import
<1> QED
  BY <1>1, <1>4, <1>5, <1>6, <1>7, <1>8, <1>9 DEF WalletNext

\* A single process never loses a wallet it has announced, whatever fails or is
\* killed in between (commands.go:415-454 and 472-517).
THEOREM AnnouncedWalletsKept == SingleProcess => (WalletSpec => []AnnouncedKept)
<1> SUFFICES ASSUME SingleProcess PROVE WalletSpec => []AnnouncedKept
  OBVIOUS
<1>1. WalletInit => WalletInv
  BY WalletInvInit
<1>2. WalletInv /\ [WalletNext]_walletVars => WalletInv'
  BY WalletInvStep
<1>3. WalletInv => AnnouncedKept
  BY DEF WalletInv
<1> QED
  BY <1>1, <1>2, <1>3, PTL DEF WalletSpec

\* And the wallet it has open can be opened again: a key is used only after it is
\* in a file.
THEOREM OpenWalletStored == SingleProcess => (WalletSpec => []OpenKeyStored)
<1> SUFFICES ASSUME SingleProcess PROVE WalletSpec => []OpenKeyStored
  OBVIOUS
<1>1. WalletInit => WalletInv
  BY WalletInvInit
<1>2. WalletInv /\ [WalletNext]_walletVars => WalletInv'
  BY WalletInvStep
<1>3. WalletInv => OpenKeyStored
  BY DEF WalletInv
<1> QED
  BY <1>1, <1>2, <1>3, PTL DEF WalletSpec

-------------------------------------------------------------------------------
\* The vault

\* A step that leaves the files alone, and one that writes a file.
LEMMA StoredStays ==
  ASSUME disk' = disk
  PROVE  Stored' = Stored
BY DEF Stored

LEMMA StoredChanges ==
  ASSUME WalletTypeOK, NEW g \in Files, ~IsWallet(disk[g]), NEW content,
         disk' = [disk EXCEPT ![g] = content]
  PROVE  /\ Stored[g] = Absent
         /\ ~IsWallet(content) => Stored' = Stored
         /\ IsWallet(content) => Stored' = [Stored EXCEPT ![g] = content] /\ Stored'[g] = content
<1>1. \A f \in Files : disk'[f] = IF f = g THEN content ELSE disk[f]
  BY DEF WalletTypeOK
<1>2. /\ \A f \in Files : Stored[f] = IF IsWallet(disk[f]) THEN disk[f] ELSE Absent
      /\ \A f \in Files : Stored'[f] = IF IsWallet(disk'[f]) THEN disk'[f] ELSE Absent
  BY DEF Stored, IsWallet
<1>3. Stored = [f \in Files |-> Stored[f]] /\ Stored' = [f \in Files |-> Stored'[f]]
  BY DEF Stored
<1> QED
  BY <1>1, <1>2, <1>3

LEMMA VaultStep ==
  ASSUME SingleProcess, WalletInv, [WalletNext]_walletVars
  PROVE  [Vault!VaultNext]_(Vault!vaultVars)
<1>1. WalletTypeOK /\ JobFile
  BY DEF WalletInv
<1>2. ASSUME UNCHANGED <<disk, open, reported>> PROVE UNCHANGED Vault!vaultVars
  BY <1>2, StoredStays DEF Vault!vaultVars
<1>3. CASE UNCHANGED walletVars
  BY <1>2, <1>3 DEF walletVars
<1>4. ASSUME NEW p \in Processes, CreateFile(p) PROVE UNCHANGED Vault!vaultVars
  <2>1. job[p].file \in Files /\ disk[job[p].file] = Absent
    BY <1>1, <1>4, JobType, IdleStep DEF CreateFile, JobFile, Job
  <2>2. disk' = [disk EXCEPT ![job[p].file] = Empty] /\ UNCHANGED <<open, reported>>
    BY <1>4 DEF CreateFile
  <2>3. ~IsWallet(Absent) /\ ~IsWallet(Empty)
    BY DEF IsWallet
  <2>4. Stored' = Stored
    BY <1>1, <2>1, <2>2, <2>3, StoredChanges
  <2> QED
    BY <2>2, <2>4 DEF Vault!vaultVars
<1>5. ASSUME NEW p \in Processes, WriteKey(p) PROVE Vault!VaultNext
  <2> DEFINE wallet == [key |-> job[p].key, password |-> job[p].password]
             g == job[p].file
  <2>1. job[p] \in Job /\ g \in Files /\ disk[g] = Empty /\ wallet \in Wallet
    BY <1>1, <1>5, JobType, IdleStep DEF WriteKey, JobFile, Job, Wallet
  <2>2. /\ disk' = [disk EXCEPT ![g] = wallet]
        /\ reported' = reported \cup {[file |-> g, wallet |-> wallet]}
        /\ open' = [open EXCEPT ![p] = wallet.key]
    BY <1>5 DEF WriteKey
  <2> HIDE DEF wallet, g
  <2>3. ~IsWallet(disk[g]) /\ IsWallet(wallet) /\ wallet # Absent
    BY <2>1, WalletConstants DEF IsWallet
  <2>4. Stored[g] = Absent /\ Stored' = [Stored EXCEPT ![g] = wallet] /\ Stored'[g] = wallet
    BY <1>1, <2>1, <2>2, <2>3, StoredChanges
  <2>5. Vault!PutIn(p, g)
    BY <2>2, <2>3, <2>4 DEF Vault!PutIn
  <2> QED
    BY <2>1, <2>5 DEF Vault!VaultNext
<1>6. ASSUME NEW p \in Processes, NEW f \in Files, NEW password \in Passwords \cup {Blank},
             Open(p, f, password)
      PROVE  Vault!VaultNext
  <2>1. Stored[f] = disk[f] /\ disk[f] # Absent
    BY <1>6 DEF Open, Stored, IsWallet
  <2>2. Vault!Unlock(p, f)
    BY <1>6, <2>1, StoredStays DEF Open, Vault!Unlock
  <2> QED
    BY <2>2 DEF Vault!VaultNext
<1>7. ASSUME NEW p \in Processes, Close(p) \/ Kill(p) PROVE Vault!VaultNext
  <2>1. Vault!Lock(p)
    BY <1>7, StoredStays DEF Close, Kill, Vault!Lock
  <2> QED
    BY <2>1 DEF Vault!VaultNext
<1>8. ASSUME NEW p \in Processes, NEW f \in Files, NEW password \in Passwords \cup {Blank},
             Create(p, f, password) \/ \E key \in 0 .. MaxKeys - 1 : Import(p, f, key, password)
      PROVE  UNCHANGED Vault!vaultVars
  BY <1>2, <1>8 DEF Create, Import
<1>9. ASSUME NEW p \in Processes, CreationFails(p) PROVE UNCHANGED Vault!vaultVars
  BY <1>2, <1>9 DEF CreationFails
<1> QED
  BY <1>3, <1>4, <1>5, <1>6, <1>7, <1>8, <1>9 DEF WalletNext

\* create and import put a wallet in place, open and announce it as if in one step,
\* and it stays as it was put there, for every set of files and passwords: with one
\* process they implement the vault (commands.go:415-454, 472-517, 756-800).
THEOREM WalletsImplementVault == SingleProcess => (WalletSpec => ImplementsVault)
<1> SUFFICES ASSUME SingleProcess PROVE WalletSpec => ImplementsVault
  OBVIOUS
<1>1. WalletInit => WalletInv /\ Vault!VaultInit
  <2>1. ASSUME WalletInit PROVE Stored = [f \in Files |-> Absent]
    BY <2>1 DEF WalletInit, Stored, IsWallet
  <2> QED
    BY <2>1, WalletInvInit DEF WalletInit, Vault!VaultInit
<1>2. WalletInv /\ [WalletNext]_walletVars => WalletInv'
  BY WalletInvStep
<1>3. WalletInv /\ [WalletNext]_walletVars => [Vault!VaultNext]_(Vault!vaultVars)
  BY VaultStep
<1> QED
  BY <1>1, <1>2, <1>3, PTL DEF WalletSpec, ImplementsVault, Vault!VaultSpec

\* What errors.go:32 says of ErrWalletExists, with one process: a file that holds a
\* wallet is never written again.  With two processes the run WalletReplaced
\* refutes it.
THEOREM WalletsNotReplaced == SingleProcess => (WalletSpec => NotReplaced)
<1> SUFFICES ASSUME SingleProcess PROVE WalletSpec => NotReplaced
  OBVIOUS
<1>1. WalletInit => WalletInv
  BY WalletInvInit
<1>2. WalletInv /\ [WalletNext]_walletVars => WalletInv'
  BY WalletInvStep
<1>3. WalletInv /\ [WalletNext]_walletVars => [\A f \in Files : IsWallet(disk[f]) => disk'[f] = disk[f]]_walletVars
  <2> SUFFICES ASSUME WalletInv, WalletNext, NEW f \in Files, IsWallet(disk[f])
               PROVE  disk'[f] = disk[f]
    OBVIOUS
  <2>1. ASSUME NEW p \in Processes, NEW content, job[p] # Idle, ~IsWallet(disk[job[p].file]),
               disk' = [disk EXCEPT ![job[p].file] = content]
        PROVE  disk'[f] = disk[f]
    BY <2>1 DEF WalletInv, WalletTypeOK
  <2>2. ASSUME NEW p \in Processes, CreateFile(p) \/ WriteKey(p) PROVE disk'[f] = disk[f]
    <3>1. job[p] # Idle /\ ~IsWallet(disk[job[p].file])
      BY <2>2, IdleStep DEF CreateFile, WriteKey, WalletInv, JobFile, IsWallet
    <3> QED
      BY <2>1, <2>2, <3>1 DEF CreateFile, WriteKey
  <2> QED
    BY <2>2 DEF WalletNext, Create, Import, Begin, Open, CreationFails, Close, Kill
<1> QED
  BY <1>1, <1>2, <1>3, PTL DEF WalletSpec, NotReplaced

-------------------------------------------------------------------------------
\* For any number of processes: what is written has a password.
PasswordGiven == \A p \in Processes : job[p].step = "write" => job[p].password \in Passwords

LEMMA PasswordGivenStep ==
  ASSUME WalletTypeOK, PasswordGiven, [WalletNext]_walletVars
  PROVE  (WalletTypeOK /\ PasswordGiven)'
<1>1. CASE UNCHANGED walletVars
  BY <1>1 DEF walletVars, WalletTypeOK, PasswordGiven
<1>2. ASSUME NEW p \in Processes, NEW f \in Files, NEW key \in Nat,
             NEW password \in Passwords \cup {Blank}, Begin(p, f, key, password),
             generated' \in Nat, UNCHANGED <<disk, open, reported>>
      PROVE  (WalletTypeOK /\ PasswordGiven)'
  <2> DEFINE j == [step |-> "create", file |-> f, key |-> key, password |-> password]
  <2>1. j \in Job /\ j.step = "create"
    BY DEF Job
  <2>2. job' = [job EXCEPT ![p] = j]
    BY <1>2 DEF Begin
  <2> HIDE DEF j
  <2> QED
    BY <1>2, <2>1, <2>2 DEF WalletTypeOK, PasswordGiven
<1>3. ASSUME NEW p \in Processes, CreateFile(p) PROVE (WalletTypeOK /\ PasswordGiven)'
  <2>1. job[p] \in Job
    BY <1>3, JobType, IdleStep DEF CreateFile
  <2> DEFINE next == IF job[p].password = Blank THEN Idle ELSE [job[p] EXCEPT !.step = "write"]
  <2>2. next \in Job \cup {Idle} /\ (next.step = "write" => next.password \in Passwords)
    BY <2>1, IdleStep DEF Job
  <2>3. job' = [job EXCEPT ![p] = next] /\ disk' = [disk EXCEPT ![job[p].file] = Empty]
        /\ UNCHANGED <<generated, open, reported>>
    BY <1>3 DEF CreateFile, Finish
  <2> HIDE DEF next
  <2> QED
    BY <2>2, <2>3 DEF WalletTypeOK, PasswordGiven
<1>4. ASSUME NEW p \in Processes, WriteKey(p) PROVE (WalletTypeOK /\ PasswordGiven)'
  <2> DEFINE wallet == [key |-> job[p].key, password |-> job[p].password]
             g == job[p].file
  <2>1. g \in Files /\ wallet \in Wallet /\ job[p].key \in Nat
    BY <1>4, JobType, IdleStep DEF WriteKey, PasswordGiven, Job, Wallet
  <2>2. /\ disk' = [disk EXCEPT ![g] = wallet]
        /\ reported' = reported \cup {[file |-> g, wallet |-> wallet]}
        /\ open' = [open EXCEPT ![p] = job[p].key]
        /\ job' = [job EXCEPT ![p] = Idle] /\ UNCHANGED generated
    BY <1>4 DEF WriteKey, Finish
  <2> HIDE DEF wallet, g
  <2> QED
    BY <2>1, <2>2, IdleStep DEF WalletTypeOK, PasswordGiven
<1>5. ASSUME NEW p \in Processes, CreationFails(p) \/ Kill(p) PROVE (WalletTypeOK /\ PasswordGiven)'
  <2>1. job' = [job EXCEPT ![p] = Idle] /\ UNCHANGED <<disk, generated, reported>>
        /\ (open' = open \/ open' = [open EXCEPT ![p] = NoKey])
    BY <1>5 DEF CreationFails, Kill, Finish
  <2> QED
    BY <2>1, IdleStep DEF WalletTypeOK, PasswordGiven
<1>6. ASSUME NEW p \in Processes, NEW f \in Files, NEW password \in Passwords \cup {Blank},
             Open(p, f, password)
      PROVE  (WalletTypeOK /\ PasswordGiven)'
  <2>1. disk[f].key \in Nat
    BY <1>6 DEF Open, IsWallet, WalletTypeOK, Wallet
  <2> QED
    BY <1>6, <2>1 DEF Open, WalletTypeOK, PasswordGiven
<1>7. ASSUME NEW p \in Processes, Close(p) PROVE (WalletTypeOK /\ PasswordGiven)'
  BY <1>7 DEF Close, WalletTypeOK, PasswordGiven
<1>8. ASSUME NEW p \in Processes, NEW f \in Files, NEW password \in Passwords \cup {Blank},
             Create(p, f, password) \/ \E key \in 0 .. MaxKeys - 1 : Import(p, f, key, password)
      PROVE  (WalletTypeOK /\ PasswordGiven)'
  <2>1. generated \in Nat /\ generated + 1 \in Nat /\ 0 .. MaxKeys - 1 \subseteq Nat
    BY WalletConstants DEF WalletTypeOK
  <2> QED
    BY <1>2, <1>8, <2>1 DEF Create, Import
<1> QED
  BY <1>1, <1>3, <1>4, <1>5, <1>6, <1>7, <1>8 DEF WalletNext

\* Whatever the processes do to each other's files, a file is missing, empty or a
\* wallet under a password, and every process keeps track of its own job.
THEOREM WalletTypesHold == WalletSpec => []WalletTypeOK
<1>1. WalletInit => WalletTypeOK /\ PasswordGiven
  BY DEF WalletInit, WalletTypeOK, PasswordGiven, Idle
<1>2. WalletTypeOK /\ PasswordGiven /\ [WalletNext]_walletVars => (WalletTypeOK /\ PasswordGiven)'
  BY PasswordGivenStep
<1> QED
  BY <1>1, <1>2, PTL DEF WalletSpec
===============================================================================
