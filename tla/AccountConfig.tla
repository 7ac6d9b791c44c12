--------------------------- MODULE AccountConfig ---------------------------
(* The identity of an account of the client library and the file that keeps  *)
(* it: ptp_net/Config.cpp (a configuration file that is replaced by way of a *)
(* backup file) and its two users in ptp_net/AccountManager.cpp,             *)
(* upsertEntropy and setWords.  One action per system call that changes the  *)
(* disk; the process may die, or the power fail, between any two of them,    *)
(* and calls may fail.                                                       *)
EXTENDS Naturals, FiniteSets

CONSTANTS Entropies,   \* identities; the words of a wallet
          Absent,      \* no such file, or nothing in memory
          Torn,        \* a file readConfig rejects: its size and its header disagree
          MaxFaults,   \* calls to the file system that fail
          MaxCrashes

ASSUME Distinct == Absent # Torn /\ {Absent, Torn} \cap Entropies = {}
ASSUME Bounds == MaxFaults \in Nat /\ MaxCrashes \in Nat

VARIABLES
  disk,       \* config and backup file, and the addresses that have a .dat file
  journal,    \* the states of the disk since the last fsync
  pc,         \* where the process is
  value,      \* local variables of writeConfig and its caller:
  hasBackupFile,
  error,
  setting,    \* the caller is setWords (TRUE) or upsertEntropy
  m_entropy,
  m_address,  \* the entropy it was computed from stands for an address
  faults, crashes,
  \* History: a failed open made a file that exists look absent; setWords ran
  \* when m_address was already known; a .dat file was not written, or lost;
  \* a call ended with an identity stored, beyond the reach of a power failure.
  blind, renamed, unmarked, kept

fileVars == <<disk, journal>>
localVars == <<value, hasBackupFile, error, setting>>
accountVars == <<m_entropy, m_address>>
historyVars == <<blind, renamed, unmarked, kept>>
vars == <<fileVars, pc, localVars, accountVars, faults, crashes, historyVars>>

\* What a start of the process makes of the files, if no call fails.
Recovered(d) == IF d.backup # Absent THEN d.backup ELSE d.config
Stored(d) == IF Recovered(d) = Torn THEN Absent ELSE Recovered(d)

Files == Entropies \cup {Absent, Torn}
Disks == [config : Files, backup : Files, dat : SUBSET Entropies]

TypeOK ==
  /\ disk \in journal /\ journal \in SUBSET Disks
  /\ pc \in {"idle", "ctor", "restore", "read", "keep", "open", "write",
             "sync", "finish", "mark", "down"}
  /\ value \in Entropies \cup {Absent}
  /\ hasBackupFile \in BOOLEAN /\ error \in BOOLEAN /\ setting \in BOOLEAN
  /\ m_entropy \in Entropies \cup {Absent}
  /\ m_address \in Entropies \cup {Absent}
  /\ faults \in 0..MaxFaults /\ crashes \in 0..MaxCrashes
  /\ blind \in BOOLEAN /\ renamed \in BOOLEAN
  /\ unmarked \in BOOLEAN /\ kept \in BOOLEAN

Init ==
  /\ disk = [config |-> Absent, backup |-> Absent, dat |-> {}]
  /\ journal = {disk}
  /\ pc = "idle"
  /\ value = Absent /\ hasBackupFile = FALSE /\ error = FALSE /\ setting = FALSE
  /\ m_entropy = Absent /\ m_address = Absent
  /\ faults = 0 /\ crashes = 0
  /\ blind = FALSE /\ renamed = FALSE /\ unmarked = FALSE /\ kept = FALSE

-----------------------------------------------------------------------------
(* The file system.  Directory operations reach the disk in order, in the    *)
(* end; fsync takes those before it along.                                   *)

\* The edits of the disk that are made: to the configuration file, the removal of
\* the backup, the rename of the one to the other, and a new .dat file.
WithConfig(f) == [disk EXCEPT !.config = f]
WithoutBackup == [disk EXCEPT !.backup = Absent]
MovedAside == [disk EXCEPT !.config = Absent, !.backup = disk.config]
WithDat(e) == [disk EXCEPT !.dat = @ \cup {e}]

Disk(d) == disk' = d /\ journal' = journal \cup {d}
Same == UNCHANGED fileVars

Works == UNCHANGED <<faults, blind>>
Fails == faults < MaxFaults /\ faults' = faults + 1 /\ UNCHANGED blind

\* What the calls on the files leave alone.
Aside == UNCHANGED <<accountVars, crashes, renamed, unmarked, kept>>

\* fopen(path, "rb"): whether it finds the file.
Opens(file, found) ==
  \/ found = (file # Absent) /\ Works
  \/ /\ file # Absent /\ ~found
     /\ faults < MaxFaults /\ faults' = faults + 1 /\ blind' = TRUE

-----------------------------------------------------------------------------
(* The account: upsertEntropy when nothing is in memory, and setWords.       *)

UpsertEntropy ==
  /\ pc = "idle" /\ m_entropy = Absent
  /\ pc' = "ctor" /\ setting' = FALSE
  /\ UNCHANGED <<fileVars, value, hasBackupFile, error, accountVars, faults,
                 crashes, historyVars>>

SetWords(v) ==
  /\ pc = "idle"
  /\ pc' = "ctor" /\ setting' = TRUE /\ value' = v
  /\ UNCHANGED <<fileVars, hasBackupFile, error, accountVars, faults, crashes,
                 historyVars>>

\* Config::Config looks for a backup and removes the configuration file ...
AfterCtor == IF setting THEN "keep" ELSE "read"

\* Mutant: restores the backup only if the configuration file is gone.
FindBackupIfMissing ==
  /\ pc = "ctor"
  /\ \E found \in BOOLEAN :
       /\ Opens(disk.backup, found)
       /\ IF found /\ disk.config = Absent THEN pc' = "restore" ELSE pc' = AfterCtor
  /\ Same
  /\ UNCHANGED localVars /\ Aside

FindBackup ==
  /\ pc = "ctor"
  /\ \E found \in BOOLEAN :
       /\ Opens(disk.backup, found)
       /\ \/ ~found /\ Same /\ pc' = AfterCtor
          \/ found /\ Disk(WithConfig(Absent)) /\ pc' = "restore"
  /\ UNCHANGED localVars /\ Aside

\* (the result of remove is not looked at; rename replaces what is left)
FindBackupKeepsConfig ==
  /\ pc = "ctor" /\ disk.backup # Absent
  /\ Fails /\ Same
  /\ pc' = "restore"
  /\ UNCHANGED localVars /\ Aside

\* Mutant: the backup is removed, not renamed.
RemovedBackup == [disk EXCEPT !.backup = Absent]

\* ... before it puts the backup in its place.
RenamedBack == [disk EXCEPT !.config = disk.backup, !.backup = Absent]

Restore ==
  /\ pc = "restore"
  /\ \/ Works /\ Disk(RenamedBack)
     \/ Fails /\ Same
  /\ pc' = AfterCtor
  /\ UNCHANGED localVars /\ Aside

\* getAccountAddress computes the address once and keeps it.
Address(e) == IF m_address # Absent THEN m_address ELSE e

\* readConfig; without a readable file upsertEntropy generates an identity.
ReadConfig ==
  /\ pc = "read"
  /\ \E found \in BOOLEAN :
       /\ Opens(disk.config, found)
       /\ \/ /\ found /\ disk.config # Torn
             /\ m_entropy' = disk.config /\ m_address' = Address(disk.config)
             /\ pc' = "idle"
             /\ UNCHANGED value
          \/ /\ ~found \/ disk.config = Torn
             /\ value' \in Entropies \ {disk.config, disk.backup}
             /\ pc' = "keep"
             /\ UNCHANGED accountVars
  /\ Same
  /\ UNCHANGED <<hasBackupFile, error, setting, crashes, renamed, unmarked, kept>>

-----------------------------------------------------------------------------
(* writeConfig.  Both callers go on as if it had succeeded.                  *)

\* Mutant: the old file is removed before the new one is written.
KeepNothing ==
  /\ pc = "keep"
  /\ error' = FALSE /\ hasBackupFile' = FALSE
  /\ Works /\ Disk(WithConfig(Absent))
  /\ pc' = "open"
  /\ UNCHANGED <<value, setting>> /\ Aside

Keep ==
  /\ pc = "keep"
  /\ error' = FALSE
  /\ \E file, backup \in BOOLEAN :
       /\ \/ Opens(disk.config, file) /\ backup = (disk.backup # Absent)
          \/ Opens(disk.backup, backup) /\ file = (disk.config # Absent)
       /\ \/ /\ ~file /\ Same
             /\ hasBackupFile' = FALSE /\ pc' = "open"
          \/ /\ file /\ ~backup
             /\ Disk(MovedAside)
             /\ hasBackupFile' = TRUE /\ pc' = "open"
          \/ /\ file /\ backup
             /\ Disk(WithConfig(Absent))
             /\ hasBackupFile' = FALSE /\ pc' = "open"
  /\ UNCHANGED <<value, setting>> /\ Aside

\* rename fails, and writeConfig returns; or remove fails, unnoticed.
KeepFails ==
  /\ pc = "keep" /\ disk.config # Absent
  /\ Fails /\ Same
  /\ error' = FALSE /\ hasBackupFile' = FALSE
  /\ pc' = IF disk.backup = Absent THEN "mark" ELSE "open"
  /\ UNCHANGED <<value, setting>> /\ Aside

Open ==
  /\ pc = "open"
  /\ \/ Works /\ Disk(WithConfig(Torn)) /\ pc' = "write"
     \/ Fails /\ Same /\ pc' = "mark"
  /\ UNCHANGED localVars /\ Aside

Write ==
  /\ pc = "write"
  /\ \/ Works /\ Disk(WithConfig(value)) /\ UNCHANGED error
     \/ Fails /\ Same /\ error' = TRUE
  /\ pc' = "sync"
  /\ UNCHANGED <<value, hasBackupFile, setting>> /\ Aside

Fsync ==
  /\ pc = "sync"
  /\ UNCHANGED disk
  /\ \/ Works /\ journal' = {disk} /\ UNCHANGED error
     \/ Fails /\ journal' \in {journal, {disk}} /\ error' = TRUE
  /\ pc' = "finish"
  /\ UNCHANGED <<value, hasBackupFile, setting>> /\ Aside

\* Mutant: the backup stays behind.
FinishKeepsBackup ==
  /\ pc = "finish"
  /\ \/ error /\ Works /\ Disk(WithConfig(Absent))
     \/ ~error /\ Works /\ Same
  /\ pc' = "mark"
  /\ UNCHANGED localVars /\ Aside

\* A failed write is removed; a good one makes its own backup superfluous.
Finish ==
  /\ pc = "finish"
  /\ \/ error /\ Works /\ Disk(WithConfig(Absent))
     \/ ~error /\ hasBackupFile /\ Works /\ Disk(WithoutBackup)
     \/ ~error /\ ~hasBackupFile /\ Works /\ Same
     \/ (error \/ hasBackupFile) /\ Fails /\ Same
  /\ pc' = "mark"
  /\ UNCHANGED localVars /\ Aside

\* Mutant: no .dat file.
MarkNoFile ==
  /\ pc = "mark"
  /\ m_entropy' = value /\ m_address' = Address(value)
  /\ Works /\ Same
  /\ pc' = "idle"
  /\ UNCHANGED <<localVars, crashes, renamed, unmarked, kept>>

\* The caller takes the new identity and leaves a file named after its address.
Mark ==
  /\ pc = "mark"
  /\ m_entropy' = value /\ m_address' = Address(value)
  /\ \/ /\ Works /\ Disk(WithDat(m_address'))
        /\ unmarked' = (unmarked \/ m_address # Absent)
     \/ Fails /\ Same /\ unmarked' = TRUE
  /\ renamed' = (renamed \/ m_address # Absent)
  /\ pc' = "idle"
  /\ kept' = (kept \/ \A d \in journal' : Stored(d) # Absent)
  /\ UNCHANGED <<localVars, crashes>>

-----------------------------------------------------------------------------
(* The process dies and is started again.                                    *)

Die ==
  /\ pc # "down" /\ crashes < MaxCrashes
  /\ pc' = "down" /\ crashes' = crashes + 1
  /\ m_entropy' = Absent /\ m_address' = Absent
  /\ renamed' = FALSE
  /\ UNCHANGED <<localVars, faults, blind, kept>>

ProcessCrash == Die /\ Same /\ unmarked' = (unmarked \/ pc # "idle")

PowerFailure ==
  /\ Die
  /\ disk' \in journal /\ journal' = {disk'}
  /\ unmarked' = TRUE

Restart ==
  /\ pc = "down"
  /\ pc' = "idle"
  /\ UNCHANGED <<fileVars, localVars, accountVars, faults, crashes, historyVars>>

Next ==
  \/ UpsertEntropy
  \/ \E v \in Entropies : SetWords(v)
  \/ FindBackup \/ FindBackupKeepsConfig \/ Restore \/ ReadConfig
  \/ Keep \/ KeepFails \/ Open \/ Write \/ Fsync \/ Finish \/ Mark
  \/ ProcessCrash \/ PowerFailure \/ Restart

Spec == Init /\ [][Next]_vars

-----------------------------------------------------------------------------
\* What a start may find after a power failure, and the write under way.
Possible == {Stored(d) : d \in journal}
BeingWritten == IF pc \in {"keep", "open", "write", "sync", "finish", "mark"}
                THEN value ELSE Absent

Cell == INSTANCE DurableCell WITH
  Values <- Entropies, None <- Absent, cell <- Stored(disk), possible <- Possible,
  writing <- BeingWritten, up <- pc # "down"

(* Config.cpp keeps its promise while its system calls succeed: whatever the *)
(* moment the process dies, the next start finds the old identity or the new *)
(* one, whole; a call of writeConfig that returns has replaced it, and the   *)
(* power can take back the last replacement only.                            *)
ImplementsCell == Cell!Init /\ [][faults' = 0 => Cell!Next]_Cell!vars

(* Calls that fail may keep writeConfig from storing the new identity, or    *)
(* bring an older one back, but never lose them all: once a call has ended   *)
(* with an identity stored, every disk that a crash may leave holds one,     *)
(* unless fopen failed on a file that is there (blind).                      *)
NeverLost == (kept /\ ~blind) => \A d \in journal : Stored(d) # Absent

(* upsertEntropy, which generates an identity where it reads none, never     *)
(* replaces one that is stored; in memory is what a restart would read.      *)
IdentityKept ==
  [][(~setting /\ faults' = 0 /\ crashes' = crashes /\ Stored(disk) # Absent)
       => Stored(disk') = Stored(disk)]_vars

MemoryIsStored ==
  (pc = "idle" /\ m_entropy # Absent /\ faults = 0) => Stored(disk) = m_entropy

(* isAddressExists answers for the identity in use: its address is the one   *)
(* the account reports and has its .dat file, unless setWords ran when an    *)
(* address was known already (it stays), or the file was not reached.        *)
AddressKnown ==
  (pc = "idle" /\ m_entropy # Absent /\ ~renamed)
    => /\ m_address = m_entropy
       /\ unmarked \/ m_entropy \in disk.dat
=============================================================================
