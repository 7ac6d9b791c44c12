------------------------ MODULE AccountConfigProofs ------------------------
(***************************************************************************)
(* Proofs about AccountConfig for any set of identities and any number of  *)
(* crashes, power failures and failing calls: an identity is never lost,   *)
(* and while no call fails Config.cpp implements DurableCell.              *)
(***************************************************************************)
EXTENDS AccountConfig, TLAPS

\* The steps of writeConfig, up to the return into its caller.
Writing == {"keep", "open", "write", "sync", "finish", "mark"}

\* There is an identity to write whenever one will be written.
ValueKnown ==
    pc \in Writing \/ (pc \in {"ctor", "restore"} /\ setting) => value \in Entropies

\* Types, and the presence of the value.
LEMMA TypeInit == Init => TypeOK /\ ValueKnown
<1>. SUFFICES ASSUME Init PROVE TypeOK /\ ValueKnown
  BY Zenon
<1>1. 0 \in 0 .. MaxFaults /\ 0 \in 0 .. MaxCrashes
  BY Bounds
<1>2. disk \in journal /\ journal \in SUBSET Disks
  BY DEF Init, Disks, Files
<1>3. ValueKnown
  BY Zenon DEF Init, ValueKnown, Writing
<1>. QED
  BY <1>1, <1>2, <1>3, Zenon DEF Init, TypeOK

\* The edits of the disk stay within its type.
LEMMA DiskEdits ==
    ASSUME disk \in Disks
    PROVE  /\ disk.config \in Files /\ disk.backup \in Files
           /\ Absent \in Files /\ Torn \in Files /\ Entropies \subseteq Files
           /\ \A f \in Files : WithConfig(f) \in Disks
           /\ WithoutBackup \in Disks /\ MovedAside \in Disks /\ RenamedBack \in Disks
           /\ \A e \in Entropies : WithDat(e) \in Disks
  BY Zenon DEF Disks, Files, WithConfig, WithoutBackup, MovedAside, RenamedBack, WithDat

\* A failing call is counted.
LEMMA FaultTypes ==
    ASSUME TypeOK, NEW f, NEW b \in BOOLEAN, Works \/ Fails \/ Opens(f, b)
    PROVE  faults' \in 0 .. MaxFaults /\ blind' \in BOOLEAN
<1>1. faults' = faults \/ (faults < MaxFaults /\ faults' = faults + 1)
  BY Zenon DEF Works, Fails, Opens
<1>2. faults' \in 0 .. MaxFaults
  BY <1>1, Bounds DEF TypeOK
<1>3. blind' = blind \/ blind' = TRUE
  BY Zenon DEF Works, Fails, Opens
<1>. QED
  BY <1>2, <1>3, Zenon DEF TypeOK

\* Every step keeps the types.
LEMMA TypeStep == TypeOK /\ ValueKnown /\ [Next]_vars => (TypeOK /\ ValueKnown)'
<1>. SUFFICES ASSUME TypeOK, ValueKnown, [Next]_vars
              PROVE  TypeOK' /\ ValueKnown'
  BY Zenon
<1>. USE DEF TypeOK, ValueKnown, Writing
<1>0. /\ Absent \in Files /\ Torn \in Files /\ Entropies \subseteq Files
      /\ disk \in Disks /\ disk.config \in Files /\ disk.backup \in Files
  BY DiskEdits, Zenon DEF Files, Disks
<1>1. CASE UpsertEntropy
  BY <1>1, Zenon DEF UpsertEntropy, fileVars, accountVars, historyVars
<1>2. ASSUME NEW v \in Entropies, SetWords(v) PROVE TypeOK' /\ ValueKnown'
  BY <1>2 DEF SetWords, fileVars, accountVars, historyVars
<1>3. CASE FindBackup
  <2>1. disk' \in journal' /\ journal' \in SUBSET Disks
    BY <1>0, <1>3, DiskEdits, Zenon DEF FindBackup, Disk, Same, fileVars
  <2>2. faults' \in 0 .. MaxFaults /\ blind' \in BOOLEAN
    BY <1>3, FaultTypes, Zenon DEF FindBackup
  <2>3. pc' \in {"keep", "read", "restore"} /\ (pc' = "keep" => setting)
    BY <1>3, Zenon DEF FindBackup, AfterCtor
  <2>. QED
    BY <1>3, <2>1, <2>2, <2>3 DEF FindBackup, Aside, accountVars, localVars
<1>4. CASE FindBackupKeepsConfig
  BY <1>4, FaultTypes
     DEF FindBackupKeepsConfig, Same, Aside, fileVars, accountVars, localVars
<1>5. CASE Restore
  <2>1. disk' \in journal' /\ journal' \in SUBSET Disks
    BY <1>0, <1>5, DiskEdits, Zenon DEF Restore, Disk, Same, fileVars
  <2>2. faults' \in 0 .. MaxFaults /\ blind' \in BOOLEAN
    BY <1>5, FaultTypes, Zenon DEF Restore
  <2>3. pc' \in {"keep", "read"} /\ (pc' = "keep" => setting)
    BY <1>5, Zenon DEF Restore, AfterCtor
  <2>. QED
    BY <1>5, <2>1, <2>2, <2>3 DEF Restore, Aside, accountVars, localVars
<1>6. CASE ReadConfig
  <2>1. disk.config # Absent /\ disk.config # Torn => disk.config \in Entropies
    BY <1>0, Zenon DEF Files
  <2>. QED
    BY <1>6, <2>1, FaultTypes, ZenonT(40)
       DEF ReadConfig, Opens, Address, Same, fileVars, accountVars
<1>7. CASE Keep
  <2>1. disk' \in journal' /\ journal' \in SUBSET Disks
    BY <1>0, <1>7, DiskEdits, Zenon DEF Keep, Disk, Same, fileVars
  <2>2. faults' \in 0 .. MaxFaults /\ blind' \in BOOLEAN
    BY <1>7, FaultTypes, Zenon DEF Keep
  <2>3. hasBackupFile' \in BOOLEAN /\ error' = FALSE /\ pc' = "open"
    BY <1>7, Zenon DEF Keep
  <2>. QED
    BY <1>7, <2>1, <2>2, <2>3, Zenon DEF Keep, Aside, accountVars
<1>8. CASE KeepFails
  BY <1>8, FaultTypes, Zenon DEF KeepFails, Same, Aside, fileVars, accountVars
<1>9. CASE Open
  BY <1>0, <1>9, DiskEdits, FaultTypes
     DEF Open, Disk, Same, Aside, fileVars, accountVars, localVars
<1>10. CASE Write
  BY <1>0, <1>10, DiskEdits, FaultTypes, ZenonT(40)
     DEF Write, Disk, Same, Aside, fileVars, accountVars
<1>11. CASE Fsync
  <2>1. disk' = disk /\ journal' \in {journal, {disk}}
    BY <1>11, Zenon DEF Fsync
  <2>2. disk' \in journal' /\ journal' \in SUBSET Disks
    BY <1>0, <2>1, Zenon
  <2>3. error' \in BOOLEAN /\ (Works \/ Fails) /\ pc' = "finish"
    BY <1>11, Zenon DEF Fsync
  <2>4. faults' \in 0 .. MaxFaults /\ blind' \in BOOLEAN
    BY <2>3, FaultTypes, Zenon
  <2>5. UNCHANGED <<value, hasBackupFile, setting>> /\ UNCHANGED accountVars /\ UNCHANGED crashes
    BY <1>11, Zenon DEF Fsync, Aside
  <2>. QED
    BY <1>11, <2>1, <2>2, <2>3, <2>4, <2>5, Zenon DEF Fsync, Aside, accountVars
<1>12. CASE Finish
  BY <1>0, <1>12, DiskEdits, FaultTypes
     DEF Finish, Disk, Same, Aside, fileVars, accountVars, localVars
<1>13. CASE Mark
  <2>1. Address(value) \in Entropies
    BY <1>13, Zenon DEF Mark, Address
  <2>2. kept' \in BOOLEAN /\ unmarked' \in BOOLEAN /\ renamed' \in BOOLEAN
    BY <1>13, Zenon DEF Mark
  <2>. QED
    BY <1>0, <1>13, <2>1, <2>2, DiskEdits, FaultTypes, Zenon
       DEF Mark, Disk, Same, fileVars, localVars
<1>14. CASE ProcessCrash
  <2>1. crashes' \in 0 .. MaxCrashes
    BY <1>14, Bounds DEF ProcessCrash, Die
  <2>. QED
    BY <1>14, <2>1, Zenon DEF ProcessCrash, Die, Same, fileVars, localVars
<1>15. CASE PowerFailure
  <2>1. crashes' \in 0 .. MaxCrashes
    BY <1>15, Bounds DEF PowerFailure, Die
  <2>. QED
    BY <1>15, <2>1, Zenon DEF PowerFailure, Die, localVars
<1>16. CASE Restart
  BY <1>16 DEF Restart, fileVars, localVars, accountVars, historyVars
<1>17. CASE UNCHANGED vars
  BY <1>17 DEF vars, fileVars, localVars, accountVars, historyVars
<1>. QED
  BY <1>1, <1>2, <1>3, <1>4, <1>5, <1>6, <1>7, <1>8, <1>9, <1>10, <1>11, <1>12,
     <1>13, <1>14, <1>15, <1>16, <1>17, Zenon DEF Next

-----------------------------------------------------------------------------
(* Never lost.                                                             *)

\* Every disk that a crash may leave behind holds an identity.
AllStored == \A d \in journal : Stored(d) # Absent

\* While writeConfig is between the two renames, the backup is what keeps the
\* identity; once error is FALSE behind the fsync, so does the file itself.
SafeInv ==
    kept /\ ~blind =>
        /\ AllStored
        /\ pc \in {"restore", "open", "write", "sync", "finish"} => disk.backup # Absent
        /\ pc \in {"sync", "finish"} /\ ~error => disk.config = value

\* A file that is there is found, or fopen has failed on it (blind).
LEMMA Found ==
    ASSUME NEW f, NEW b \in BOOLEAN, Opens(f, b), ~blind'
    PROVE  b = (f # Absent) /\ ~blind
  BY DEF Opens, Works

\* What Stored says of each edit of the disk.
LEMMA StoredEdits ==
    ASSUME disk \in Disks
    PROVE  /\ \A f \in Files : /\ WithConfig(f).config = f
                               /\ WithConfig(f).backup = disk.backup
           /\ disk.backup # Absent =>
                \A f \in Files : Stored(WithConfig(f)) = Stored(disk)
           /\ disk.backup = Absent => /\ Stored(WithConfig(Absent)) = Absent
                                      /\ Stored(WithConfig(Torn)) = Absent
                                      /\ \A e \in Entropies : Stored(WithConfig(e)) = e
           /\ disk.config \in Entropies => Stored(WithoutBackup) = disk.config
           /\ WithoutBackup.backup = Absent /\ WithoutBackup.config = disk.config
           /\ MovedAside.backup = disk.config /\ MovedAside.config = Absent
           /\ disk.backup = Absent => Stored(MovedAside) = Stored(disk)
           /\ RenamedBack.backup = Absent /\ RenamedBack.config = disk.backup
           /\ disk.backup # Absent => Stored(RenamedBack) = Stored(disk)
           /\ \A e \in Entropies : /\ Stored(WithDat(e)) = Stored(disk)
                                   /\ WithDat(e).config = disk.config
                                   /\ WithDat(e).backup = disk.backup
                                   /\ WithDat(e).dat = disk.dat \cup {e}
           /\ Stored(disk) # Absent => disk.config # Absent \/ disk.backup # Absent
           /\ disk.backup = Absent /\ disk.config \in Entropies
                => Stored(disk) = disk.config
<1>. USE Distinct DEF Stored, Recovered
<1>1. \A f \in Files : WithConfig(f).config = f /\ WithConfig(f).backup = disk.backup
  BY Zenon DEF Disks, WithConfig
<1>2. WithoutBackup.backup = Absent /\ WithoutBackup.config = disk.config
  BY Zenon DEF Disks, WithoutBackup
<1>3. MovedAside.backup = disk.config /\ MovedAside.config = Absent
  BY Zenon DEF Disks, MovedAside
<1>4. RenamedBack.backup = Absent /\ RenamedBack.config = disk.backup
  BY Zenon DEF Disks, RenamedBack
<1>5. \A e \in Entropies : /\ WithDat(e).config = disk.config
                           /\ WithDat(e).backup = disk.backup
                           /\ WithDat(e).dat = disk.dat \cup {e}
  BY Zenon DEF Disks, WithDat
<1>6. Absent \in Files /\ Torn \in Files /\ Entropies \subseteq Files
  BY Zenon DEF Files
<1>7. disk.backup # Absent => \A f \in Files : Stored(WithConfig(f)) = Stored(disk)
  BY <1>1, Zenon
<1>8. disk.backup = Absent => /\ Stored(WithConfig(Absent)) = Absent
                              /\ Stored(WithConfig(Torn)) = Absent
                              /\ \A e \in Entropies : Stored(WithConfig(e)) = e
  BY <1>1, <1>6, Zenon
<1>9. \A e \in Entropies : Stored(WithDat(e)) = Stored(disk)
  BY <1>5, Zenon
<1>10. /\ disk.config \in Entropies => Stored(WithoutBackup) = disk.config
       /\ disk.backup = Absent => Stored(MovedAside) = Stored(disk)
       /\ disk.backup # Absent => Stored(RenamedBack) = Stored(disk)
       /\ Stored(disk) # Absent => disk.config # Absent \/ disk.backup # Absent
       /\ disk.backup = Absent /\ disk.config \in Entropies
            => Stored(disk) = disk.config
  BY <1>2, <1>3, <1>4, Zenon
<1>. QED
  BY <1>1, <1>2, <1>3, <1>4, <1>5, <1>7, <1>8, <1>9, <1>10, Zenon

\* Every step keeps what is stored, whichever calls fail.
LEMMA SafeStep ==
    ASSUME TypeOK, ValueKnown, SafeInv, [Next]_vars
    PROVE  SafeInv'
<1>. SUFFICES ASSUME kept', ~blind'
              PROVE  /\ AllStored'
                     /\ pc' \in {"restore", "open", "write", "sync", "finish"}
                            => disk'.backup # Absent
                     /\ pc' \in {"sync", "finish"} /\ ~error'
                            => disk'.config = value'
  BY Zenon DEF SafeInv
<1>0. /\ disk \in Disks /\ disk \in journal /\ Absent \in Files /\ Torn \in Files
      /\ disk.config \in Files /\ disk.backup \in Files /\ Entropies \subseteq Files
  BY DiskEdits, Zenon DEF TypeOK, Files
<1>1. CASE Mark
  <2>1. ~ blind /\ pc' = "idle" /\ (kept \/ AllStored')
    <3>1. ~ blind /\ pc' = "idle"
      BY <1>1 DEF Mark, Works, Fails
    <3>2. kept \/ AllStored'
      BY <1>1, Zenon DEF Mark, AllStored
    <3>. QED
      BY <3>1, <3>2, Zenon
  <2>2. AllStored => AllStored'
    <3>1. Address(value) \in Entropies
      BY <1>1, Zenon DEF Mark, Address, TypeOK, ValueKnown, Writing
    <3>. QED
      BY <1>0, <1>1, <3>1, StoredEdits DEF Mark, AllStored, Disk, Same, fileVars
  <2>. QED
    BY <2>1, <2>2, Zenon DEF SafeInv
<1>2. CASE ~ Mark
  <2>1. kept /\ ~ blind
    <3>1. CASE FindBackup \/ ReadConfig \/ Keep
      BY <3>1, Found, Zenon DEF FindBackup, ReadConfig, Keep, Aside
    <3>2. ASSUME ~ (FindBackup \/ ReadConfig \/ Keep)
          PROVE  kept' = kept /\ blind' = blind
      <4>1. CASE FindBackupKeepsConfig \/ Restore \/ KeepFails \/ Open
        BY <4>1, Zenon DEF FindBackupKeepsConfig, Restore, KeepFails, Open, Aside, Works, Fails
      <4>2. CASE Write \/ Fsync \/ Finish
        BY <4>2, Zenon DEF Write, Fsync, Finish, Aside, Works, Fails
      <4>3. CASE ProcessCrash \/ PowerFailure
        BY <4>3, Zenon DEF ProcessCrash, PowerFailure, Die
      <4>4. CASE \/ UpsertEntropy \/ Restart \/ UNCHANGED vars
                 \/ \E v \in Entropies : SetWords(v)
        BY <4>4, Zenon DEF UpsertEntropy, SetWords, Restart, vars, historyVars
      <4>. QED
        BY <1>2, <3>2, <4>1, <4>2, <4>3, <4>4, Zenon DEF Next
    <3>3. kept \in BOOLEAN /\ blind \in BOOLEAN
      BY Zenon DEF TypeOK
    <3>. QED
      BY <3>1, <3>2, <3>3, Zenon
  <2>2. /\ AllStored
        /\ pc \in {"restore", "open", "write", "sync", "finish"} => disk.backup # Absent
        /\ pc \in {"sync", "finish"} /\ ~error => disk.config = value
    BY <2>1, Zenon DEF SafeInv
  <2>3. Stored(disk) # Absent
    BY <1>0, <2>2, Zenon DEF AllStored
  <2>4. ASSUME NEW d, Disk(d), Stored(d) # Absent PROVE AllStored'
    BY <2>2, <2>4, Zenon DEF Disk, AllStored
  <2>5. Same => AllStored' /\ disk' = disk
    BY <2>2, Zenon DEF Same, fileVars, AllStored
  <2>6. CASE UpsertEntropy \/ \E v \in Entropies : SetWords(v)
    BY <2>2, <2>6, Zenon DEF UpsertEntropy, SetWords, fileVars, AllStored
  <2>7. CASE FindBackup
    BY <1>0, <2>3, <2>4, <2>5, <2>7, Found, StoredEdits
       DEF FindBackup, AfterCtor, Disk
  <2>8. CASE FindBackupKeepsConfig
    BY <2>5, <2>8, Zenon DEF FindBackupKeepsConfig
  <2>9. CASE Restore
    BY <1>0, <2>2, <2>3, <2>4, <2>5, <2>9, StoredEdits, Zenon
       DEF Restore, AfterCtor, Disk
  <2>10. CASE ReadConfig
    BY <2>5, <2>10, Zenon DEF ReadConfig
  <2>11. CASE Keep
    <3>1. PICK file \in BOOLEAN, backup \in BOOLEAN :
            /\ \/ Opens(disk.config, file) /\ backup = (disk.backup # Absent)
               \/ Opens(disk.backup, backup) /\ file = (disk.config # Absent)
            /\ \/ ~file /\ Same
               \/ /\ file /\ ~backup
                  /\ Disk(MovedAside)
               \/ file /\ backup /\ Disk(WithConfig(Absent))
      BY <2>11, Zenon DEF Keep
    <3>2. file = (disk.config # Absent) /\ backup = (disk.backup # Absent)
      BY <3>1, Found, Zenon
    <3>3. pc' = "open"
      BY <2>11, Zenon DEF Keep
    <3>4. CASE ~file /\ Same
      BY <1>0, <2>3, <2>5, <3>2, <3>3, <3>4, StoredEdits, Zenon
    <3>5. CASE file /\ ~backup /\ Disk(MovedAside)
      BY <1>0, <2>3, <2>4, <3>2, <3>3, <3>5, StoredEdits, Zenon DEF Disk
    <3>6. CASE file /\ backup /\ Disk(WithConfig(Absent))
      BY <1>0, <2>3, <2>4, <3>2, <3>3, <3>6, StoredEdits, Zenon DEF Disk
    <3>. QED
      BY <3>1, <3>4, <3>5, <3>6, Zenon
  <2>12. CASE KeepFails
    BY <2>5, <2>12 DEF KeepFails
  <2>13. CASE Open
    BY <1>0, <2>2, <2>3, <2>4, <2>5, <2>13, StoredEdits DEF Open, Disk
  <2>14. CASE Write
    <3>1. value \in Files
      BY <1>0, <2>14, Zenon DEF Write, ValueKnown, Writing
    <3>. QED
      BY <1>0, <2>2, <2>3, <2>4, <2>5, <2>14, <3>1, StoredEdits DEF Write, Disk
  <2>15. CASE Fsync
    <3>1. AllStored'
      BY <2>2, <2>3, <2>15, Zenon DEF Fsync, AllStored
    <3>. QED
      BY <2>2, <2>15, <3>1 DEF Fsync
  <2>16. CASE Finish
    <3>1. value \in Entropies
      BY <2>16, Zenon DEF Finish, ValueKnown, Writing
    <3>. QED
      BY <1>0, <2>2, <2>3, <2>4, <2>5, <2>16, <3>1, StoredEdits, Distinct, Zenon DEF Finish
  <2>17. CASE ProcessCrash
    BY <2>5, <2>17, Zenon DEF ProcessCrash, Die
  <2>18. CASE PowerFailure
    BY <2>2, <2>18, Zenon DEF PowerFailure, Die, AllStored
  <2>19. CASE Restart
    BY <2>2, <2>19, Zenon DEF Restart, fileVars, AllStored
  <2>20. CASE UNCHANGED vars
    BY <2>2, <2>20, Zenon DEF vars, fileVars, localVars, AllStored
  <2>. QED
    BY <1>2, <2>6, <2>7, <2>8, <2>9, <2>10, <2>11, <2>12, <2>13, <2>14, <2>15, <2>16,
       <2>17, <2>18, <2>19, <2>20 DEF Next
<1>. QED
  BY <1>1, <1>2, Zenon

\* An identity that was once stored is never lost: not by crashes or power
\* failures at any moment, nor by calls of the file system that fail, unless
\* fopen fails on a file that is there.
THEOREM IdentityNeverLost == Spec => []NeverLost
<1>1. Init => SafeInv
  BY Zenon DEF Init, SafeInv
<1>2. SafeInv => NeverLost
  BY Zenon DEF SafeInv, NeverLost, AllStored
<1>. QED
  BY <1>1, <1>2, TypeInit, TypeStep, SafeStep, PTL DEF Spec

-----------------------------------------------------------------------------
(* While no call fails.                                                    *)

\* Where writeConfig has got to shows in the files.
Phases ==
    /\ pc = "restore" => disk.backup # Absent
    /\ pc \in {"read", "keep", "mark"} => disk.backup = Absent
    /\ pc = "open" => disk.config = Absent
    /\ pc = "write" => disk.config = Torn
    /\ pc \in {"sync", "finish", "mark"} => disk.config = value
    /\ pc = "finish" => journal = {disk}
    /\ pc \in {"open", "write", "sync", "finish"} =>
         ~error /\ (hasBackupFile <=> disk.backup # Absent)

\* An identity, once stored, is only replaced; upsertEntropy writes where there is
\* none; and the account has in memory what it has on disk.
Contents ==
    /\ Stored(disk) = Absent => \A d \in journal : Stored(d) = Absent
    /\ ~setting /\ pc \in {"keep", "open", "write"} => Stored(disk) = Absent
    /\ ~setting /\ pc \in {"sync", "finish"} => Stored(disk) \in {Absent, value}
    /\ pc = "down" => m_entropy = Absent
    /\ pc = "idle" /\ m_entropy # Absent => Stored(disk) = m_entropy

CellInv == faults = 0 => Phases /\ Contents

\* A step after which no call has failed yet is one in which none fails, and
\* finds the files that are there.
LEMMA Clean ==
    ASSUME TypeOK, faults' = 0
    PROVE  /\ ~ Fails
           /\ Works => faults = 0
           /\ \A f : \A b \in BOOLEAN : Opens(f, b) => faults = 0 /\ b = (f # Absent)
<1>1. faults \in Nat
  BY Bounds DEF TypeOK
<1>2. faults' # faults + 1
  BY <1>1
<1>. QED
  BY <1>2, Zenon DEF Fails, Works, Opens

\* No step makes the failures undone.
LEMMA StillClean == TypeOK /\ [Next]_vars /\ faults' = 0 => faults = 0
<1>. SUFFICES ASSUME TypeOK, [Next]_vars, faults' = 0 PROVE faults = 0
  BY Zenon
<1>1. CASE FindBackup \/ ReadConfig \/ Keep
  BY <1>1, Clean, Zenon DEF FindBackup, ReadConfig, Keep
<1>2. CASE FindBackupKeepsConfig \/ Restore \/ KeepFails \/ Open
  BY <1>2, Clean, Zenon DEF FindBackupKeepsConfig, Restore, KeepFails, Open
<1>3. CASE Write \/ Fsync \/ Finish \/ Mark
  BY <1>3, Clean, Zenon DEF Write, Fsync, Finish, Mark
<1>4. CASE ProcessCrash \/ PowerFailure
  BY <1>4, Zenon DEF ProcessCrash, PowerFailure, Die
<1>5. CASE \/ UpsertEntropy \/ Restart \/ UNCHANGED vars
           \/ \E v \in Entropies : SetWords(v)
  BY <1>5, Zenon DEF UpsertEntropy, SetWords, Restart, vars
<1>. QED
  BY <1>1, <1>2, <1>3, <1>4, <1>5, Zenon DEF Next

\* The phases follow one another.
LEMMA PhasesStep ==
    ASSUME TypeOK, ValueKnown, Phases, [Next]_vars, faults' = 0
    PROVE  Phases'
<1>. USE DEF Phases
<1>0. /\ disk \in Disks /\ disk \in journal
      /\ error \in BOOLEAN /\ hasBackupFile \in BOOLEAN /\ setting \in BOOLEAN
  BY Zenon DEF TypeOK
<1>1. CASE UpsertEntropy \/ \E v \in Entropies : SetWords(v)
  BY <1>1, Zenon DEF UpsertEntropy, SetWords
<1>2. CASE FindBackup
  BY <1>0, <1>2, Clean, StoredEdits, DiskEdits
     DEF FindBackup, AfterCtor, Disk, Same, fileVars, localVars
<1>3. CASE Restore
  BY <1>0, <1>3, Clean, StoredEdits, Zenon DEF Restore, AfterCtor, Disk, localVars
<1>4. CASE ReadConfig
  BY <1>4, Zenon DEF ReadConfig, Same, fileVars
<1>5. CASE Keep
  <2>1. PICK file \in BOOLEAN, backup \in BOOLEAN :
          /\ \/ Opens(disk.config, file) /\ backup = (disk.backup # Absent)
             \/ Opens(disk.backup, backup) /\ file = (disk.config # Absent)
          /\ \/ ~file /\ Same /\ hasBackupFile' = FALSE
             \/ file /\ ~backup /\ Disk(MovedAside) /\ hasBackupFile' = TRUE
             \/ file /\ backup /\ Disk(WithConfig(Absent)) /\ hasBackupFile' = FALSE
    BY <1>5, Zenon DEF Keep
  <2>2. file = (disk.config # Absent) /\ ~ backup
    BY <1>5, <2>1, Clean, Zenon DEF Keep
  <2>3. pc' = "open" /\ error' = FALSE
    BY <1>5, Zenon DEF Keep
  <2>4. CASE ~ file
    <3>1. disk' = disk /\ hasBackupFile' = FALSE
      BY <2>1, <2>4, Zenon DEF Same, fileVars
    <3>2. disk.backup = Absent /\ disk.config = Absent
      BY <1>5, <2>2, <2>4, Zenon DEF Keep
    <3>. QED
      BY <2>3, <3>1, <3>2, Zenon
  <2>5. CASE file
    BY <1>0, <2>1, <2>2, <2>3, <2>5, StoredEdits, Zenon DEF Disk
  <2>. QED
    BY <2>4, <2>5, Zenon
<1>6. CASE Open
  BY <1>0, <1>6, Clean, StoredEdits, DiskEdits DEF Open, Disk, localVars
<1>7. CASE Write
  <2>1. value \in Files
    BY <1>7, Zenon DEF Write, ValueKnown, Writing, Files
  <2>. QED
    BY <1>0, <1>7, <2>1, Clean, StoredEdits DEF Write, Disk
<1>8. CASE Fsync
  BY <1>8, Clean DEF Fsync
<1>9. CASE Finish
  BY <1>0, <1>9, Clean, StoredEdits, Zenon DEF Finish, Disk, Same, fileVars, localVars
<1>10. CASE Mark \/ ProcessCrash \/ PowerFailure \/ Restart
  BY <1>10, Zenon DEF Mark, ProcessCrash, PowerFailure, Restart, Die
<1>11. CASE FindBackupKeepsConfig \/ KeepFails
  BY <1>11, Clean, Zenon DEF FindBackupKeepsConfig, KeepFails
<1>12. CASE UNCHANGED vars
  BY <1>12, Zenon DEF vars, fileVars, localVars
<1>. QED
  BY <1>1, <1>2, <1>3, <1>4, <1>5, <1>6, <1>7, <1>8, <1>9, <1>10, <1>11, <1>12, Zenon DEF Next

\* An edit that does not change what a start would find.
LEMMA QuietEdit ==
    ASSUME TypeOK, NEW d, Disk(d) \/ Same, Disk(d) => Stored(d) = Stored(disk)
    PROVE  Stored(disk') = Stored(disk) /\ Possible' = Possible
  BY Zenon DEF TypeOK, Disk, Same, fileVars, Possible

\* The steps before writeConfig: they restore a backup and read the file, and
\* what a start would find stays as it is.
LEMMA CtorStep ==
    ASSUME TypeOK, ValueKnown, Phases, faults' = 0,
           FindBackup \/ Restore \/ ReadConfig \/ Keep \/ Open
    PROVE  /\ Stored(disk') = Stored(disk) /\ Possible' = Possible
           /\ setting' = setting
           /\ m_entropy' = m_entropy \/ (ReadConfig /\ pc' = "idle")
<1>0. disk \in Disks /\ disk \in journal /\ Absent \in Files /\ Torn \in Files
  BY Zenon DEF TypeOK, Files
<1>1. CASE FindBackup
  <2>1. Same \/ (disk.backup # Absent /\ Disk(WithConfig(Absent)))
    BY <1>1, Clean, Zenon DEF FindBackup
  <2>. QED
    BY <1>0, <1>1, <2>1, QuietEdit, StoredEdits, Zenon
       DEF FindBackup, Aside, accountVars, localVars
<1>2. CASE Restore
  <2>1. disk.backup # Absent /\ Disk(RenamedBack)
    BY <1>2, Clean, Zenon DEF Restore, Phases
  <2>. QED
    BY <1>0, <1>2, <2>1, QuietEdit, StoredEdits, Zenon DEF Restore, Aside, accountVars, localVars
<1>3. CASE ReadConfig
  BY <1>3, QuietEdit, Zenon DEF ReadConfig, Disk, Same, fileVars, accountVars, Possible
<1>4. CASE Keep
  <2>1. disk.backup = Absent
    BY <1>4, Zenon DEF Keep, Phases
  <2>2. Same \/ Disk(MovedAside) \/ (disk.backup # Absent /\ Disk(WithConfig(Absent)))
    BY <1>4, Clean, Zenon DEF Keep
  <2>. QED
    BY <1>0, <1>4, <2>1, <2>2, QuietEdit, StoredEdits, Zenon DEF Keep, Aside, accountVars
<1>5. CASE Open
  <2>1. Disk(WithConfig(Torn)) /\ disk.config = Absent
    BY <1>5, Clean, Zenon DEF Open, Phases
  <2>2. Stored(WithConfig(Torn)) = Stored(disk)
    BY <1>0, <2>1, StoredEdits, Zenon DEF Stored, Recovered
  <2>. QED
    BY <1>5, <2>1, <2>2, QuietEdit, Zenon DEF Open, Aside, accountVars, localVars
<1>. QED
  BY <1>1, <1>2, <1>3, <1>4, <1>5, Zenon

\* The two steps that may replace what a start would find: fwrite, when there was
\* no file, and the removal of the backup, when there was one.
LEMMA ReplaceStep ==
    ASSUME TypeOK, ValueKnown, Phases, Contents, faults' = 0, Write \/ Finish
    PROVE  /\ \/ Stored(disk') = Stored(disk) /\ Possible' = Possible
              \/ Stored(disk') = value /\ Possible' = {Stored(disk), value}
           /\ pc = "finish" => Stored(disk') = value
           /\ ~ setting => Stored(disk) \in {Absent, value}
                           /\ Stored(disk') \in {Absent, value}
           /\ Stored(disk') = Absent => Stored(disk) = Absent /\ Possible' = Possible
           /\ value \in Entropies /\ UNCHANGED <<value, setting, m_entropy>>
<1>0. disk \in Disks /\ disk \in journal /\ setting \in BOOLEAN
  BY Zenon DEF TypeOK
<1>1. /\ value \in Entropies /\ value \in Files /\ value # Absent
      /\ UNCHANGED <<value, setting, m_entropy>>
  BY Distinct, Zenon DEF Write, Finish, ValueKnown, Writing, Files, Aside, accountVars, localVars
<1>2. CASE Write
  <2>1. Disk(WithConfig(value)) /\ disk.config = Torn /\ pc = "write"
    BY <1>2, Clean, Zenon DEF Write, Phases
  <2>2. CASE disk.backup # Absent
    <3>1. Stored(WithConfig(value)) = Stored(disk)
      BY <1>0, <1>1, <2>2, StoredEdits, Zenon
    <3>2. Stored(disk') = Stored(disk) /\ Possible' = Possible
      BY <2>1, <3>1, QuietEdit, Zenon
    <3>. QED
      BY <1>1, <2>1, <3>2, Zenon DEF Contents
  <2>3. CASE disk.backup = Absent
    <3>1. Stored(WithConfig(value)) = value /\ Stored(disk) = Absent
      BY <1>0, <1>1, <2>1, <2>3, StoredEdits, Distinct, Zenon DEF Stored, Recovered
    <3>2. \A d \in journal : Stored(d) = Absent
      BY <3>1, Zenon DEF Contents
    <3>3. Possible' = {Stored(disk), value} /\ Stored(disk') = value
      BY <1>0, <2>1, <3>1, <3>2, Zenon DEF Disk, Possible
    <3>. QED
      BY <1>1, <2>1, <3>1, <3>3, Zenon
  <2>. QED
    BY <2>2, <2>3, Zenon
<1>3. CASE Finish
  <2>1. disk.config = value /\ journal = {disk} /\ pc = "finish"
    BY <1>3, Zenon DEF Finish, Phases
  <2>2. ~ setting => Stored(disk) \in {Absent, value}
    BY <2>1, Zenon DEF Contents
  <2>3. CASE disk.backup # Absent
    <3>1. Disk(WithoutBackup)
      BY <1>3, <2>1, <2>3, Clean, Zenon DEF Finish, Phases
    <3>2. Stored(WithoutBackup) = value
      BY <1>0, <1>1, <2>1, StoredEdits, Zenon
    <3>3. Stored(disk') = value /\ Possible' = {Stored(disk), value}
      BY <2>1, <3>1, <3>2, Zenon DEF Disk, Possible
    <3>. QED
      BY <1>1, <2>2, <3>3, Zenon
  <2>4. CASE disk.backup = Absent
    <3>1. Same
      BY <1>3, <2>1, <2>4, Clean, Zenon DEF Finish, Phases
    <3>2. Stored(disk) = value
      BY <1>0, <1>1, <2>1, <2>4, StoredEdits, Zenon
    <3>3. Stored(disk') = value /\ Possible' = Possible
      BY <3>1, <3>2, Zenon DEF Same, fileVars, Possible
    <3>. QED
      BY <1>1, <2>2, <3>2, <3>3, Zenon
  <2>. QED
    BY <2>3, <2>4, Zenon
<1>. QED
  BY <1>1, <1>2, <1>3, Zenon

\* Before its last step the write under way is in the file; then it is in memory.
LEMMA MarkStep ==
    ASSUME TypeOK, ValueKnown, Phases, faults' = 0, Mark
    PROVE  /\ Stored(disk) = value /\ value \in Entropies
           /\ Stored(disk') = Stored(disk) /\ Possible' = Possible
           /\ m_entropy' = value /\ setting' = setting /\ pc = "mark" /\ pc' = "idle"
<1>0. disk \in Disks /\ disk \in journal
  BY Zenon DEF TypeOK
<1>1. value \in Entropies /\ disk.config = value /\ disk.backup = Absent
  BY Zenon DEF Mark, ValueKnown, Writing, Phases
<1>2. Stored(disk) = value
  BY <1>0, <1>1, StoredEdits, Zenon
<1>3. Disk(WithDat(m_address')) /\ m_address' \in Entropies
  BY <1>1, Clean, Zenon DEF Mark, Address, TypeOK
<1>4. Stored(WithDat(m_address')) = Stored(disk)
  BY <1>0, <1>3, StoredEdits, Zenon
<1>5. Stored(disk') = Stored(disk) /\ Possible' = Possible
  BY <1>3, <1>4, QuietEdit, Zenon
<1>. QED
  BY <1>1, <1>2, <1>5, Zenon DEF Mark, localVars

\* Contents is kept by every step in which no call fails.
LEMMA ContentsStep ==
    ASSUME TypeOK, ValueKnown, Phases, Contents, [Next]_vars, faults' = 0
    PROVE  Contents'
<1>0. disk \in Disks /\ disk \in journal /\ setting \in BOOLEAN
  BY Zenon DEF TypeOK
<1>2. CASE FindBackup \/ Restore \/ ReadConfig \/ Keep \/ Open
  <2>1. /\ Stored(disk') = Stored(disk) /\ Possible' = Possible /\ setting' = setting
        /\ m_entropy' = m_entropy \/ (ReadConfig /\ pc' = "idle")
    BY <1>2, CtorStep, Zenon
  <2>2. Stored(disk') = Absent => \A d \in journal' : Stored(d) = Absent
    BY <2>1, Zenon DEF Contents, Possible
  <2>3. pc' \in {"restore", "read", "keep", "open", "write", "idle"}
        /\ (pc' = "idle" => ReadConfig)
    BY <1>2, Clean, Zenon DEF FindBackup, Restore, ReadConfig, Keep, Open, AfterCtor
  <2>4. ~ setting /\ pc' \in {"keep", "open", "write"} => Stored(disk) = Absent
    <3>1. CASE FindBackup \/ Restore
      BY <3>1, <1>0, Zenon DEF FindBackup, Restore, AfterCtor
    <3>2. CASE ReadConfig
      <4>1. disk.backup = Absent
        BY <3>2, Zenon DEF ReadConfig, Phases
      <4>2. pc' = "keep" => disk.config \in {Absent, Torn}
        BY <3>2, Clean, Zenon DEF ReadConfig
      <4>. QED
        BY <2>3, <3>2, <4>1, <4>2, Distinct, Zenon DEF Stored, Recovered, ReadConfig
    <3>3. CASE Keep \/ Open
      BY <3>3, Zenon DEF Keep, Open, Contents
    <3>. QED
      BY <1>2, <3>1, <3>2, <3>3, Zenon
  <2>5. pc' = "idle" => Stored(disk) = m_entropy'
    <3>. SUFFICES ASSUME pc' = "idle" PROVE Stored(disk) = m_entropy'
      BY Zenon
    <3>1. ReadConfig
      BY <2>3, Zenon
    <3>2. disk.config # Torn /\ disk.config # Absent /\ m_entropy' = disk.config
      BY <3>1, Clean, Zenon DEF ReadConfig
    <3>3. disk.backup = Absent
      BY <3>1, Zenon DEF ReadConfig, Phases
    <3>. QED
      BY <3>2, <3>3, Zenon DEF Stored, Recovered
  <2>. QED
    BY <2>1, <2>2, <2>3, <2>4, <2>5, Zenon DEF Contents
<1>3. CASE Write \/ Finish
  <2>1. pc' \in {"sync", "mark"}
    BY <1>3, Zenon DEF Write, Finish
  <2>2. Stored(disk') = Absent => \A d \in journal' : Stored(d) = Absent
    BY <1>3, ReplaceStep, Zenon DEF Contents, Possible
  <2>3. ~ setting' => Stored(disk') \in {Absent, value'}
    BY <1>3, ReplaceStep
  <2>. QED
    BY <2>1, <2>2, <2>3, Zenon DEF Contents
<1>4. CASE Fsync
  BY <1>4, Clean, Zenon DEF Fsync, Contents
<1>5. CASE Mark
  <2>1. Stored(disk') = Absent => \A d \in journal' : Stored(d) = Absent
    BY <1>5, MarkStep, Zenon DEF Contents, Possible
  <2>. QED
    BY <1>5, <2>1, MarkStep, Zenon DEF Contents
<1>6. CASE ProcessCrash
  BY <1>6, Zenon DEF ProcessCrash, Die, Same, fileVars, Contents
<1>7. CASE PowerFailure
  BY <1>7, Zenon DEF PowerFailure, Die, Contents
<1>8. CASE UpsertEntropy \/ Restart \/ \E v \in Entropies : SetWords(v)
  BY <1>8, Zenon DEF UpsertEntropy, Restart, SetWords, fileVars, accountVars, localVars, Contents
<1>9. CASE FindBackupKeepsConfig \/ KeepFails
  BY <1>9, Clean, Zenon DEF FindBackupKeepsConfig, KeepFails
<1>10. CASE UNCHANGED vars
  BY <1>10, Zenon DEF vars, fileVars, localVars, accountVars, Contents
<1>. QED
  BY <1>2, <1>3, <1>4, <1>5, <1>6, <1>7, <1>8, <1>9, <1>10, Zenon DEF Next

\* The invariant holds at the start and is kept.
LEMMA CellInvCorrect == Spec => [](TypeOK /\ ValueKnown /\ CellInv)
<1>1. Init => CellInv
  <2>1. Init => \A d \in journal : d = disk
    BY Zenon DEF Init
  <2>. QED
    BY <2>1, Zenon DEF Init, CellInv, Phases, Contents
<1>2. TypeOK /\ ValueKnown /\ CellInv /\ [Next]_vars => CellInv'
  BY StillClean, PhasesStep, ContentsStep, Zenon DEF CellInv
<1>. QED
  BY <1>1, <1>2, TypeInit, TypeStep, PTL DEF Spec

\* After a call the account has in memory what a restart would read, as long as
\* no call of the file system has failed.
THEOREM MemoryStored == Spec => []MemoryIsStored
<1>1. CellInv => MemoryIsStored
  BY Zenon DEF CellInv, Contents, MemoryIsStored
<1>. QED
  BY <1>1, CellInvCorrect, PTL

\* A step in which no call fails is a step of DurableCell, or does not show there.
LEMMA CellStep ==
    ASSUME TypeOK, ValueKnown, CellInv, [Next]_vars, faults' = 0
    PROVE  Cell!Next \/ UNCHANGED Cell!vars
<1>0. Phases /\ Contents
  BY StillClean, Zenon DEF CellInv
<1>. USE DEF Cell!vars
<1>1. CASE FindBackup \/ Restore \/ ReadConfig \/ Keep \/ Open
  <2>1. /\ Stored(disk') = Stored(disk) /\ Possible' = Possible
        /\ pc # "down" /\ pc' # "down"
    BY <1>0, <1>1, CtorStep, Zenon DEF FindBackup, Restore, ReadConfig, Keep, Open, AfterCtor
  <2>2. CASE Keep \/ Open
    <3>1. BeingWritten' = BeingWritten
      BY <2>2, Zenon DEF Keep, Open, BeingWritten, localVars
    <3>. QED
      BY <2>1, <3>1, Zenon
  <2>3. CASE (FindBackup \/ Restore \/ ReadConfig) /\ pc' # "keep"
    <3>1. BeingWritten' = Absent /\ BeingWritten = Absent
      BY <2>3, Zenon DEF FindBackup, Restore, ReadConfig, AfterCtor, BeingWritten
    <3>. QED
      BY <2>1, <3>1, Zenon
  <2>4. CASE (FindBackup \/ Restore \/ ReadConfig) /\ pc' = "keep"
    <3>1. BeingWritten = Absent /\ BeingWritten' = value'
      BY <2>4, Zenon DEF FindBackup, Restore, ReadConfig, BeingWritten
    <3>2. value' \in Entropies
      <4>1. ValueKnown'
        BY TypeStep, Zenon
      <4>. QED
        BY <2>4, <4>1, Zenon DEF ValueKnown, Writing
    <3>3. Cell!Begin(value')
      BY <2>1, <3>1, Zenon DEF Cell!Begin
    <3>. QED
      BY <3>2, <3>3, Zenon DEF Cell!Next
  <2>. QED
    BY <1>1, <2>2, <2>3, <2>4, Zenon
<1>2. CASE Write \/ Finish
  <2>1. /\ \/ Stored(disk') = Stored(disk) /\ Possible' = Possible
           \/ Stored(disk') = value /\ Possible' = {Stored(disk), value}
        /\ value \in Entropies /\ value' = value
    BY <1>0, <1>2, ReplaceStep, Zenon
  <2>2. /\ BeingWritten = value /\ BeingWritten' = value
        /\ pc # "down" /\ pc' # "down"
    BY <1>2, <2>1, Zenon DEF Write, Finish, BeingWritten
  <2>3. value # Absent
    BY <2>1, Distinct, Zenon
  <2>. QED
    BY <2>1, <2>2, <2>3, Zenon DEF Cell!Next, Cell!Replace
<1>3. CASE Fsync
  <2>1. /\ BeingWritten' = BeingWritten /\ disk' = disk /\ journal' = {disk}
        /\ pc # "down" /\ pc' # "down"
    BY <1>3, Clean, Zenon DEF Fsync, BeingWritten
  <2>2. Stored(disk') = Stored(disk) /\ Possible' = {Stored(disk)}
    BY <2>1, Zenon DEF Possible
  <2>. QED
    BY <2>1, <2>2, Zenon DEF Cell!Next, Cell!Settle
<1>4. CASE Mark
  <2>1. /\ Stored(disk) = value /\ value \in Entropies
        /\ Stored(disk') = Stored(disk) /\ Possible' = Possible
        /\ pc = "mark" /\ pc' = "idle"
    BY <1>0, <1>4, MarkStep, Zenon
  <2>2. BeingWritten = value /\ BeingWritten' = Absent /\ value # Absent
    BY <2>1, Distinct, Zenon DEF BeingWritten
  <2>. QED
    BY <2>1, <2>2, Zenon DEF Cell!Next, Cell!End
<1>5. CASE ProcessCrash \/ PowerFailure
  <2>1. pc # "down" /\ pc' = "down" /\ BeingWritten' = Absent
    BY <1>5, Zenon DEF ProcessCrash, PowerFailure, Die, BeingWritten
  <2>2. \/ Stored(disk') = Stored(disk) /\ Possible' = Possible
        \/ Stored(disk') \in Possible /\ Possible' = {Stored(disk')}
    <3>1. CASE ProcessCrash
      BY <3>1, Zenon DEF ProcessCrash, Same, fileVars, Possible
    <3>2. CASE PowerFailure
      BY <3>2, Zenon DEF PowerFailure, Possible
    <3>. QED
      BY <1>5, <3>1, <3>2, Zenon
  <2>. QED
    BY <2>1, <2>2, Zenon DEF Cell!Next, Cell!Crash
<1>6. CASE Restart
  <2>1. /\ pc = "down" /\ pc' = "idle" /\ BeingWritten' = Absent
        /\ BeingWritten = Absent
        /\ Stored(disk') = Stored(disk) /\ Possible' = Possible
    BY <1>6, Zenon DEF Restart, BeingWritten, fileVars, Possible
  <2>. QED
    BY <2>1, Zenon DEF Cell!Next, Cell!Start
<1>7. CASE UpsertEntropy \/ \E v \in Entropies : SetWords(v)
  <2>1. /\ pc # "down" /\ pc' # "down" /\ BeingWritten' = BeingWritten
        /\ Stored(disk') = Stored(disk) /\ Possible' = Possible
    BY <1>7, Zenon DEF UpsertEntropy, SetWords, BeingWritten, fileVars, Possible
  <2>. QED
    BY <2>1, Zenon
<1>8. CASE FindBackupKeepsConfig \/ KeepFails
  BY <1>8, Clean, Zenon DEF FindBackupKeepsConfig, KeepFails
<1>9. CASE UNCHANGED vars
  BY <1>9, Zenon DEF vars, fileVars, localVars, BeingWritten, Possible
<1>. QED
  BY <1>1, <1>2, <1>3, <1>4, <1>5, <1>6, <1>7, <1>8, <1>9, Zenon DEF Next

\* Config.cpp implements a durable cell as long as its system calls succeed: for
\* any identities and any crashes and power failures between any two calls.
THEOREM ConfigImplementsCell == Spec => ImplementsCell
<1>1. Init => Cell!Init
  BY DEF Init, Cell!Init, Stored, Recovered, Possible, BeingWritten
<1>2. TypeOK /\ ValueKnown /\ CellInv /\ [Next]_vars
        => [faults' = 0 => Cell!Next]_Cell!vars
  BY CellStep, Zenon
<1>. QED
  BY <1>1, <1>2, CellInvCorrect, PTL DEF Spec, ImplementsCell

\* upsertEntropy never replaces an identity that is stored, as long as no call
\* fails: it generates one only where a restart would find none either.
THEOREM UpsertKeepsIdentity == Spec => IdentityKept
<1>1. ASSUME TypeOK, ValueKnown, CellInv, [Next]_vars,
             ~ setting, faults' = 0, crashes' = crashes, Stored(disk) # Absent
      PROVE  Stored(disk') = Stored(disk)
  <2>0. Phases /\ Contents
    BY <1>1, StillClean, Zenon DEF CellInv
  <2>1. CASE FindBackup \/ Restore \/ ReadConfig \/ Keep \/ Open
    BY <1>1, <2>0, <2>1, CtorStep, Zenon
  <2>2. CASE Write \/ Finish
    BY <1>1, <2>0, <2>2, ReplaceStep, Zenon
  <2>3. CASE Mark
    BY <1>1, <2>0, <2>3, MarkStep, Zenon
  <2>4. CASE Fsync
    BY <2>4, Zenon DEF Fsync
  <2>5. CASE \/ UpsertEntropy \/ Restart \/ UNCHANGED vars
             \/ \E v \in Entropies : SetWords(v)
    BY <2>5, Zenon DEF UpsertEntropy, Restart, SetWords, vars, fileVars
  <2>6. CASE ProcessCrash \/ PowerFailure
    <3>1. crashes \in Nat /\ crashes' = crashes + 1
      BY <1>1, <2>6, Bounds DEF ProcessCrash, PowerFailure, Die, TypeOK
    <3>. QED
      BY <1>1, <3>1
  <2>7. CASE FindBackupKeepsConfig \/ KeepFails
    BY <1>1, <2>7, Clean, Zenon DEF FindBackupKeepsConfig, KeepFails
  <2>. QED
    BY <1>1, <2>1, <2>2, <2>3, <2>4, <2>5, <2>6, <2>7, Zenon DEF Next
<1>2. TypeOK /\ ValueKnown /\ CellInv /\ [Next]_vars =>
        [(~setting /\ faults' = 0 /\ crashes' = crashes /\ Stored(disk) # Absent)
            => Stored(disk') = Stored(disk)]_vars
  BY <1>1, Zenon
<1>. QED
  BY <1>2, CellInvCorrect, PTL DEF Spec, IdentityKept

-----------------------------------------------------------------------------
(* Addresses.                                                              *)

\* The identities in the files that have no .dat file are being written.
Marked(f) ==
    f \in Entropies => f \in disk.dat \/ (pc \in {"sync", "finish", "mark"} /\ f = value)

\* The address in memory is that of the identity, unless setWords came later; the
\* identities in the files have their .dat file, unless it was missed.
AddressInv ==
    /\ m_entropy = Absent <=> m_address = Absent
    /\ pc = "read" => ~setting
    /\ pc = "down" \/ (~setting /\ pc # "idle") => m_entropy = Absent
    /\ ~unmarked => Marked(disk.config) /\ Marked(disk.backup)
    /\ m_entropy # Absent /\ ~renamed => m_address = m_entropy
    /\ m_entropy # Absent /\ ~renamed /\ ~unmarked => m_entropy \in disk.dat

\* The edits of the two files leave the .dat files alone.
LEMMA DatEdits ==
    ASSUME disk \in Disks
    PROVE  /\ \A f \in Files : WithConfig(f).dat = disk.dat
           /\ WithoutBackup.dat = disk.dat /\ MovedAside.dat = disk.dat
           /\ RenamedBack.dat = disk.dat
  BY Zenon DEF Disks, WithConfig, WithoutBackup, MovedAside, RenamedBack

\* Steps of Config.cpp move what is in the files, or write the new identity.
LEMMA FileStep ==
    ASSUME TypeOK, ValueKnown, AddressInv,
           \/ FindBackup \/ FindBackupKeepsConfig \/ Restore \/ Keep \/ KeepFails
           \/ Open \/ Write \/ Fsync \/ Finish
    PROVE  AddressInv'
<1>. DEFINE files == {disk.config, disk.backup, Absent, Torn}
<1>0. /\ disk \in Disks /\ Absent \in Files /\ Torn \in Files
      /\ disk.config \in Files /\ disk.backup \in Files
      /\ Absent \notin Entropies /\ Torn \notin Entropies
  BY DiskEdits, Distinct, Zenon DEF TypeOK
<1>1. /\ UNCHANGED <<m_entropy, m_address, renamed, unmarked, setting, value>>
      /\ pc \notin {"idle", "down"} /\ pc' \notin {"idle", "down"}
      /\ pc \in {"sync", "finish", "mark"} => pc' \in {"sync", "finish", "mark"}
      /\ pc' = "read" => ~setting
  <2>1. CASE FindBackup \/ FindBackupKeepsConfig \/ Restore
    BY <2>1, Zenon DEF FindBackup, FindBackupKeepsConfig, Restore, AfterCtor, Aside,
                accountVars, localVars
  <2>2. CASE Keep \/ KeepFails
    BY <2>2, Zenon DEF Keep, KeepFails, Aside, accountVars
  <2>3. CASE Open \/ Finish
    BY <2>3, Zenon DEF Open, Finish, Aside, accountVars, localVars
  <2>4. CASE Write \/ Fsync
    BY <2>4, Zenon DEF Write, Fsync, Aside, accountVars
  <2>. QED
    BY <2>1, <2>2, <2>3, <2>4, Zenon
<1>2. /\ disk'.dat = disk.dat
      /\ \A f \in {disk'.config, disk'.backup} :
            f \in files \/ (pc' = "sync" /\ f = value)
  <2>1. CASE FindBackup
    BY <1>0, <2>1, StoredEdits, DatEdits DEF FindBackup, Disk, Same, fileVars
  <2>2. CASE Restore
    BY <1>0, <2>2, StoredEdits, DatEdits, Zenon DEF Restore, Disk, Same, fileVars
  <2>3. CASE Keep
    BY <1>0, <2>3, StoredEdits, DatEdits DEF Keep, Disk, Same, fileVars
  <2>4. CASE Open
    BY <1>0, <2>4, StoredEdits, DatEdits DEF Open, Disk, Same, fileVars
  <2>5. CASE Write
    <3>1. value \in Files
      BY <2>5, Zenon DEF Write, ValueKnown, Writing, Files
    <3>. QED
      BY <1>0, <2>5, <3>1, StoredEdits, DatEdits DEF Write, Disk, Same, fileVars
  <2>6. CASE Finish
    BY <1>0, <2>6, StoredEdits, DatEdits DEF Finish, Disk, Same, fileVars
  <2>7. CASE FindBackupKeepsConfig \/ KeepFails \/ Fsync
    BY <2>7, Zenon DEF FindBackupKeepsConfig, KeepFails, Fsync, Same, fileVars
  <2>. QED
    BY <2>1, <2>2, <2>3, <2>4, <2>5, <2>6, <2>7, Zenon
<1>3. ~ unmarked' => Marked(disk.config)' /\ Marked(disk.backup)'
  <2>1. unmarked \in BOOLEAN
    BY Zenon DEF TypeOK
  <2>. QED
    BY <1>0, <1>1, <1>2, <2>1, Zenon DEF AddressInv, Marked
<1>. QED
  BY <1>1, <1>2, <1>3, Zenon DEF AddressInv

\* Every step keeps the addresses in order.
LEMMA AddressStep ==
    ASSUME TypeOK, ValueKnown, AddressInv, [Next]_vars
    PROVE  AddressInv'
<1>0. /\ disk \in Disks /\ disk.config \in Files /\ disk.backup \in Files
      /\ unmarked \in BOOLEAN /\ renamed \in BOOLEAN /\ setting \in BOOLEAN
  BY DiskEdits, Zenon DEF TypeOK
<1>1. CASE \/ FindBackup \/ FindBackupKeepsConfig \/ Restore \/ Keep \/ KeepFails
           \/ Open \/ Write \/ Fsync \/ Finish
  BY <1>1, FileStep, Zenon
<1>2. CASE ReadConfig
  <2>1. UNCHANGED <<disk, renamed, unmarked, setting>> /\ pc = "read"
    BY <1>2, Zenon DEF ReadConfig, Same, fileVars
  <2>2. ~ unmarked => Marked(disk.config)' /\ Marked(disk.backup)'
    BY <1>0, <1>2, <2>1, Zenon DEF AddressInv, Marked, ReadConfig
  <2>3. CASE pc' = "keep"
    <3>1. UNCHANGED <<m_entropy, m_address>>
      BY <1>2, <2>3, Zenon DEF ReadConfig, accountVars
    <3>. QED
      BY <1>0, <2>1, <2>2, <2>3, <3>1, Zenon DEF AddressInv
  <2>4. CASE pc' = "idle"
    <3>1. /\ disk.config # Torn /\ disk.config # Absent
          /\ m_entropy' = disk.config /\ m_address' = Address(disk.config)
      BY <1>2, <2>4, Zenon DEF ReadConfig, Opens
    <3>2. disk.config \in Entropies
      BY <1>0, <3>1, Zenon DEF Files
    <3>3. m_address = Absent /\ (m_address' = Absent <=> m_entropy' = Absent)
      BY <2>1, <3>1, Zenon DEF AddressInv, Address
    <3>. QED
      BY <1>0, <2>1, <2>2, <2>4, <3>1, <3>2, <3>3, Zenon DEF AddressInv, Address, Marked
  <2>. QED
    BY <1>2, <2>3, <2>4, Zenon DEF ReadConfig
<1>3. CASE Mark
  <2>1. /\ value \in Entropies /\ value # Absent
        /\ m_entropy' = value /\ m_address' = Address(value)
        /\ pc' = "idle" /\ UNCHANGED <<setting, value>>
    BY <1>3, Distinct, Zenon DEF Mark, ValueKnown, Writing, localVars
  <2>2. m_address' # Absent /\ m_address' \in Entropies
    BY <2>1, Zenon DEF Address, TypeOK
  <2>3. ~ renamed' => m_address' = m_entropy'
    BY <1>3, <2>1, Zenon DEF Mark, Address
  <2>4. ~ unmarked' => /\ Marked(disk.config)' /\ Marked(disk.backup)'
                       /\ value \in disk'.dat
    <3>. SUFFICES ASSUME ~ unmarked'
                  PROVE  /\ Marked(disk.config)' /\ Marked(disk.backup)'
                         /\ value \in disk'.dat
      BY Zenon
    <3>1. /\ ~ unmarked /\ m_address = Absent /\ Disk(WithDat(m_address'))
      BY <1>3, Zenon DEF Mark
    <3>2. /\ disk'.config = disk.config /\ disk'.backup = disk.backup
          /\ disk'.dat = disk.dat \cup {value}
      BY <1>0, <2>1, <2>2, <3>1, StoredEdits, Zenon DEF Disk, Address
    <3>. QED
      BY <3>1, <3>2, Zenon DEF AddressInv, Marked
  <2>. QED
    BY <2>1, <2>2, <2>3, <2>4, Zenon DEF AddressInv
<1>4. CASE ProcessCrash
  <2>1. /\ m_entropy' = Absent /\ m_address' = Absent /\ pc' = "down"
        /\ disk' = disk /\ unmarked' = (unmarked \/ pc # "idle")
    BY <1>4, Zenon DEF ProcessCrash, Die, Same, fileVars
  <2>2. ~ unmarked' => Marked(disk.config)' /\ Marked(disk.backup)'
    BY <2>1, Zenon DEF AddressInv, Marked
  <2>. QED
    BY <2>1, <2>2, Zenon DEF AddressInv
<1>5. CASE PowerFailure
  BY <1>5, Zenon DEF PowerFailure, Die, AddressInv
<1>6. CASE UpsertEntropy \/ Restart \/ \E v \in Entropies : SetWords(v)
  <2>1. /\ UNCHANGED <<disk, m_entropy, m_address, renamed, unmarked>>
        /\ pc \in {"idle", "down"} /\ pc' \in {"idle", "ctor"}
        /\ pc' = "idle" \/ setting' = TRUE \/ m_entropy = Absent
    BY <1>6, Zenon DEF UpsertEntropy, Restart, SetWords, fileVars, accountVars, historyVars
  <2>2. ~ unmarked' => Marked(disk.config)' /\ Marked(disk.backup)'
    BY <1>0, <2>1, Zenon DEF AddressInv, Marked
  <2>. QED
    BY <1>0, <2>1, <2>2, Zenon DEF AddressInv
<1>7. CASE UNCHANGED vars
  BY <1>7, Zenon DEF vars, fileVars, localVars, accountVars, historyVars, AddressInv, Marked
<1>. QED
  BY <1>1, <1>2, <1>3, <1>4, <1>5, <1>6, <1>7, Zenon DEF Next

\* The address the account reports is that of its identity and has its .dat file,
\* unless setWords ran when an address was known, or the file was missed.
THEOREM AddressCorrect == Spec => []AddressKnown
<1>1. Init => AddressInv
  BY Distinct DEF Init, AddressInv, Marked
<1>2. TypeOK /\ AddressInv => AddressKnown
  <2>1. TypeOK => unmarked \in BOOLEAN
    BY Zenon DEF TypeOK
  <2>. QED
    BY <2>1, Zenon DEF AddressInv, AddressKnown
<1>. QED
  BY <1>1, <1>2, TypeInit, TypeStep, AddressStep, PTL DEF Spec

\* The type invariant.
THEOREM ConfigTypeCorrect == Spec => []TypeOK
  BY TypeInit, TypeStep, PTL DEF Spec

=============================================================================
