----------------------- MODULE StatePersistenceProofs -----------------------
(***************************************************************************)
(* What the files of the application state guarantee for any number of      *)
(* saves, crashes and failing file system calls.                            *)
(***************************************************************************)
EXTENDS StatePersistence, TLAPS

LEMMA FileType ==
  /\ Absent \in File /\ Torn \in File /\ Newer \in File
  /\ \A v \in Nat : Holds(v) \in File
  /\ \A f \in File : f.version \in Nat
  BY DEF Absent, Torn, Newer, Holds, File

(* TypeOK says that what is renamed is the whole state in memory; that is   *)
(* decided when the temporary file is written, two steps earlier.           *)
TypeInv == TypeOK /\ (pc \in {"copy", "copying"} => tmp = Holds(mem))

LEMMA TypeInit == Init => TypeInv
  <1> SUFFICES ASSUME Init PROVE TypeInv
    OBVIOUS
  <1>1. target \in File /\ backup \in File /\ tmp \in File
    BY FileType DEF Init
  <1>2. corrupt \subseteq File /\ pc \in PCs /\ booted \in BOOLEAN
    BY DEF Init, PCs
  <1>3. mem \in Nat /\ newest \in Nat /\ reported \in Nat /\ damage \in Nat
    BY DEF Init
  <1> QED
    BY <1>1, <1>2, <1>3 DEF Init, TypeInv, TypeOK

LEMMA TypeNext == TypeInv /\ [Next]_vars => TypeInv'
  <1> SUFFICES ASSUME TypeInv, [Next]_vars PROVE TypeInv'
    OBVIOUS
  <1> USE FileType DEF TypeInv, TypeOK, PCs, Saving, files, history
  <1>1. CASE LoadTarget
    BY <1>1 DEF LoadTarget
  <1>2. CASE LoadFresh
    BY <1>2 DEF LoadFresh, Misread
  <1>3. CASE LoadBackup
    BY <1>3 DEF LoadBackup, Misread
  <1>4. CASE KeepCorrupt
    BY <1>4 DEF KeepCorrupt
  <1>5. CASE CreateTmp
    BY <1>5 DEF CreateTmp, SaveFails
  <1>6. CASE WriteTmp
    BY <1>6 DEF WriteTmp, SaveFails
  <1>7. CASE CopyBackup
    BY <1>7 DEF CopyBackup
  <1>8. CASE CopyEnds
    BY <1>8 DEF CopyEnds, SaveFails
  <1>9. CASE ReplaceFile
    BY <1>9 DEF ReplaceFile, SaveFails
  <1>10. CASE Return
    BY <1>10 DEF Return
  <1>11. CASE Change
    BY <1>11 DEF Change
  <1>12. CASE ProcessEnds
    BY <1>12 DEF ProcessEnds
  <1>13. CASE Damage
    BY <1>13 DEF Damage
  <1>14. CASE NewerAppRuns
    BY <1>14 DEF NewerAppRuns
  <1>15. CASE UNCHANGED vars
    BY <1>15 DEF vars
  <1> QED
    BY <1>1, <1>2, <1>3, <1>4, <1>5, <1>6, <1>7, <1>8, <1>9, <1>10, <1>11, <1>12,
       <1>13, <1>14, <1>15 DEF Next

(* Every variable keeps its type, and whatever is renamed onto the state    *)
(* file is the whole state in memory (lib.rs, persist_state).               *)
THEOREM TypeCorrect == Spec => []TypeOK
  <1>1. TypeInv => TypeOK
    BY DEF TypeInv
  <1> QED
    BY <1>1, TypeInit, TypeNext, PTL DEF Spec

-----------------------------------------------------------------------------
(* With nothing but StoragePK writing the files, the state file is whole.   *)
(* As long as moreover every start could read it, what it holds lies between*)
(* what was reported and what is in memory: a save replaces it by the state *)
(* in memory, and a start reads that state back.                            *)
Whole == target = Absent \/ target.status = "ok"

Clean ==
  /\ pc # "rename"
  /\ pc \in Saving => target.version <= mem
  /\ pc = "return" => target.version = mem
  /\ mem <= newest
  /\ target.version <= newest
  /\ reported <= target.version

FileInv ==
  /\ TypeInv
  /\ damage = 0 => Whole
  /\ damage = 0 /\ misread = {} => Clean

LEMMA FileInit == Init => FileInv
  BY TypeInit, FileType DEF Init, FileInv, Clean, Whole, Saving, Absent

(* A step after which nothing else has written the file is a step of this   *)
(* release, taken when nothing else had.                                    *)
LEMMA OwnStep ==
  ASSUME FileInv, [Next]_vars, damage' = 0
  PROVE  /\ Whole /\ damage = 0
         /\ ~ Damage /\ ~ NewerAppRuns
         /\ target.version \in Nat /\ mem \in Nat /\ newest \in Nat /\ reported \in Nat
  <1>1. /\ target.version \in Nat /\ mem \in Nat /\ newest \in Nat
        /\ reported \in Nat /\ damage \in Nat
    BY FileType DEF FileInv, TypeInv, TypeOK
  <1>2. ~ Damage /\ ~ NewerAppRuns
    BY <1>1 DEF Damage, NewerAppRuns
  <1>3. damage = 0
    BY <1>2 DEF Next, vars, history, LoadTarget, LoadFresh, LoadBackup, KeepCorrupt,
       CreateTmp, WriteTmp, CopyBackup, CopyEnds, ReplaceFile, Return, Change, ProcessEnds
  <1>4. Whole
    BY <1>3 DEF FileInv
  <1> QED
    BY <1>1, <1>2, <1>3, <1>4

(* While every start could read the file, a start that finds a file reads   *)
(* it.                                                                      *)
LEMMA ReadStep ==
  ASSUME FileInv, [Next]_vars, damage' = 0, misread' = {}
  PROVE  /\ Clean /\ misread = {}
         /\ ~ LoadBackup /\ ~ KeepCorrupt
         /\ LoadFresh => ~ Exists(target)
  <1>1. misread = {}
    BY DEF Next, vars, LoadTarget, LoadFresh, LoadBackup, Misread, KeepCorrupt, CreateTmp,
       WriteTmp, CopyBackup, CopyEnds, ReplaceFile, Return, Change, ProcessEnds, Damage,
       NewerAppRuns
  <1>2. Clean /\ Whole
    BY <1>1, OwnStep DEF FileInv
  <1>3. ~ LoadBackup /\ ~ KeepCorrupt
    BY <1>2 DEF LoadBackup, Misread, KeepCorrupt, Clean, Whole, Exists, Readable, Absent
  <1>4. LoadFresh => ~ Exists(target)
    BY DEF LoadFresh, Misread
  <1> QED
    BY <1>1, <1>2, <1>3, <1>4

LEMMA WholeNext ==
  ASSUME FileInv, [Next]_vars, damage' = 0
  PROVE  Whole'
  <1>1. Whole /\ ~ Damage /\ ~ NewerAppRuns
    BY OwnStep
  <1> USE <1>1 DEF Whole, files, history
  <1>2. CASE LoadTarget \/ LoadFresh \/ LoadBackup \/ KeepCorrupt
    BY <1>2 DEF LoadTarget, LoadFresh, LoadBackup, KeepCorrupt, Absent
  <1>3. CASE CreateTmp \/ WriteTmp \/ CopyBackup \/ CopyEnds
    BY <1>3 DEF CreateTmp, WriteTmp, CopyBackup, CopyEnds
  <1>4. CASE ReplaceFile
    <2>1. tmp = Holds(mem)
      BY <1>4 DEF ReplaceFile, FileInv, TypeInv, TypeOK
    <2> QED
      BY <1>4, <2>1 DEF ReplaceFile, Holds
  <1>5. CASE Return \/ Change \/ ProcessEnds \/ UNCHANGED vars
    BY <1>5 DEF Return, Change, ProcessEnds, vars
  <1> QED
    BY <1>1, <1>2, <1>3, <1>4, <1>5 DEF Next

LEMMA FileNext == FileInv /\ [Next]_vars => FileInv'
  <1> SUFFICES ASSUME FileInv, [Next]_vars PROVE FileInv'
    OBVIOUS
  <1>1. TypeInv' /\ (damage' = 0 => Whole')
    BY TypeNext, WholeNext DEF FileInv
  <1> SUFFICES ASSUME damage' = 0, misread' = {} PROVE Clean'
    BY <1>1 DEF FileInv
  <1>2. target.version \in Nat /\ mem \in Nat /\ newest \in Nat /\ reported \in Nat
    BY OwnStep
  <1>3. /\ Clean /\ Whole /\ ~ Damage /\ ~ NewerAppRuns /\ ~ LoadBackup /\ ~ KeepCorrupt
        /\ LoadFresh => ~ Exists(target)
    BY OwnStep, ReadStep
  <1> USE <1>2, <1>3 DEF Clean, Whole, Saving, files, history, Absent, Holds
  <1>4. CASE LoadTarget
    BY <1>4 DEF LoadTarget, Readable
  <1>5. CASE LoadFresh
    BY <1>5 DEF LoadFresh, Exists
  <1>6. CASE CreateTmp
    BY <1>6 DEF CreateTmp, SaveFails
  <1>7. CASE WriteTmp
    BY <1>7 DEF WriteTmp, SaveFails
  <1>8. CASE CopyBackup
    BY <1>8 DEF CopyBackup
  <1>9. CASE CopyEnds
    BY <1>9 DEF CopyEnds, SaveFails
  <1>10. CASE ReplaceFile
    <2>1. tmp = Holds(mem)
      BY <1>10 DEF ReplaceFile, FileInv, TypeInv, TypeOK
    <2> QED
      BY <1>10, <2>1 DEF ReplaceFile, SaveFails
  <1>11. CASE Return
    BY <1>11 DEF Return
  <1>12. CASE Change
    BY <1>12 DEF Change
  <1>13. CASE ProcessEnds
    BY <1>13 DEF ProcessEnds
  <1>14. CASE UNCHANGED vars
    BY <1>14 DEF vars
  <1> QED
    BY <1>3, <1>4, <1>5, <1>6, <1>7, <1>8, <1>9, <1>10, <1>11, <1>12, <1>13, <1>14
       DEF Next

(* However often the process ends or a system call fails, the state file is *)
(* whole whenever it exists (lib.rs, persist_state).                        *)
THEOREM NeverTorn == Spec => []TargetNeverTorn
  <1>1. FileInv => TargetNeverTorn
    BY DEF FileInv, Whole, TargetNeverTorn, Absent
  <1> QED
    BY <1>1, FileInit, FileNext, PTL DEF Spec

(* The files implement DurableState: until something else writes the state  *)
(* file, or a start fails to read a good one, what the next start loads only*)
(* moves forward, and what was reported as saved is never lost (lib.rs,     *)
(* persist_state and load_state).                                           *)
THEOREM FilesAreDurable == Spec => DurableSpec
  <1> DEFINE Touched == damage > 0 \/ misread # {}
  <1>1. Init => Durable!Init
    BY DEF Init, Durable!Init, Absent
  <1>2. ASSUME FileInv, [Next]_vars
        PROVE  [Durable!Next]_<<target.version, reported, Touched>>
    <2>1. CASE damage' = 0 /\ misread' = {}
      <3> USE <2>1
      <3>1. target.version \in Nat /\ mem \in Nat /\ damage = 0 /\ misread = {}
        BY <1>2, OwnStep, ReadStep
      <3>2. Clean /\ ~ Damage /\ ~ NewerAppRuns /\ ~ LoadBackup /\ ~ KeepCorrupt
        BY <1>2, OwnStep, ReadStep
      <3>3. CASE ReplaceFile
        <4>1. tmp = Holds(mem) /\ target.version <= mem /\ reported' = reported
          BY <1>2, <3>2, <3>3 DEF ReplaceFile, FileInv, Clean, TypeInv, TypeOK, Saving, history
        <4>2. target' = tmp \/ target' = target
          BY <3>3 DEF ReplaceFile
        <4>3. CASE target' = tmp
          <5>1. target'.version = mem
            BY <4>1, <4>3 DEF Holds
          <5> QED
            BY <3>1, <4>1, <5>1 DEF Durable!Next, Durable!Save
        <4>4. CASE target' = target
          BY <3>1, <4>1, <4>4
        <4> QED
          BY <4>2, <4>3, <4>4
      <3>4. CASE Return
        BY <3>1, <3>2, <3>4 DEF Return, Clean, files, Durable!Next, Durable!Report
      <3>5. CASE LoadTarget \/ LoadFresh \/ Change \/ ProcessEnds \/ UNCHANGED vars
        BY <3>1, <3>5 DEF LoadTarget, LoadFresh, Misread, Change, ProcessEnds, vars, files, history
      <3>6. CASE CreateTmp \/ WriteTmp \/ CopyBackup \/ CopyEnds
        BY <3>6 DEF CreateTmp, WriteTmp, CopyBackup, CopyEnds, history
      <3> QED
        BY <1>2, <3>2, <3>3, <3>4, <3>5, <3>6 DEF Next
    <2>2. CASE damage' # 0 \/ misread' # {}
      <3>1. damage' \in Nat
        BY <1>2, FileNext DEF FileInv, TypeInv, TypeOK
      <3> QED
        BY <2>2, <3>1 DEF Durable!Next
    <2> QED
      BY <2>1, <2>2
  <1> QED
    BY <1>1, <1>2, FileInit, FileNext, PTL DEF Spec, DurableSpec, Durable!Spec

(* Until something else writes the state file, or a start fails to read a   *)
(* good one, no change that was reported as saved is missing from what the  *)
(* next start loads (lib.rs, persist_state before every Ok).                *)
THEOREM NothingReportedIsLost == Spec => []Durable!NothingLost
  <1>1. FileInv => Durable!NothingLost
    BY DEF FileInv, Clean, TypeInv, TypeOK, Durable!NothingLost
  <1> QED
    BY <1>1, FileInit, FileNext, PTL DEF Spec

-----------------------------------------------------------------------------
(* A file of a newer release that is not set aside yet is vault-state.json  *)
(* itself, and the process is not past the renaming of it.                  *)
NewerInv ==
  NewerKept /\ Newer \notin corrupt /\ "missing" \notin misread =>
    target = Newer /\ pc \in {"down", "rename"}

LEMMA NewerInit == Init => NewerInv
  BY DEF Init, NewerInv, NewerKept, Newer, Absent

LEMMA NewerNext ==
  ASSUME TypeInv, NewerInv, [Next]_vars
  PROVE  NewerInv' /\ (NewerKept => NewerKept' \/ "missing" \in misread)
  <1> USE DEF NewerInv, NewerKept, Newer, files, history
  <1>1. CASE LoadTarget
    BY <1>1 DEF LoadTarget, Readable
  <1>2. CASE LoadFresh
    BY <1>2 DEF LoadFresh, Misread, Exists
  <1>3. CASE LoadBackup
    BY <1>3 DEF LoadBackup, Misread
  <1>4. CASE KeepCorrupt
    BY <1>4 DEF KeepCorrupt, Absent
  <1>5. CASE CreateTmp
    BY <1>5 DEF CreateTmp, SaveFails
  <1>6. CASE WriteTmp
    BY <1>6 DEF WriteTmp, SaveFails
  <1>7. CASE CopyBackup
    BY <1>7 DEF CopyBackup, Torn
  <1>8. CASE CopyEnds
    BY <1>8 DEF CopyEnds, SaveFails
  <1>9. CASE ReplaceFile
    <2>1. tmp # Newer
      BY <1>9 DEF ReplaceFile, TypeInv, TypeOK, Holds
    <2> QED
      BY <1>9, <2>1 DEF ReplaceFile, SaveFails
  <1>10. CASE Return
    BY <1>10 DEF Return
  <1>11. CASE Change
    BY <1>11 DEF Change
  <1>12. CASE ProcessEnds
    BY <1>12 DEF ProcessEnds
  <1>13. CASE Damage
    BY <1>13 DEF Damage, Readable, Torn
  <1>14. CASE NewerAppRuns
    BY <1>14 DEF NewerAppRuns
  <1>15. CASE UNCHANGED vars
    BY <1>15 DEF vars
  <1> QED
    BY <1>1, <1>2, <1>3, <1>4, <1>5, <1>6, <1>7, <1>8, <1>9, <1>10, <1>11, <1>12,
       <1>13, <1>14, <1>15 DEF Next

(* What a newer release wrote is kept through every start, save, failure,   *)
(* crash and damage, in place or under a corrupt-<time> name (lib.rs,       *)
(* load_state), unless a start was told that there is no file.              *)
THEOREM NewerFileKept == Spec => KeepsNewerFile
  <1>1. TypeInv /\ NewerInv /\ [Next]_vars => NewerInv'
                /\ [NewerKept => NewerKept' \/ "missing" \in misread]_vars
    BY NewerNext
  <1>2. TypeInv /\ [Next]_vars => TypeInv'
    BY TypeNext
  <1> QED
    BY <1>1, <1>2, TypeInit, NewerInit, PTL DEF Spec, KeepsNewerFile
-----------------------------------------------------------------------------
(* Recovery.  While no call failed and nothing was cut short, the backup is *)
(* a whole copy of an older state until the file it is a copy of is damaged *)
(* (the next save then copies the damaged file over it), and whenever the   *)
(* process is not saving one of the two files can be read.                  *)
RecoverInv ==
  /\ pc = "copying" => Exists(target)
  /\ pc = "return" => Readable(target)
  /\ damage = 0 /\ pc # "copying" => backup = Absent \/ Readable(backup)
  /\ damage <= 1 /\ pc \in {"down", "running"} =>
        \/ ~ Exists(target) \/ Readable(target)
        \/ Readable(backup) \/ backup \in {Absent, Newer}

LEMMA RecoverInit == Init => RecoverInv
  BY DEF Init, RecoverInv, Exists, Absent

LEMMA RecoverNext ==
  ASSUME FileInv, FileInv', [Next]_vars, ~ failed => RecoverInv, ~ failed'
  PROVE  RecoverInv'
  <1>1. damage \in Nat /\ damage' \in Nat
    BY DEF FileInv, TypeInv, TypeOK
  <1>2. ~ failed
    BY DEF Next, vars, LoadTarget, LoadFresh, LoadBackup, KeepCorrupt, CreateTmp,
       WriteTmp, CopyBackup, CopyEnds, ReplaceFile, Return, Change, ProcessEnds,
       Damage, NewerAppRuns, SaveFails, Misread
  <1>3. RecoverInv
    BY <1>2
  <1> USE <1>1, <1>2, <1>3 DEF RecoverInv, Exists, Readable, files, history
  <1>4. CASE LoadTarget \/ LoadFresh \/ LoadBackup
    BY <1>4 DEF LoadTarget, LoadFresh, LoadBackup, Misread
  <1>5. CASE KeepCorrupt
    BY <1>5 DEF KeepCorrupt
  <1>6. CASE CreateTmp
    BY <1>6 DEF CreateTmp, SaveFails
  <1>7. CASE WriteTmp
    BY <1>7 DEF WriteTmp, SaveFails
  <1>8. CASE CopyBackup
    BY <1>8 DEF CopyBackup
  <1>9. CASE CopyEnds
    <2>1. pc' = "replace" /\ backup' = target /\ UNCHANGED <<target, damage>>
      BY <1>9 DEF CopyEnds, SaveFails
    <2>2. damage = 0 => target = Absent \/ target.status = "ok"
      BY DEF FileInv, Whole
    <2> QED  BY <2>1, <2>2
  <1>10. CASE ReplaceFile
    <2>1. target' = Holds(mem) /\ pc' = "return" /\ UNCHANGED <<backup, damage>> /\ pc = "replace"
      BY <1>10 DEF ReplaceFile, SaveFails, FileInv, TypeInv, TypeOK
    <2> QED  BY <2>1 DEF Holds
  <1>11. CASE Return
    BY <1>11 DEF Return
  <1>12. CASE Change
    BY <1>12 DEF Change
  <1>13. CASE ProcessEnds
    <2>1. pc = "running"
      BY <1>13 DEF ProcessEnds
    <2> QED  BY <1>13, <2>1 DEF ProcessEnds
  <1>14. CASE Damage
    BY <1>14 DEF Damage
  <1>15. CASE NewerAppRuns
    BY <1>15 DEF NewerAppRuns
  <1>16. CASE UNCHANGED vars
    BY <1>16 DEF vars
  <1> QED
    BY <1>4, <1>5, <1>6, <1>7, <1>8, <1>9, <1>10, <1>11, <1>12, <1>13, <1>14, <1>15,
       <1>16 DEF Next

(* After the file was damaged the application starts again, from the backup *)
(* or from the file a later save has written (lib.rs, persist_state and     *)
(* load_state), under the conditions StartsAgain names.                     *)
THEOREM DamageIsRecovered == Spec => []StartsAgain
  <1> DEFINE Inv == FileInv /\ (~ failed => RecoverInv)
  <1>1. Init => Inv
    BY FileInit, RecoverInit
  <1>2. Inv /\ [Next]_vars => Inv'
    BY FileNext, RecoverNext
  <1>3. Inv => StartsAgain
    BY DEF RecoverInv, StartsAgain
  <1> QED
    BY <1>1, <1>2, <1>3, PTL DEF Spec

-----------------------------------------------------------------------------
(* Versions.  A readable backup is never ahead of a readable state file,    *)
(* nor of the state in memory that a save is about to put in its place.     *)
BackupInv ==
  /\ pc \in {"down", "running"} /\ Readable(backup) =>
        Exists(target) /\ (Readable(target) => backup.version <= target.version)
  /\ pc \in Saving \cup {"rename"} /\ Readable(backup) => backup.version <= mem
  /\ pc \in Saving /\ Readable(target) => target.version <= mem
  /\ pc = "return" => target = Holds(mem)

NewestInv == mem <= newest /\ target.version <= newest /\ backup.version <= newest

LEMMA BackupInit == Init => BackupInv /\ NewestInv
  BY DEF Init, BackupInv, NewestInv, Readable, Absent, Saving

LEMMA BackupTypes ==
  ASSUME TypeInv
  PROVE  /\ mem \in Nat /\ newest \in Nat
         /\ target.version \in Nat /\ backup.version \in Nat
  BY FileType DEF TypeInv, TypeOK

LEMMA NewestNext ==
  ASSUME TypeInv, NewestInv, [Next]_vars
  PROVE  NewestInv'
  <1> USE BackupTypes DEF NewestInv, files, history, Absent, Torn, Newer, Holds
  <1>1. CASE LoadTarget \/ LoadFresh \/ LoadBackup
    BY <1>1 DEF LoadTarget, LoadFresh, LoadBackup
  <1>2. CASE KeepCorrupt
    BY <1>2 DEF KeepCorrupt
  <1>3. CASE CreateTmp \/ WriteTmp
    BY <1>3 DEF CreateTmp, WriteTmp
  <1>4. CASE CopyBackup \/ CopyEnds
    BY <1>4 DEF CopyBackup, CopyEnds
  <1>5. CASE ReplaceFile
    <2>1. target' \in {target, Holds(mem)} /\ UNCHANGED <<backup, mem, newest>>
      BY <1>5 DEF ReplaceFile, TypeInv, TypeOK
    <2> QED  BY <2>1
  <1>6. CASE Return
    BY <1>6 DEF Return
  <1>7. CASE Change
    BY <1>7 DEF Change
  <1>8. CASE ProcessEnds
    BY <1>8 DEF ProcessEnds
  <1>9. CASE Damage
    BY <1>9 DEF Damage
  <1>10. CASE NewerAppRuns
    BY <1>10 DEF NewerAppRuns
  <1>11. CASE UNCHANGED vars
    BY <1>11 DEF vars
  <1> QED
    BY <1>1, <1>2, <1>3, <1>4, <1>5, <1>6, <1>7, <1>8, <1>9, <1>10, <1>11 DEF Next

LEMMA BackupNext ==
  ASSUME TypeInv, NewestInv, [Next]_vars, ~ failed => BackupInv, ~ failed'
  PROVE  BackupInv'
  <1>1. ~ failed
    BY DEF Next, vars, LoadTarget, LoadFresh, LoadBackup, KeepCorrupt, CreateTmp,
       WriteTmp, CopyBackup, CopyEnds, ReplaceFile, Return, Change, ProcessEnds,
       Damage, NewerAppRuns, SaveFails, Misread
  <1>2. BackupInv
    BY <1>1
  <1> USE <1>1, <1>2, BackupTypes DEF BackupInv, Saving, Exists, Readable, files, history
  <1>3. CASE LoadTarget
    BY <1>3 DEF LoadTarget
  <1>4. CASE LoadFresh
    BY <1>4 DEF LoadFresh, Misread
  <1>5. CASE LoadBackup
    BY <1>5 DEF LoadBackup, Misread
  <1>6. CASE KeepCorrupt
    BY <1>6 DEF KeepCorrupt, Absent
  <1>7. CASE CreateTmp
    BY <1>7 DEF CreateTmp, SaveFails
  <1>8. CASE WriteTmp
    BY <1>8 DEF WriteTmp, SaveFails
  <1>9. CASE CopyBackup
    BY <1>9 DEF CopyBackup, Torn
  <1>10. CASE CopyEnds
    BY <1>10 DEF CopyEnds, SaveFails
  <1>11. CASE ReplaceFile
    <2>1. /\ target' = Holds(mem) /\ pc = "replace" /\ pc' = "return"
          /\ UNCHANGED <<backup, mem>>
      BY <1>11 DEF ReplaceFile, SaveFails, TypeInv, TypeOK
    <2> QED  BY <2>1 DEF Holds
  <1>12. CASE Return
    BY <1>12 DEF Return, Holds
  <1>13. CASE Change
    BY <1>13 DEF Change, NewestInv
  <1>14. CASE ProcessEnds
    BY <1>14 DEF ProcessEnds
  <1>15. CASE Damage
    BY <1>15 DEF Damage, Torn
  <1>16. CASE NewerAppRuns
    BY <1>16 DEF NewerAppRuns, Newer
  <1>17. CASE UNCHANGED vars
    BY <1>17 DEF vars
  <1> QED
    BY <1>3, <1>4, <1>5, <1>6, <1>7, <1>8, <1>9, <1>10, <1>11, <1>12, <1>13, <1>14,
       <1>15, <1>16, <1>17 DEF Next

(* As long as no call failed and nothing was cut short, a start comes up    *)
(* with at least what a readable backup holds (lib.rs, load_state).         *)
THEOREM BackupIsUsed == Spec => RecoveryUsesBackup
  <1> DEFINE Inv == TypeInv /\ NewestInv /\ (~ failed => BackupInv)
  <1>1. Init => Inv
    BY TypeInit, BackupInit
  <1>2. Inv /\ [Next]_vars => Inv'
    BY TypeNext, NewestNext, BackupNext
  <1>3. ASSUME Inv, [Next]_vars, ~ failed', ~ UNCHANGED vars PROVE UsesBackup
    <2> SUFFICES ASSUME pc = "down", pc' # "down", Readable(backup)
                 PROVE  mem' >= backup.version
      BY DEF UsesBackup
    <2>0. ~ failed
      BY <1>3 DEF Next, vars, LoadTarget, LoadFresh, LoadBackup, KeepCorrupt, CreateTmp,
         WriteTmp, CopyBackup, CopyEnds, ReplaceFile, Return, Change, ProcessEnds,
         Damage, NewerAppRuns, SaveFails, Misread
    <2>1. BackupInv /\ mem \in Nat /\ target.version \in Nat /\ backup.version \in Nat
      BY <1>3, <2>0, BackupTypes
    <2>2. CASE LoadTarget
      BY <2>1, <2>2 DEF LoadTarget, BackupInv
    <2>3. CASE LoadFresh
      BY <1>3, <2>1, <2>3 DEF LoadFresh, Misread, BackupInv
    <2>4. CASE LoadBackup
      BY <2>1, <2>4 DEF LoadBackup
    <2> QED
      BY <1>3, <2>2, <2>3, <2>4 DEF Next, KeepCorrupt, CreateTmp, WriteTmp, CopyBackup,
         CopyEnds, ReplaceFile, Return, Change, ProcessEnds, Damage, NewerAppRuns
  <1>4. Inv /\ [Next]_vars => [~ failed' => UsesBackup]_vars
    BY <1>3
  <1> QED
    BY <1>1, <1>2, <1>4, PTL DEF Spec, RecoveryUsesBackup
=============================================================================
