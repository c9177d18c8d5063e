-------------------------- MODULE StatePersistence --------------------------
(***************************************************************************)
(* vault-state.json, its backup and its temporary file, as persist_state    *)
(* and load_state (lib.rs) create, copy, rename and read them, one file     *)
(* system call per step, so that the process can end between any two.  The  *)
(* state itself is a version number: each change of the vault makes a newer *)
(* one, and version 0 is the empty state of a first start.                  *)
(***************************************************************************)
EXTENDS Naturals

CONSTANTS
    MaxVersion,   \* changes of the state a behaviour makes (bound)
    MaxDamage,    \* times something else writes vault-state.json (bound)
    Crashes,      \* TRUE when the process may end at any step
    IOErrors,     \* TRUE when any file system call may fail, queries included
    NewerApp      \* TRUE when a newer release may write the files

ASSUME BoundsAssumption == MaxVersion \in Nat /\ MaxDamage \in Nat
ASSUME SwitchAssumption == {Crashes, IOErrors, NewerApp} \subseteq BOOLEAN

VARIABLES
    target,     \* vault-state.json
    backup,     \* vault-state.backup.json
    tmp,        \* vault-state.tmp-<uuid> of the save in progress
    corrupt,    \* the vault-state.corrupt-<time>.json files
    pc,         \* where the process is
    booted,     \* load_state returned, so a failed save no longer ends it
    mem,        \* version of RuntimeState.persisted
    newest,     \* last version any change made
    reported,   \* version the user was last told is saved or loaded
    damage,     \* times something other than this release wrote the file
    failed,     \* a call failed, or the process ended in the middle of something
    misread     \* what a start has taken a good file for (a history variable)

vars == <<target, backup, tmp, corrupt, pc, booted, mem, newest, reported, damage,
          failed, misread>>

(* A file is absent, unreadable (torn), written by a newer schema, or holds *)
(* a version that parse_persisted_state accepts.                            *)
File == [status: {"absent", "torn", "newer", "ok"}, version: Nat]

Absent == [status |-> "absent", version |-> 0]
Torn == [status |-> "torn", version |-> 0]
Newer == [status |-> "newer", version |-> 0]
Holds(v) == [status |-> "ok", version |-> v]

Readable(f) == f.status = "ok"
Exists(f) == f.status # "absent"

Saving == {"create", "write", "copy", "copying", "replace", "return"}
PCs == {"down", "rename", "running"} \cup Saving

Init ==
    /\ target = Absent /\ backup = Absent /\ tmp = Absent
    /\ corrupt = {}
    /\ pc = "down" /\ booted = FALSE
    /\ mem = 0 /\ newest = 0 /\ reported = 0 /\ damage = 0
    /\ failed = FALSE /\ misread = {}

files == <<target, backup, tmp, corrupt>>
history == <<newest, reported, damage>>

-----------------------------------------------------------------------------
(* load_state.  With neither file readable it returns an error, and the     *)
(* application does not start: no action.  A read that fails counts like a  *)
(* file that cannot be parsed, and a query of existence that fails (exists  *)
(* of the Rust library) like a file that is not there.                      *)

Misread(as) ==
    /\ IOErrors
    /\ misread' = misread \cup {as}
    /\ failed' = TRUE

LoadTarget ==
    /\ pc = "down"
    /\ Readable(target)
    /\ mem' = target.version
    /\ pc' = "create"
    /\ UNCHANGED <<files, booted, history, failed, misread>>

LoadFresh ==
    /\ pc = "down"
    /\ \/ ~ Exists(target) /\ UNCHANGED <<failed, misread>>
       \/ Exists(target) /\ Misread("missing")
    /\ mem' = 0
    /\ pc' = "create"
    /\ UNCHANGED <<files, booted, history>>

(* Mutant: an unreadable file is treated like a missing one.                *)
LoadBackupAsFresh ==
    /\ pc = "down"
    /\ Exists(target)
    /\ ~ Readable(target)
    /\ mem' = 0
    /\ pc' = "create"
    /\ UNCHANGED <<files, booted, history, failed, misread>>

LoadBackup ==
    /\ pc = "down"
    /\ Exists(target)
    /\ \/ ~ Readable(target) /\ UNCHANGED <<failed, misread>>
       \/ Readable(target) /\ Misread("damaged")
    /\ Readable(backup)
    /\ mem' = backup.version
    /\ pc' = "rename"
    /\ UNCHANGED <<files, booted, history>>

(* Mutant: the unreadable file is removed, not renamed.                     *)
KeepCorruptRemoved ==
    /\ pc = "rename"
    /\ target' = Absent
    /\ pc' = "create"
    /\ UNCHANGED <<backup, tmp, corrupt, booted, mem, history, failed, misread>>

KeepCorrupt ==
    /\ pc = "rename"
    /\ \/ /\ corrupt' = corrupt \cup {target}
          /\ target' = Absent
          /\ pc' = "create"
          /\ UNCHANGED failed
       \/ IOErrors /\ pc' = "down" /\ failed' = TRUE /\ UNCHANGED <<corrupt, target>>
    /\ UNCHANGED <<backup, tmp, booted, mem, history, misread>>

-----------------------------------------------------------------------------
(* persist_state.  No later save reads a temporary file left behind.        *)

SaveFails ==
    /\ IOErrors
    /\ pc' = IF booted THEN "running" ELSE "down"
    /\ tmp' = Absent
    /\ failed' = TRUE

(* Mutant: the save truncates vault-state.json itself.                      *)
CreateTmpInPlace ==
    /\ pc = "create"
    /\ target' = Torn /\ tmp' = Torn /\ pc' = "write"
    /\ UNCHANGED <<backup, corrupt, booted, mem, history, failed, misread>>

CreateTmp ==
    /\ pc = "create"
    /\ \/ tmp' = Torn /\ pc' = "write" /\ UNCHANGED failed
       \/ SaveFails
    /\ UNCHANGED <<target, backup, corrupt, booted, mem, history, misread>>

WriteTmp ==
    /\ pc = "write"
    /\ \/ tmp' = Holds(mem) /\ pc' = "copy" /\ UNCHANGED failed
       \/ SaveFails
    /\ UNCHANGED <<target, backup, corrupt, booted, mem, history, misread>>

(* Mutant: the old file is moved to the backup instead of copied.           *)
CopyBackupByRename ==
    /\ pc = "copy"
    /\ backup' = target /\ target' = Absent /\ pc' = "replace"
    /\ UNCHANGED <<tmp, corrupt, booted, mem, history, failed, misread>>

CopyBackup ==
    /\ pc = "copy"
    /\ \/ Exists(target) /\ backup' = Torn /\ pc' = "copying" /\ UNCHANGED failed
       \/ ~ Exists(target) /\ backup' = backup /\ pc' = "replace" /\ UNCHANGED failed
       \/ IOErrors /\ backup' = backup /\ pc' = "replace" /\ failed' = TRUE
    /\ UNCHANGED <<target, tmp, corrupt, booted, mem, history, misread>>

(* Mutant: the copy of the old file is cut short and nobody notices.        *)
CopyEndsShort ==
    /\ pc = "copying"
    /\ pc' = "replace"
    /\ UNCHANGED <<target, backup, tmp, corrupt, booted, mem, history, failed, misread>>

CopyEnds ==
    /\ pc = "copying"
    /\ \/ backup' = target /\ pc' = "replace" /\ UNCHANGED <<tmp, failed>>
       \/ SaveFails /\ backup' = backup
    /\ UNCHANGED <<target, corrupt, booted, mem, history, misread>>

ReplaceFile ==
    /\ pc = "replace"
    /\ \/ target' = tmp /\ tmp' = Absent /\ pc' = "return" /\ UNCHANGED failed
       \/ SaveFails /\ target' = target
    /\ UNCHANGED <<backup, corrupt, booted, mem, history, misread>>

Return ==
    /\ pc = "return"
    /\ pc' = "running"
    /\ booted' = TRUE
    /\ reported' = mem
    /\ UNCHANGED <<files, mem, newest, damage, failed, misread>>

-----------------------------------------------------------------------------
(* A command changes the state and saves it before it unlocks.              *)
Change ==
    /\ pc = "running"
    /\ newest < MaxVersion
    /\ newest' = newest + 1
    /\ mem' = newest + 1
    /\ pc' = "create"
    /\ UNCHANGED <<files, booted, reported, damage, failed, misread>>

(* The user closes the application, or the process ends in mid-step.        *)
ProcessEnds ==
    /\ pc = "running" \/ (Crashes /\ pc # "down")
    /\ pc' = "down"
    /\ booted' = FALSE
    /\ tmp' = Absent
    /\ failed' = (failed \/ pc # "running")
    /\ UNCHANGED <<target, backup, corrupt, mem, history, misread>>

(* Something other than StoragePK makes the file unreadable.                *)
Damage ==
    /\ damage < MaxDamage
    /\ pc \in {"down", "running"}
    /\ Readable(target)
    /\ target' = Torn
    /\ damage' = damage + 1
    /\ UNCHANGED <<backup, tmp, corrupt, pc, booted, mem, newest, reported, failed,
                   misread>>

(* A newer release ran in between and saved once or more.                   *)
NewerAppRuns ==
    /\ NewerApp
    /\ damage < MaxDamage
    /\ pc = "down"
    /\ Readable(target)
    /\ target' = Newer
    /\ backup' \in {target, Newer}
    /\ damage' = damage + 1
    /\ UNCHANGED <<tmp, corrupt, pc, booted, mem, newest, reported, failed,
                   misread>>

Next ==
    \/ LoadTarget \/ LoadFresh \/ LoadBackup \/ KeepCorrupt
    \/ CreateTmp \/ WriteTmp \/ CopyBackup \/ CopyEnds \/ ReplaceFile \/ Return
    \/ Change \/ ProcessEnds
    \/ Damage \/ NewerAppRuns

Spec == Init /\ [][Next]_vars

-----------------------------------------------------------------------------
(* Every variable stays within its type; what is about to be renamed onto   *)
(* vault-state.json is the whole state in memory.                           *)
TypeOK ==
    /\ target \in File /\ backup \in File /\ tmp \in File
    /\ corrupt \subseteq File
    /\ pc \in PCs /\ booted \in BOOLEAN
    /\ pc = "replace" => tmp = Holds(mem)
    /\ mem \in Nat /\ newest \in Nat /\ reported \in Nat /\ damage \in Nat
    /\ failed \in BOOLEAN /\ misread \subseteq {"missing", "damaged"}

(* However the process ends, vault-state.json is whole whenever it exists   *)
(* (persist_state writes aside and renames); with nothing else touching it. *)
TargetNeverTorn == damage = 0 => target.status \in {"absent", "ok"}

(* The files implement DurableState: what the next start loads only moves   *)
(* forward, and never falls behind what was reported as saved, until        *)
(* something else writes the file or a start fails to read a good one.      *)
Durable == INSTANCE DurableState WITH
    durable <- target.version, touched <- damage > 0 \/ misread # {}
DurableSpec == Durable!Spec

(* After the file was damaged the application starts again, once a second   *)
(* save has made a backup (CHANGELOG.md: backup recovery), unless a newer   *)
(* release has written it, a save was cut short, or it was damaged twice:   *)
(* the save after a damage copies the damaged file over the backup.         *)
StartsAgain ==
    pc = "down" /\ backup \notin {Absent, Newer} /\ ~ failed /\ damage <= 1 =>
        ~ Exists(target) \/ Readable(target) \/ Readable(backup)

UsesBackup == pc = "down" /\ pc' # "down" /\ Readable(backup) => mem' >= backup.version

(* A start never comes up with less than a readable backup holds            *)
(* (CHANGELOG.md: backup recovery), ...                                     *)
StartUsesBackup == [][UsesBackup]_vars

(* ... as long as no call failed and nothing was cut short.                 *)
RecoveryUsesBackup == [][~ failed' => UsesBackup]_vars

NewerKept == Newer \in {target, backup} \cup corrupt

(* What a newer release wrote is kept: in place when load_state gives up,   *)
(* under a corrupt-<time> name when it recovers from the backup; lost only  *)
(* by a start that the file system told there was no file.                  *)
KeepsNewerFile == [][NewerKept => NewerKept' \/ "missing" \in misread]_vars
=============================================================================
