----------------------------- MODULE VaultIndex -----------------------------
(***************************************************************************)
(* The local vault of the desktop application (lib.rs): the files on disk,  *)
(* and the items that index them.  import_paths and rescan_vault take a     *)
(* picture of the index under the lock, work on the disk for as long as     *)
(* they need without it, and add what they found under the lock again.      *)
(* Two of them may run at a time: a drop on the window and the rescan       *)
(* button wait for no command (App.tsx).                                    *)
(*                                                                         *)
(* A vault path is a file name and the number unique_target put behind it.  *)
(* Import records it joined to the vault path; rescan records what          *)
(* fs::canonicalize returns, which on Windows is spelled with a \\?\ prefix.*)
(* A content stands for its SHA-256.  An id that nothing holds any more is  *)
(* as good as a new UUID, so a small set of them is enough.                 *)
(*                                                                         *)
(* The syncs of items to Telegram and Drive are in ItemSync; what matters   *)
(* here is that each records the SHA-256 of the snapshot it took, as that   *)
(* of the item, under the lock but some time after reading the file.        *)
(***************************************************************************)
EXTENDS Naturals, FiniteSets

CONSTANTS
    Tasks,        \* import_paths and rescan_vault calls at a time (bound)
    Ids,          \* item ids in use at a time (bound)
    MaxSyncs,     \* snapshots not recorded and items rewritten at a time (bound)
    Names,        \* file names, each of one category
    Contents,     \* what the files chosen for import hold
    MaxIndex,     \* numbers unique_target tries (bound)
    MaxSources,   \* files chosen in one import (bound)
    Verbatim,     \* whether fs::canonicalize spells paths differently
    Failures,     \* what happens besides commands that succeed
    Torn,         \* a file the process did not finish copying
    Nil

AllFailures ==
    {"crash",      \* the process ends
     "save",       \* persist_state fails
     "saves",      \* it fails again before it has succeeded
     "io",         \* a file cannot be copied or removed
     "unreadable", \* a file cannot be read
     "source",     \* a chosen file changes while it is imported
     "write",      \* the user adds or changes vault files
     "remove",     \* the user removes vault files
     "meanwhile"}  \* the user does so while a command runs

ASSUME FailuresAssumption == Failures \subseteq AllFailures
ASSUME BoundsAssumption ==
    MaxIndex \in Nat /\ MaxSources \in Nat /\ MaxSyncs \in Nat /\ IsFiniteSet(Ids)
ASSUME NilAssumption == Torn \notin Contents /\ Nil \notin Contents \cup {Torn}

VARIABLES
    files,    \* the content at each vault path, or Nil
    items,    \* the items in memory
    saved,    \* the items in vault-state.json
    task,     \* the commands
    syncs,    \* the snapshots that syncs have taken and not recorded yet
    touched   \* the paths of which the user or a lost deletion took the file

vars == <<files, items, saved, task, syncs, touched>>

Path == [name: Names, index: 0 .. MaxIndex]
Spellings == {"joined", "verbatim"}
Stored == Contents \cup {Torn}

(* An item, and whether a sync has changed its checksum (history).          *)
Item == [id: Ids, path: Path, spelling: Spellings, checksum: Stored,
         rewritten: BOOLEAN]
Snapshot == [id: Ids, content: Stored]
Source == [name: Names, content: Contents]

Steps == {"idle", "next", "copy", "verify",      \* import_files
          "collect", "scan"}                     \* index_vault_files

Task == [step: Steps, known: SUBSET Stored,
         sources: SUBSET Source, source: Source \cup {Nil},
         target: Path \cup {Nil},
         paths: SUBSET (Path \X Spellings), todo: SUBSET Path,
         found: SUBSET Item]

IdleTask ==
    [step |-> "idle", known |-> {}, sources |-> {}, source |-> Nil,
     target |-> Nil, paths |-> {}, todo |-> {}, found |-> {}]

Init ==
    /\ files = [p \in Path |-> Nil]
    /\ items = {}
    /\ saved = {}
    /\ task = [t \in Tasks |-> IdleTask]
    /\ syncs = {}
    /\ touched = {}

Exists(p) == files[p] # Nil
Checksums(s) == {i.checksum : i \in s}

SaveFails ==
    /\ "save" \in Failures
    /\ saved = items \/ "saves" \in Failures
    /\ saved' = saved

Persist == saved' = items' \/ SaveFails

(* Uuid::new_v4.                                                            *)
FreshIds ==
    LET held == items \cup saved \cup syncs \cup UNION {task[t].found : t \in Tasks}
    IN  Ids \ {h.id : h \in held}

Quiet == \A t \in Tasks : task[t].step = "idle"

-----------------------------------------------------------------------------
(* import_paths.                                                            *)

BeginImport(t) ==
    /\ task[t].step = "idle"
    /\ \E chosen \in SUBSET Source :
          /\ Cardinality(chosen) \in 1 .. MaxSources
          /\ task' = [task EXCEPT ![t] = [IdleTask EXCEPT
                         !.step = "next", !.sources = chosen,
                         !.known = Checksums(items)]]
    /\ UNCHANGED <<files, items, saved, syncs, touched>>

Done(k, s) == [k EXCEPT !.step = "next", !.sources = @ \ {s},
                        !.source = Nil, !.target = Nil]

SkipSource(t) ==
    /\ task[t].step = "next"
    /\ \E s \in task[t].sources :
          /\ s.content \in task[t].known \/ "unreadable" \in Failures
          /\ task' = [task EXCEPT ![t] = Done(@, s)]
    /\ UNCHANGED <<files, items, saved, syncs, touched>>

(* The path of least index that does not exist.                             *)
UniqueTarget(name) ==
    {p \in Path : /\ p.name = name /\ ~ Exists(p)
                  /\ \A q \in Path : q.name = name /\ q.index < p.index => Exists(q)}

ChooseTarget(t) ==
    /\ task[t].step = "next"
    /\ \E s \in task[t].sources :
          /\ s.content \notin task[t].known
          /\ \E p \in UniqueTarget(s.name) :
                task' = [task EXCEPT ![t].step = "copy", ![t].source = s,
                                     ![t].target = p]
    /\ UNCHANGED <<files, items, saved, syncs, touched>>

(* fs::copy replaces what has come to be at the target since; one that fails*)
(* may leave a part of the file there.                                      *)
CopyFile(t) ==
    /\ task[t].step = "copy"
    /\ \/ \E c \in Contents :
             /\ c = task[t].source.content \/ "source" \in Failures
             /\ files' = [files EXCEPT ![task[t].target] = c]
             /\ task' = [task EXCEPT ![t].step = "verify"]
       \/ /\ "io" \in Failures
          /\ \/ files' = [files EXCEPT ![task[t].target] = Torn]
             \/ UNCHANGED files
          /\ task' = [task EXCEPT ![t] = Done(@, @.source)]
    /\ UNCHANGED <<items, saved, syncs, touched>>

Copied(t) == files[task[t].target] = task[t].source.content

ItemAt(id, p, spelling, checksum) ==
    [id |-> id, path |-> p, spelling |-> spelling, checksum |-> checksum,
     rewritten |-> FALSE]

Found(k, i) == [k EXCEPT !.known = @ \cup {i.checksum}, !.found = @ \cup {i}]

(* Mutant: the copy is not compared with what was read from the source.     *)
KeepCopyUnverified(t) ==
    /\ task[t].step = "verify"
    /\ \E id \in FreshIds :
          task' = [task EXCEPT ![t] =
                     Done(Found(@, ItemAt(id, @.target, "joined", @.source.content)),
                          @.source)]
    /\ UNCHANGED <<files, items, saved, syncs, touched>>

KeepCopy(t) ==
    /\ task[t].step = "verify"
    /\ Copied(t)
    /\ \E id \in FreshIds :
          task' = [task EXCEPT ![t] =
                     Done(Found(@, ItemAt(id, @.target, "joined", @.source.content)),
                          @.source)]
    /\ UNCHANGED <<files, items, saved, syncs, touched>>

DropCopy(t) ==
    /\ task[t].step = "verify"
    /\ ~ Copied(t) \/ "io" \in Failures
    /\ \/ files' = [files EXCEPT ![task[t].target] = Nil]
       \/ "io" \in Failures /\ UNCHANGED files
    /\ task' = [task EXCEPT ![t] = Done(@, @.source)]
    /\ UNCHANGED <<items, saved, syncs, touched>>

(* The second locked section of both commands.                              *)
AddFound(t) ==
    /\ items' = items \cup task[t].found
    /\ Persist
    /\ task' = [task EXCEPT ![t] = IdleTask]
    /\ UNCHANGED <<files, syncs, touched>>

FinishImport(t) ==
    /\ task[t].step = "next"
    /\ task[t].sources = {}
    /\ AddFound(t)

-----------------------------------------------------------------------------
(* rescan_vault.                                                            *)

BeginRescan(t) ==
    /\ task[t].step = "idle"
    /\ task' = [task EXCEPT ![t] = [IdleTask EXCEPT
                   !.step = "collect",
                   !.known = Checksums(items),
                   !.paths = {<<i.path, i.spelling>> : i \in items}]]
    /\ UNCHANGED <<files, items, saved, syncs, touched>>

CollectFiles(t) ==
    /\ task[t].step = "collect"
    /\ task' = [task EXCEPT ![t].step = "scan",
                            ![t].todo = {p \in Path : Exists(p)}]
    /\ UNCHANGED <<files, items, saved, syncs, touched>>

Canonical == IF Verbatim THEN "verbatim" ELSE "joined"

Indexed(t, p) == <<p, Canonical>> \in task[t].paths

Scanned(k, p) == [k EXCEPT !.todo = @ \ {p}]

(* Mutant: a file is known by its name, whatever its path.                  *)
SkipFileByName(t) ==
    /\ task[t].step = "scan"
    /\ \E p \in task[t].todo :
          /\ \/ \E i \in task[t].paths : i[1].name = p.name
             \/ ~ Exists(p)
             \/ files[p] \in task[t].known
          /\ task' = [task EXCEPT ![t] = Scanned(@, p)]
    /\ UNCHANGED <<files, items, saved, syncs, touched>>

SkipFile(t) ==
    /\ task[t].step = "scan"
    /\ \E p \in task[t].todo :
          /\ Indexed(t, p) \/ ~ Exists(p) \/ files[p] \in task[t].known
                \/ "unreadable" \in Failures
          /\ task' = [task EXCEPT ![t] = Scanned(@, p)]
    /\ UNCHANGED <<files, items, saved, syncs, touched>>

(* Mutant: what was found in this scan does not become known.               *)
IndexFileForgetful(t) ==
    /\ task[t].step = "scan"
    /\ \E p \in task[t].todo :
          /\ ~ Indexed(t, p)
          /\ Exists(p)
          /\ files[p] \notin task[t].known
          /\ \E id \in FreshIds :
                task' = [task EXCEPT ![t] = Scanned([@ EXCEPT
                   !.found = @ \cup {ItemAt(id, p, Canonical, files[p])}], p)]
    /\ UNCHANGED <<files, items, saved, syncs, touched>>

IndexFile(t) ==
    /\ task[t].step = "scan"
    /\ \E p \in task[t].todo :
          /\ ~ Indexed(t, p)
          /\ Exists(p)
          /\ files[p] \notin task[t].known
          /\ \E id \in FreshIds :
                task' = [task EXCEPT ![t] =
                   Scanned(Found(@, ItemAt(id, p, Canonical, files[p])), p)]
    /\ UNCHANGED <<files, items, saved, syncs, touched>>

FinishRescan(t) ==
    /\ task[t].step = "scan"
    /\ task[t].todo = {}
    /\ AddFound(t)

-----------------------------------------------------------------------------
(* delete_item holds the lock throughout: only a command's work on the disk *)
(* can come between.                                                        *)

(* Mutant: an error of remove_file is ignored.                              *)
DeleteItemAnyway(i) ==
    /\ i \in items
    /\ files' = [files EXCEPT ![i.path] = Nil] \/ UNCHANGED files
    /\ items' = items \ {i}
    /\ Persist
    /\ touched' = touched \cup {i.path}
    /\ UNCHANGED <<task, syncs>>

DeleteItem(i) ==
    /\ i \in items
    /\ files' = [files EXCEPT ![i.path] = Nil]
    /\ items' = items \ {i}
    /\ Persist
    /\ touched' = IF saved' = items' THEN touched ELSE touched \cup {i.path}
    /\ UNCHANGED <<task, syncs>>

-----------------------------------------------------------------------------
(* sync_item_telegram and sync_item_google_drive: the file is read without  *)
(* the lock, and its SHA-256 becomes the item's under the lock, whatever    *)
(* has come between.                                                        *)
TakeSnapshot(i) ==
    /\ i \in items
    /\ Exists(i.path)
    /\ Cardinality(syncs) + Cardinality({j \in items \cup saved : j.rewritten}) < MaxSyncs
    /\ syncs' = syncs \cup {[id |-> i.id, content |-> files[i.path]]}
    /\ UNCHANGED <<files, items, saved, task, touched>>

Rewrite(i, s) ==
    IF i.id = s.id /\ i.checksum # s.content
    THEN [i EXCEPT !.checksum = s.content, !.rewritten = TRUE] ELSE i

RecordSnapshot(s) ==
    /\ s \in syncs
    /\ \E i \in items : i.id = s.id
    /\ items' = {Rewrite(i, s) : i \in items}
    /\ Persist
    /\ syncs' = syncs \ {s}
    /\ UNCHANGED <<files, task, touched>>

(* The item is gone or is in Drive already, or no account takes the file.   *)
DropSnapshot(s) ==
    /\ s \in syncs
    /\ syncs' = syncs \ {s}
    /\ UNCHANGED <<files, items, saved, task, touched>>

-----------------------------------------------------------------------------

(* A process that ends leaves the copies it was making, and starts with what*)
(* was saved.                                                               *)
Ends(removed) ==
    /\ "crash" \in Failures
    /\ \E torn \in SUBSET {task[t].target : t \in {u \in Tasks : task[u].step = "copy"}} :
          files' = [p \in Path |-> CASE p \in torn -> Torn
                                     [] p \in removed -> Nil
                                     [] OTHER -> files[p]]
    /\ items' = saved
    /\ task' = [t \in Tasks |-> IdleTask]
    /\ syncs' = {}
    /\ touched' = touched \cup removed
    /\ UNCHANGED saved

Crash == Ends({})

(* The process ends in delete_item, after remove_file.                      *)
CrashInDelete(i) == i \in items /\ Ends({i.path})

(* The user at work in the vault folder, which open_vault shows.            *)
UserActs(p) ==
    /\ Quiet \/ "meanwhile" \in Failures
    /\ touched' = touched \cup {p}
    /\ UNCHANGED <<items, saved, task, syncs>>

UserWritesFile(p, c) ==
    /\ "write" \in Failures
    /\ files' = [files EXCEPT ![p] = c]
    /\ UserActs(p)

UserRemovesFile(p) ==
    /\ "remove" \in Failures
    /\ files' = [files EXCEPT ![p] = Nil]
    /\ UserActs(p)

-----------------------------------------------------------------------------
ImportStep(t) ==
    \/ BeginImport(t) \/ SkipSource(t) \/ ChooseTarget(t) \/ CopyFile(t)
    \/ KeepCopy(t) \/ DropCopy(t) \/ FinishImport(t)

RescanStep(t) ==
    \/ BeginRescan(t) \/ CollectFiles(t) \/ SkipFile(t) \/ IndexFile(t)
    \/ FinishRescan(t)

Next ==
    \/ \E t \in Tasks : ImportStep(t) \/ RescanStep(t)
    \/ \E i \in items : DeleteItem(i) \/ CrashInDelete(i) \/ TakeSnapshot(i)
    \/ \E s \in syncs : RecordSnapshot(s) \/ DropSnapshot(s)
    \/ Crash
    \/ \E p \in Path : UserRemovesFile(p) \/ \E c \in Contents : UserWritesFile(p, c)

Spec == Init /\ [][Next]_vars

-----------------------------------------------------------------------------
TypeOK ==
    /\ files \in [Path -> Stored \cup {Nil}]
    /\ items \subseteq Item
    /\ saved \subseteq Item
    /\ task \in [Tasks -> Task]
    /\ syncs \subseteq Snapshot
    /\ touched \subseteq Path

(* Imports and rescans never give two items the same SHA-256 (README.md:    *)
(* local vault with SHA-256 duplicate detection), whatever syncs record     *)
(* meanwhile; only an item a sync has given another SHA-256, its file having*)
(* been changed, may come to share one.                                     *)
NoDuplicates ==
    \A i, j \in items :
        i.checksum = j.checksum => i = j \/ i.rewritten \/ j.rewritten

(* An item's file holds exactly the bytes whose SHA-256 the item records,   *)
(* unless the user wrote or removed it or its deletion was not saved: no    *)
(* import, rescan, sync, deletion of another item or restart touches it.    *)
IntactItems ==
    \A i \in items : i.path \notin touched => files[i.path] = i.checksum

(* Commands that finish after each other keep each other's items: an item   *)
(* leaves the index only when its file goes or the application restarts.    *)
NoLostItems ==
    [][\A i \in items :
          \/ \E j \in items' : j.id = i.id
          \/ ~ Exists(i.path)'
          \/ items' = saved]_vars

(* After a rescan every file of the vault is in the index, by its path or by*)
(* its content, or its content was in the index when the rescan began.      *)
RescanCovers ==
    [][\A t \in Tasks : FinishRescan(t) =>
          \A p \in Path : Exists(p) =>
             \/ \E i \in items' : i.path = p
             \/ files[p] \in Checksums(items')
                                \cup (task[t].known \ Checksums(task[t].found))]_vars
=============================================================================
