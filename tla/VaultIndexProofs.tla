-------------------------- MODULE VaultIndexProofs --------------------------
(***************************************************************************)
(* While one import or rescan runs at a time, no SHA-256 is indexed twice   *)
(* and every item's file keeps its bytes: for any number of names, contents,*)
(* chosen files and failures; and a rescan leaves no file out.              *)
(***************************************************************************)
EXTENDS VaultIndex, TLAPS

LEMMA IdleType == IdleTask \in Task
  BY DEF IdleTask, Task, Steps

(* A task that copies has a source and a target.                            *)
HoldsSource(t) ==
  task[t].step \in {"copy", "verify"} =>
    task[t].source \in Source /\ task[t].target \in Path

TypeInv ==
  /\ TypeOK
  /\ \A t \in Tasks : HoldsSource(t)

LEMMA TypeInit == Init => TypeInv
  BY IdleType DEF Init, TypeInv, TypeOK, HoldsSource, IdleTask, Task

(* What one task's new value must satisfy to keep the types of all tasks.   *)
Fits(k) ==
  /\ k \in Task
  /\ k.step \in {"copy", "verify"} => k.source \in Source /\ k.target \in Path

TasksOK == task \in [Tasks -> Task] /\ \A t \in Tasks : HoldsSource(t)

LEMMA SetTask ==
  ASSUME TypeInv, NEW t \in Tasks, NEW k, Fits(k),
         task' = [task EXCEPT ![t] = k]
  PROVE  TasksOK'
  BY DEF TypeInv, TypeOK, TasksOK, Fits, HoldsSource

LEMMA IdleFits == Fits(IdleTask)
  BY IdleType DEF Fits, IdleTask

LEMMA DoneFits ==
  ASSUME NEW k \in Task, NEW s
  PROVE  Done(k, s) \in Task /\ Fits(Done(k, s))
  BY DEF Done, Task, Steps, Fits

LEMMA FoundFits ==
  ASSUME NEW k \in Task, NEW i \in Item
  PROVE  Found(k, i) \in Task /\ Found(k, i).step = k.step
  BY DEF Found, Task, Item

LEMMA ScannedFits ==
  ASSUME NEW k \in Task, k.step = "scan", NEW p
  PROVE  Fits(Scanned(k, p))
  BY DEF Scanned, Fits, Task, Steps

LEMMA ItemType ==
  ASSUME NEW id \in FreshIds, NEW p \in Path, NEW sp \in Spellings, NEW c \in Stored
  PROVE  ItemAt(id, p, sp, c) \in Item
  BY DEF ItemAt, Item, FreshIds

LEMMA SnapshotType ==
  ASSUME NEW i \in Item, NEW c \in Stored
  PROVE  [id |-> i.id, content |-> c] \in Snapshot
  BY DEF Item, Snapshot

LEMMA RewriteType ==
  ASSUME NEW i \in Item, NEW s \in Snapshot
  PROVE  /\ Rewrite(i, s) \in Item
         /\ Rewrite(i, s).id = i.id /\ Rewrite(i, s).path = i.path
         /\ Rewrite(i, s) = i
              \/ (i.id = s.id /\ i.checksum # s.content /\ Rewrite(i, s).rewritten)
  BY DEF Rewrite, Item, Snapshot

\* A task that moves on keeps the fields the step does not set.
LEMMA Targeted ==
  ASSUME NEW k \in Task, NEW s \in Source, NEW p \in Path
  PROVE  Fits([k EXCEPT !.step = "copy", !.source = s, !.target = p])
  BY DEF Fits, Task, Steps

LEMMA CopyEnds ==
  ASSUME NEW k \in Task, k.source \in Source, k.target \in Path,
         NEW r, r = [k EXCEPT !.step = "verify"]
  PROVE  Fits(r)
  <1>1. r \in Task
    BY DEF Task, Steps
  <1>2. r.source = k.source /\ r.target = k.target
    BY DEF Task
  <1> QED
    BY <1>1, <1>2 DEF Fits

LEMMA Collected ==
  ASSUME NEW k \in Task, NEW S \in SUBSET Path
  PROVE  Fits([k EXCEPT !.step = "scan", !.todo = S])
  BY DEF Fits, Task, Steps

LEMMA ChecksumsType ==
  ASSUME NEW s \in SUBSET Item
  PROVE  Checksums(s) \subseteq Stored
  BY DEF Checksums, Item

LEMMA TypeStep == TypeInv /\ [Next]_vars => TypeInv'
  <1> SUFFICES ASSUME TypeInv, [Next]_vars PROVE TypeInv'
    OBVIOUS
  <1>0. /\ files' \in [Path -> Stored \cup {Nil}]
        /\ items' \subseteq Item /\ saved' \subseteq Item
        /\ touched' \subseteq Path /\ TasksOK' /\ syncs' \subseteq Snapshot
        => TypeInv'
    BY DEF TypeInv, TypeOK, TasksOK, HoldsSource
  <1>a. /\ files \in [Path -> Stored \cup {Nil}]
        /\ items \subseteq Item /\ saved \subseteq Item
        /\ touched \subseteq Path /\ syncs \subseteq Snapshot
        /\ task \in [Tasks -> Task] /\ TasksOK
    BY DEF TypeInv, TypeOK, TasksOK
  <1>b. Checksums(items) \subseteq Stored
    BY <1>a, ChecksumsType
  <1>1. ASSUME NEW t \in Tasks, BeginImport(t) PROVE TypeInv'
    <2>1. PICK chosen \in SUBSET Source :
            task' = [task EXCEPT ![t] = [IdleTask EXCEPT
                       !.step = "next", !.sources = chosen,
                       !.known = Checksums(items)]]
      BY <1>1 DEF BeginImport
    <2>2. Fits([IdleTask EXCEPT !.step = "next", !.sources = chosen,
                                !.known = Checksums(items)])
      BY <1>b DEF Fits, IdleTask, Task, Steps
    <2> QED
      BY <2>1, <2>2, <1>0, <1>1, <1>a, SetTask DEF BeginImport
  <1>2. ASSUME NEW t \in Tasks, SkipSource(t) PROVE TypeInv'
    BY <1>0, <1>2, <1>a, SetTask, DoneFits DEF SkipSource
  <1>3. ASSUME NEW t \in Tasks, ChooseTarget(t) PROVE TypeInv'
    <2>1. PICK s \in task[t].sources :
            \E p \in UniqueTarget(s.name) :
              task' = [task EXCEPT ![t].step = "copy", ![t].source = s,
                                   ![t].target = p]
      BY <1>3 DEF ChooseTarget
    <2>2. PICK p \in UniqueTarget(s.name) :
            task' = [task EXCEPT ![t].step = "copy", ![t].source = s,
                                 ![t].target = p]
      BY <2>1
    <2>3. s \in Source /\ p \in Path
      BY <1>a DEF Task, UniqueTarget
    <2>4. Fits([task[t] EXCEPT !.step = "copy", !.source = s, !.target = p])
      BY <1>a, <2>3, Targeted
    <2>5. task' = [task EXCEPT ![t] =
                     [task[t] EXCEPT !.step = "copy", !.source = s, !.target = p]]
      BY <2>2, <1>a
    <2> QED
      BY <2>4, <2>5, <1>0, <1>3, <1>a, SetTask DEF ChooseTarget
  <1>4. ASSUME NEW t \in Tasks, CopyFile(t) PROVE TypeInv'
    <2>1. ASSUME NEW c \in Contents,
                 files' = [files EXCEPT ![task[t].target] = c],
                 task' = [task EXCEPT ![t].step = "verify"]
          PROVE  TypeInv'
      <3>1. Fits([task[t] EXCEPT !.step = "verify"])
        <4>1. task[t] \in Task /\ task[t].step = "copy" /\ HoldsSource(t)
          BY <1>4, <1>a DEF CopyFile, TasksOK
        <4> QED
          BY <4>1, CopyEnds DEF HoldsSource
      <3>2. TasksOK'
        BY <2>1, <3>1, <1>a, SetTask
      <3>3. files' \in [Path -> Stored \cup {Nil}]
        BY <2>1, <1>a DEF Stored
      <3> QED
        BY <3>2, <3>3, <1>0, <1>4, <1>a DEF CopyFile
    <2>2. CASE task' = [task EXCEPT ![t] = Done(@, @.source)]
      <3>1. files' \in [Path -> Stored \cup {Nil}]
        BY <1>4, <1>a DEF CopyFile, Stored
      <3> QED
        BY <2>2, <3>1, <1>0, <1>4, <1>a, SetTask, DoneFits DEF CopyFile
    <2> QED
      BY <2>1, <2>2, <1>4 DEF CopyFile
  <1>5. ASSUME NEW t \in Tasks, KeepCopy(t) PROVE TypeInv'
    <2>0. PICK id \in FreshIds :
            task' = [task EXCEPT ![t] = Done(Found(task[t],
                       ItemAt(id, task[t].target, "joined", task[t].source.content)),
                       task[t].source)]
      BY <1>5, <1>a DEF KeepCopy
    <2> DEFINE i == ItemAt(id, task[t].target, "joined", task[t].source.content)
    <2>1. i \in Item
      BY <1>5, <1>a, ItemType
      DEF KeepCopy, TasksOK, HoldsSource, Source, Stored, Spellings
    <2>2. Fits(Done(Found(task[t], i), task[t].source))
      BY <2>1, <1>a, FoundFits, DoneFits
    <2>3. task' = [task EXCEPT ![t] = Done(Found(task[t], i), task[t].source)]
      BY <2>0
    <2> QED
      BY <2>2, <2>3, <1>0, <1>5, <1>a, SetTask DEF KeepCopy
  <1>6. ASSUME NEW t \in Tasks, DropCopy(t) PROVE TypeInv'
    <2>1. files' \in [Path -> Stored \cup {Nil}]
      BY <1>6, <1>a DEF DropCopy
    <2> QED
      BY <2>1, <1>0, <1>6, <1>a, SetTask, DoneFits DEF DropCopy
  <1>c. ASSUME NEW t \in Tasks, AddFound(t) PROVE TypeInv'
    <2>1. items' \subseteq Item
      BY <1>c, <1>a DEF AddFound, Task
    <2> QED
      BY <2>1, <1>0, <1>c, <1>a, SetTask, IdleFits DEF AddFound, Persist, SaveFails
  <1>7. ASSUME NEW t \in Tasks, FinishImport(t) PROVE TypeInv'
    BY <1>7, <1>c DEF FinishImport
  <1>8. ASSUME NEW t \in Tasks, BeginRescan(t) PROVE TypeInv'
    <2> DEFINE k == [IdleTask EXCEPT !.step = "collect", !.known = Checksums(items),
                       !.paths = {<<i.path, i.spelling>> : i \in items}]
    <2>1. {<<i.path, i.spelling>> : i \in items} \in SUBSET (Path \X Spellings)
      BY <1>a DEF Item
    <2>2. Fits(k)
      BY <2>1, <1>b DEF Fits, IdleTask, Task, Steps
    <2> QED
      BY <2>2, <1>0, <1>8, <1>a, SetTask DEF BeginRescan
  <1>9. ASSUME NEW t \in Tasks, CollectFiles(t) PROVE TypeInv'
    <2> DEFINE k == [task[t] EXCEPT !.step = "scan", !.todo = {p \in Path : Exists(p)}]
    <2>1. Fits(k)
      BY <1>a, Collected
    <2>2. task' = [task EXCEPT ![t] = k]
      BY <1>9, <1>a DEF CollectFiles
    <2> QED
      BY <2>1, <2>2, <1>0, <1>9, <1>a, SetTask DEF CollectFiles
  <1>10. ASSUME NEW t \in Tasks, SkipFile(t) PROVE TypeInv'
    <2>1. PICK p : task' = [task EXCEPT ![t] = Scanned(@, p)]
      BY <1>10 DEF SkipFile
    <2>2. Fits(Scanned(task[t], p))
      BY <1>10, <1>a, ScannedFits DEF SkipFile
    <2> QED
      BY <2>1, <2>2, <1>0, <1>10, <1>a, SetTask DEF SkipFile
  <1>11. ASSUME NEW t \in Tasks, IndexFile(t) PROVE TypeInv'
    <2>1. PICK p \in task[t].todo :
            /\ Exists(p)
            /\ \E id \in FreshIds :
               task' = [task EXCEPT ![t] =
                  Scanned(Found(@, ItemAt(id, p, Canonical, files[p])), p)]
      BY <1>11 DEF IndexFile
    <2>0. PICK id \in FreshIds :
            task' = [task EXCEPT ![t] =
                  Scanned(Found(@, ItemAt(id, p, Canonical, files[p])), p)]
      BY <2>1
    <2>2. p \in Path /\ files[p] \in Stored
      BY <2>1, <1>a DEF Task, Exists
    <2>3. ItemAt(id, p, Canonical, files[p]) \in Item
      BY <2>2, ItemType DEF Canonical, Spellings
    <2>4. /\ Found(task[t], ItemAt(id, p, Canonical, files[p])) \in Task
          /\ Found(task[t], ItemAt(id, p, Canonical, files[p])).step = "scan"
      BY <1>11, <2>3, <1>a, FoundFits DEF IndexFile
    <2>5. Fits(Scanned(Found(task[t], ItemAt(id, p, Canonical, files[p])), p))
      BY <2>4, ScannedFits
    <2> QED
      BY <2>0, <2>5, <1>0, <1>11, <1>a, SetTask DEF IndexFile
  <1>12. ASSUME NEW t \in Tasks, FinishRescan(t) PROVE TypeInv'
    BY <1>12, <1>c DEF FinishRescan
  <1>13. ASSUME NEW i \in items, DeleteItem(i) PROVE TypeInv'
    <2>1. files' \in [Path -> Stored \cup {Nil}] /\ items' \subseteq Item
      BY <1>13, <1>a DEF DeleteItem
    <2>2. touched' \subseteq Path
      BY <1>13, <1>a DEF DeleteItem, Item
    <2> QED
      BY <2>1, <2>2, <1>0, <1>13, <1>a
      DEF DeleteItem, Persist, SaveFails, TasksOK, HoldsSource
  <1>d. ASSUME NEW removed \in SUBSET Path, Ends(removed) PROVE TypeInv'
    <2>1. files' \in [Path -> Stored \cup {Nil}]
      BY <1>d, <1>a DEF Ends, Stored
    <2>2. TasksOK'
      BY <1>d, IdleFits DEF Ends, Fits, TasksOK, HoldsSource
    <2> QED
      BY <2>1, <2>2, <1>0, <1>d, <1>a DEF Ends
  <1>14. ASSUME NEW i \in items, CrashInDelete(i) PROVE TypeInv'
    BY <1>14, <1>d, <1>a DEF CrashInDelete, Item
  <1>15. CASE Crash
    BY <1>15, <1>d DEF Crash
  <1>16. ASSUME NEW p \in Path, UserRemovesFile(p) PROVE TypeInv'
    BY <1>16, <1>0, <1>a DEF UserRemovesFile, UserActs, TasksOK, HoldsSource
  <1>17. ASSUME NEW p \in Path, NEW c \in Contents, UserWritesFile(p, c) PROVE TypeInv'
    BY <1>17, <1>0, <1>a DEF UserWritesFile, UserActs, TasksOK, HoldsSource, Stored
  <1>18. ASSUME NEW i \in items, TakeSnapshot(i) PROVE TypeInv'
    <2>1. files[i.path] \in Stored
      BY <1>18, <1>a DEF TakeSnapshot, Exists, Item
    <2> QED
      BY <2>1, <1>0, <1>18, <1>a, SnapshotType DEF TakeSnapshot, TasksOK, HoldsSource
  <1>19. ASSUME NEW s \in syncs, RecordSnapshot(s) PROVE TypeInv'
    <2>1. items' \subseteq Item
      BY <1>19, <1>a, RewriteType DEF RecordSnapshot
    <2> QED
      BY <2>1, <1>0, <1>19, <1>a
      DEF RecordSnapshot, Persist, SaveFails, TasksOK, HoldsSource
  <1>20. ASSUME NEW s \in syncs, DropSnapshot(s) PROVE TypeInv'
    BY <1>20, <1>0, <1>a DEF DropSnapshot, TasksOK, HoldsSource
  <1>21. CASE UNCHANGED vars
    BY <1>21, <1>0, <1>a DEF vars, TasksOK, HoldsSource
  <1> QED
    BY <1>1, <1>2, <1>3, <1>4, <1>5, <1>6, <1>7, <1>8, <1>9, <1>10, <1>11,
       <1>12, <1>13, <1>14, <1>15, <1>16, <1>17, <1>18, <1>19, <1>20, <1>21
    DEF Next, ImportStep, RescanStep

LEMMA TypeInvariant == Spec => []TypeInv
  BY TypeInit, TypeStep, PTL DEF Spec

(* Every picture a command takes of the index, and every item it finds, is  *)
(* made of paths and contents the vault can hold (lib.rs, import_files and  *)
(* index_vault_files).                                                      *)
THEOREM TypeCorrect == Spec => []TypeOK
  BY TypeInvariant, PTL DEF TypeInv

-----------------------------------------------------------------------------
(* No SHA-256 is indexed twice, items rewritten by a sync aside.  What a    *)
(* command has found is distinct from the index and within itself, because  *)
(* it all is known to the command.                                          *)
OneCommand == \A t, u \in Tasks : t = u

Distinct(s) ==
  \A i, j \in s : i.checksum = j.checksum => i = j \/ i.rewritten \/ j.rewritten

Clean(k, list) ==
  /\ Distinct(k.found)
  /\ \A j \in k.found : ~ j.rewritten
  /\ \A i \in list, j \in k.found : i.rewritten \/ i.checksum # j.checksum
  /\ k.step = "idle" => k.found = {}
  /\ k.step # "idle" =>
       /\ \A i \in list : i.rewritten \/ i.checksum \in k.known
       /\ Checksums(k.found) \subseteq k.known
  /\ k.step \in {"copy", "verify"} => k.source.content \notin k.known

DistinctInv ==
  /\ Distinct(items)
  /\ Distinct(saved)
  /\ \A t \in Tasks : Clean(task[t], items)

LEMMA CleanIdle == ASSUME NEW list PROVE Clean(IdleTask, list)
  BY DEF Clean, IdleTask, Distinct

(* A command that moves on with nothing new, or with one item it did not    *)
(* know, stays clean.                                                       *)
LEMMA CleanOn ==
  ASSUME NEW k, NEW list, Clean(k, list), k.step # "idle",
         NEW n, n.found = k.found, n.known = k.known,
         n.step \notin {"idle", "copy", "verify"}
  PROVE  Clean(n, list)
  BY DEF Clean

LEMMA CleanFound ==
  ASSUME NEW k \in Task, NEW list, Clean(k, list), k.step # "idle",
         NEW i \in Item, i.checksum \notin k.known, ~ i.rewritten,
         NEW n, n.found = k.found \cup {i}, n.known = k.known \cup {i.checksum},
         n.step \notin {"idle", "copy", "verify"}
  PROVE  Clean(n, list)
  BY DEF Clean, Distinct, Checksums

LEMMA CleanDone ==
  ASSUME NEW k \in Task, NEW list, Clean(k, list), k.step # "idle", NEW s
  PROVE  Clean(Done(k, s), list)
  <1>1. /\ Done(k, s).found = k.found /\ Done(k, s).known = k.known
        /\ Done(k, s).step = "next"
    BY DEF Done, Task
  <1> QED
    BY <1>1, CleanOn

LEMMA DistinctInit == Init => DistinctInv
  BY CleanIdle DEF Init, DistinctInv, Distinct

LEMMA SetClean ==
  ASSUME TypeInv, OneCommand, DistinctInv, NEW t \in Tasks, NEW k, Clean(k, items),
         task' = [task EXCEPT ![t] = k], UNCHANGED <<items, saved>>
  PROVE  DistinctInv'
  BY DEF TypeInv, TypeOK, OneCommand, DistinctInv, Clean, Distinct, Checksums

LEMMA AddClean ==
  ASSUME TypeInv, OneCommand, DistinctInv, NEW t \in Tasks, AddFound(t)
  PROVE  DistinctInv'
  <1>1. Clean(task[t], items) /\ Distinct(items) /\ Distinct(saved)
    BY DEF DistinctInv
  <1>2. Distinct(items')
    BY <1>1 DEF AddFound, Distinct, Clean
  <1>3. Distinct(saved')
    BY <1>1, <1>2 DEF AddFound, Persist, SaveFails
  <1>4. \A u \in Tasks : task'[u] = IdleTask
    BY DEF OneCommand, AddFound, TypeInv, TypeOK
  <1>5. \A u \in Tasks : Clean(task'[u], items')
    BY <1>4, CleanIdle
  <1> QED
    BY <1>2, <1>3, <1>5 DEF DistinctInv, Distinct, Clean, Checksums

LEMMA DistinctStep ==
  TypeInv /\ OneCommand /\ DistinctInv /\ [Next]_vars => DistinctInv'
  <1> SUFFICES ASSUME TypeInv, OneCommand, DistinctInv, [Next]_vars PROVE DistinctInv'
    OBVIOUS
  <1>a. /\ task \in [Tasks -> Task]
        /\ \A t \in Tasks : Clean(task[t], items)
    BY DEF TypeInv, TypeOK, DistinctInv
  <1>1. ASSUME NEW t \in Tasks, BeginImport(t) PROVE DistinctInv'
    <2>1. PICK chosen \in SUBSET Source :
            task' = [task EXCEPT ![t] = [IdleTask EXCEPT
                       !.step = "next", !.sources = chosen,
                       !.known = Checksums(items)]]
      BY <1>1 DEF BeginImport
    <2>2. Clean([IdleTask EXCEPT !.step = "next", !.sources = chosen,
                                 !.known = Checksums(items)], items)
      BY DEF Clean, IdleTask, Distinct, Checksums
    <2> QED
      BY <2>1, <2>2, <1>1, SetClean DEF BeginImport
  <1>2. ASSUME NEW t \in Tasks, SkipSource(t) PROVE DistinctInv'
    <2>1. PICK s : task' = [task EXCEPT ![t] = Done(@, s)]
      BY <1>2 DEF SkipSource
    <2>2. Clean(Done(task[t], s), items)
      BY <1>2, <1>a, CleanDone DEF SkipSource
    <2> QED
      BY <2>1, <2>2, <1>2, <1>a, SetClean DEF SkipSource
  <1>3. ASSUME NEW t \in Tasks, ChooseTarget(t) PROVE DistinctInv'
    <2>1. PICK s \in task[t].sources :
            /\ s.content \notin task[t].known
            /\ \E p \in UniqueTarget(s.name) :
                 task' = [task EXCEPT ![t].step = "copy", ![t].source = s,
                                      ![t].target = p]
      BY <1>3 DEF ChooseTarget
    <2>2. PICK p \in UniqueTarget(s.name) :
            task' = [task EXCEPT ![t].step = "copy", ![t].source = s,
                                 ![t].target = p]
      BY <2>1
    <2>3. Clean([task[t] EXCEPT !.step = "copy", !.source = s, !.target = p], items)
      BY <2>1, <1>3, <1>a DEF Clean, Task, ChooseTarget
    <2>4. task' = [task EXCEPT ![t] =
                     [task[t] EXCEPT !.step = "copy", !.source = s, !.target = p]]
      BY <2>2, <1>a
    <2> QED
      BY <2>3, <2>4, <1>3, SetClean DEF ChooseTarget
  <1>4. ASSUME NEW t \in Tasks, CopyFile(t) PROVE DistinctInv'
    <2>1. CASE task' = [task EXCEPT ![t].step = "verify"]
      <3>1. Clean([task[t] EXCEPT !.step = "verify"], items)
        BY <1>4, <1>a DEF CopyFile, Clean, Task
      <3> QED
        BY <2>1, <3>1, <1>4, <1>a, SetClean DEF CopyFile
    <2>2. CASE task' = [task EXCEPT ![t] = Done(@, @.source)]
      <3>1. Clean(Done(task[t], task[t].source), items)
        BY <1>4, <1>a, CleanDone DEF CopyFile
      <3> QED
        BY <2>2, <3>1, <1>4, <1>a, SetClean DEF CopyFile
    <2> QED
      BY <2>1, <2>2, <1>4 DEF CopyFile
  <1>5. ASSUME NEW t \in Tasks, KeepCopy(t) PROVE DistinctInv'
    <2>0. PICK id \in FreshIds :
            task' = [task EXCEPT ![t] = Done(Found(task[t],
                       ItemAt(id, task[t].target, "joined", task[t].source.content)),
                       task[t].source)]
      BY <1>5, <1>a DEF KeepCopy
    <2> DEFINE i == ItemAt(id, task[t].target, "joined", task[t].source.content)
    <2>1. i \in Item
      BY <1>5, <1>a, ItemType
      DEF KeepCopy, TypeInv, HoldsSource, Source, Stored, Spellings
    <2>2. i.checksum \notin task[t].known /\ task[t].step # "idle" /\ ~ i.rewritten
      BY <1>5, <1>a DEF KeepCopy, Clean, ItemAt
    <2>3. Clean(Done(Found(task[t], i), task[t].source), items)
      <3> HIDE DEF i
      <3> DEFINE n == Done(Found(task[t], i), task[t].source)
      <3>1. /\ n.found = task[t].found \cup {i}
            /\ n.known = task[t].known \cup {i.checksum}
            /\ n.step = "next"
        BY <1>a DEF Done, Found, Task
      <3> HIDE DEF n
      <3>2. Clean(n, items)
        BY <2>1, <2>2, <3>1, <1>a, CleanFound
      <3> QED
        BY <3>2 DEF n
    <2>4. task' = [task EXCEPT ![t] = Done(Found(task[t], i), task[t].source)]
      BY <2>0
    <2> QED
      BY <2>3, <2>4, <1>5, SetClean DEF KeepCopy
  <1>6. ASSUME NEW t \in Tasks, DropCopy(t) PROVE DistinctInv'
    <2>1. Clean(Done(task[t], task[t].source), items)
      BY <1>6, <1>a, CleanDone DEF DropCopy
    <2> QED
      BY <2>1, <1>6, <1>a, SetClean DEF DropCopy
  <1>7. ASSUME NEW t \in Tasks, FinishImport(t) PROVE DistinctInv'
    BY <1>7, AddClean DEF FinishImport
  <1>8. ASSUME NEW t \in Tasks, BeginRescan(t) PROVE DistinctInv'
    <2> DEFINE k == [IdleTask EXCEPT !.step = "collect", !.known = Checksums(items),
                       !.paths = {<<i.path, i.spelling>> : i \in items}]
    <2>1. Clean(k, items)
      BY DEF Clean, IdleTask, Distinct, Checksums
    <2> QED
      BY <2>1, <1>8, SetClean DEF BeginRescan
  <1>9. ASSUME NEW t \in Tasks, CollectFiles(t) PROVE DistinctInv'
    <2> DEFINE k == [task[t] EXCEPT !.step = "scan", !.todo = {p \in Path : Exists(p)}]
    <2>1. Clean(k, items)
      BY <1>9, <1>a, CleanOn DEF CollectFiles, Task
    <2>2. task' = [task EXCEPT ![t] = k]
      BY <1>9, <1>a DEF CollectFiles
    <2> QED
      BY <2>1, <2>2, <1>9, SetClean DEF CollectFiles
  <1>10. ASSUME NEW t \in Tasks, SkipFile(t) PROVE DistinctInv'
    <2>1. PICK p : task' = [task EXCEPT ![t] = Scanned(@, p)]
      BY <1>10 DEF SkipFile
    <2>2. Clean(Scanned(task[t], p), items)
      BY <1>10, <1>a, CleanOn DEF SkipFile, Scanned, Task
    <2> QED
      BY <2>1, <2>2, <1>10, <1>a, SetClean DEF SkipFile
  <1>11. ASSUME NEW t \in Tasks, IndexFile(t) PROVE DistinctInv'
    <2>1. PICK p \in task[t].todo :
            /\ Exists(p)
            /\ files[p] \notin task[t].known
            /\ \E id \in FreshIds :
               task' = [task EXCEPT ![t] =
                  Scanned(Found(@, ItemAt(id, p, Canonical, files[p])), p)]
      BY <1>11 DEF IndexFile
    <2>0. PICK id \in FreshIds :
            task' = [task EXCEPT ![t] =
                  Scanned(Found(@, ItemAt(id, p, Canonical, files[p])), p)]
      BY <2>1
    <2> DEFINE i == ItemAt(id, p, Canonical, files[p])
    <2>2. p \in Path /\ files[p] \in Stored
      BY <2>1, <1>a DEF Task, Exists, TypeInv, TypeOK
    <2>3. i \in Item /\ i.checksum \notin task[t].known /\ ~ i.rewritten
      BY <2>1, <2>2, ItemType DEF Canonical, Spellings, ItemAt
    <2>4. Clean(Scanned(Found(task[t], i), p), items)
      <3> HIDE DEF i
      <3> DEFINE n == Scanned(Found(task[t], i), p)
      <3>1. /\ n.found = task[t].found \cup {i}
            /\ n.known = task[t].known \cup {i.checksum}
            /\ n.step = "scan" /\ task[t].step = "scan"
        BY <1>11, <1>a DEF IndexFile, Scanned, Found, Task
      <3> HIDE DEF n
      <3>2. Clean(n, items)
        BY <2>3, <3>1, <1>a, CleanFound
      <3> QED
        BY <3>2 DEF n
    <2> QED
      BY <2>0, <2>4, <1>11, <1>a, SetClean DEF IndexFile
  <1>12. ASSUME NEW t \in Tasks, FinishRescan(t) PROVE DistinctInv'
    BY <1>12, AddClean DEF FinishRescan
  <1>13. ASSUME NEW i \in items, DeleteItem(i) PROVE DistinctInv'
    <2>1. Distinct(items') /\ Distinct(saved')
      BY <1>13 DEF DeleteItem, Persist, SaveFails, DistinctInv, Distinct
    <2>2. \A t \in Tasks : Clean(task[t], items')
      BY <1>13, <1>a DEF DeleteItem, Clean, Checksums
    <2> QED
      BY <2>1, <2>2, <1>13 DEF DeleteItem, DistinctInv, Distinct, Clean, Checksums
  <1>d. ASSUME NEW removed, Ends(removed) PROVE DistinctInv'
    <2>1. Distinct(items') /\ Distinct(saved') /\ \A t \in Tasks : task'[t] = IdleTask
      BY <1>d DEF Ends, DistinctInv
    <2> QED
      BY <2>1, CleanIdle DEF DistinctInv, Distinct, Clean, Checksums
  <1>14. ASSUME NEW i \in items, CrashInDelete(i) PROVE DistinctInv'
    BY <1>14, <1>d DEF CrashInDelete
  <1>15. CASE Crash
    BY <1>15, <1>d DEF Crash
  <1>s. ASSUME NEW s \in syncs, RecordSnapshot(s) PROVE DistinctInv'
    <2>1. \A j \in items' : j \in items \/ j.rewritten
      BY <1>s, RewriteType DEF RecordSnapshot, TypeInv, TypeOK
    <2>2. Distinct(items')
      BY <2>1 DEF DistinctInv, Distinct
    <2>3. Distinct(saved')
      BY <1>s, <2>2 DEF RecordSnapshot, Persist, SaveFails, DistinctInv, Distinct
    <2>4. \A t \in Tasks : Clean(task[t], items')
      BY <1>a, <2>1 DEF Clean
    <2> QED
      BY <1>s, <2>2, <2>3, <2>4 DEF RecordSnapshot, DistinctInv, Distinct, Clean, Checksums
  <1>16. CASE UNCHANGED <<items, saved, task>>
    BY <1>16 DEF DistinctInv, Distinct, Clean, Checksums
  <1> QED
    BY <1>1, <1>2, <1>3, <1>4, <1>5, <1>6, <1>7, <1>8, <1>9, <1>10, <1>11,
       <1>12, <1>13, <1>14, <1>15, <1>s, <1>16
    DEF Next, ImportStep, RescanStep, TakeSnapshot, DropSnapshot, UserRemovesFile,
        UserWritesFile, UserActs, vars

(* While imports and rescans do not overlap, no two items have one SHA-256, *)
(* unless a sync has given one of them the SHA-256 its changed file has:    *)
(* whatever fails, restarts, is synced or changes in the vault folder       *)
(* meanwhile (README.md: local vault with SHA-256 duplicate detection).     *)
THEOREM DistinctCorrect ==
  ASSUME OneCommand
  PROVE  Spec => []NoDuplicates
  <1>1. Init => TypeInv /\ DistinctInv
    BY TypeInit, DistinctInit
  <1>2. TypeInv /\ DistinctInv /\ [Next]_vars => (TypeInv /\ DistinctInv)'
    BY TypeStep, DistinctStep
  <1>3. DistinctInv => NoDuplicates
    BY DEF DistinctInv, Distinct, NoDuplicates
  <1> QED
    BY <1>1, <1>2, <1>3, PTL DEF Spec

-----------------------------------------------------------------------------
(* Every item's file keeps its bytes.  The path a command copies to belongs *)
(* to no item whose file is in place; an item still in vault-state.json but *)
(* no longer in memory has lost its file already.                           *)
Sound(i) == i.path \notin touched => files[i.path] = i.checksum

OwnTarget(t) ==
  task[t].step \in {"copy", "verify"} =>
    \A i \in items \cup task[t].found :
      i.path = task[t].target => i.path \in touched

IntactInv ==
  /\ \A i \in items : Sound(i)
  /\ \A t \in Tasks : \A i \in task[t].found : Sound(i)
  /\ \A i \in saved : i.path \notin touched => i \in items
  /\ \A t \in Tasks : OwnTarget(t)

LEMMA IntactInit == Init => IntactInv
  BY DEF Init, IntactInv, Sound, OwnTarget, IdleTask

(* A step of one command that writes no file.                               *)
LEMMA SetIntact ==
  ASSUME TypeInv, IntactInv, NEW t \in Tasks, NEW k,
         task' = [task EXCEPT ![t] = k],
         \A i \in k.found : Sound(i),
         k.step \in {"copy", "verify"} =>
           \A i \in items \cup k.found : i.path = k.target => i.path \in touched,
         UNCHANGED <<files, items, saved, touched>>
  PROVE  IntactInv'
  BY DEF TypeInv, TypeOK, IntactInv, Sound, OwnTarget

(* Nothing but the target of the only command is written, or removed.       *)
OnlyTarget(t) ==
  /\ task[t].step \in {"copy", "verify"}
  /\ \A p \in Path : p # task[t].target => files'[p] = files[p]
  /\ UNCHANGED <<items, saved, touched>>

LEMMA SetTarget ==
  ASSUME TypeInv, OneCommand, IntactInv, NEW t \in Tasks, OnlyTarget(t),
         NEW k, task' = [task EXCEPT ![t] = k],
         k.found = task[t].found, k.step # "copy",
         k.step = "verify" => k.target = task[t].target
  PROVE  IntactInv'
  <1>1. \A i \in items \cup task[t].found : Sound(i) => Sound(i)'
    <2>1. \A i \in items \cup task[t].found : i.path \in Path
      BY DEF TypeInv, TypeOK, Task, Item
    <2> QED
      BY <2>1 DEF IntactInv, OwnTarget, Sound, OnlyTarget
  <1>2. \A u \in Tasks : u = t /\ task'[u] = k
    BY DEF OneCommand, TypeInv, TypeOK
  <1> QED
    BY <1>1, <1>2 DEF IntactInv, OwnTarget, Sound, OnlyTarget

LEMMA AddIntact ==
  ASSUME TypeInv, OneCommand, IntactInv, NEW t \in Tasks, AddFound(t)
  PROVE  IntactInv'
  <1>1. \A i \in items' : Sound(i)'
    BY DEF AddFound, IntactInv, Sound
  <1>2. \A u \in Tasks : task'[u] = IdleTask
    BY DEF OneCommand, AddFound, TypeInv, TypeOK
  <1>3. \A i \in saved' : i.path \notin touched' => i \in items'
    BY DEF AddFound, Persist, SaveFails, IntactInv
  <1> QED
    BY <1>1, <1>2, <1>3 DEF IntactInv, OwnTarget, IdleTask, Sound

(* What a sync writes.  No two items have one id; a snapshot of a file that *)
(* nobody has changed holds what the item records, so only an item whose    *)
(* file was changed is rewritten.                                           *)
OneId(s) == \A i, j \in s : i.id = j.id => i = j

TrueSnapshot(s, list) ==
  \A i \in list : i.id = s.id /\ i.path \notin touched => i.checksum = s.content

SyncInv ==
  /\ OneId(items) /\ OneId(saved)
  /\ \A t \in Tasks : OneId(items \cup task[t].found)
  /\ \A i \in items \cup saved : i.rewritten => i.path \in touched
  /\ \A s \in syncs : TrueSnapshot(s, items)
  /\ \A s \in syncs : \A t \in Tasks : TrueSnapshot(s, task[t].found)

LEMMA SyncInit == Init => SyncInv
  BY DEF Init, SyncInv, OneId, IdleTask

(* Each item stays or is rewritten, and is rewritten only when its file was *)
(* changed.                                                                 *)
LEMMA RewriteEffect ==
  ASSUME TypeInv, SyncInv, NEW s \in syncs, RecordSnapshot(s)
  PROVE  /\ \A j \in items' : \E i \in items :
               /\ i.id = j.id /\ i.path = j.path /\ j = Rewrite(i, s)
               /\ i = j \/ i.path \in touched
         /\ \A i \in items : i.path \notin touched => i \in items'
  <1>1. \A i \in items :
           /\ Rewrite(i, s).id = i.id /\ Rewrite(i, s).path = i.path
           /\ Rewrite(i, s) = i \/ (i.id = s.id /\ i.checksum # s.content)
    BY RewriteType DEF TypeInv, TypeOK
  <1>2. \A i \in items : Rewrite(i, s) = i \/ i.path \in touched
    BY <1>1 DEF SyncInv, TrueSnapshot
  <1>3. items' = {Rewrite(i, s) : i \in items}
    BY DEF RecordSnapshot
  <1> QED
    BY <1>1, <1>2, <1>3

LEMMA SetSync ==
  ASSUME TypeInv, SyncInv, NEW t \in Tasks, NEW k, task' = [task EXCEPT ![t] = k],
         k.found \subseteq task[t].found, UNCHANGED <<items, saved, syncs, touched>>
  PROVE  SyncInv'
  BY DEF TypeInv, TypeOK, SyncInv, OneId, TrueSnapshot

LEMMA SetSyncFound ==
  ASSUME TypeInv, SyncInv, NEW t \in Tasks, NEW k, task' = [task EXCEPT ![t] = k],
         NEW i, i.id \in FreshIds, k.found = task[t].found \cup {i},
         UNCHANGED <<items, saved, syncs, touched>>
  PROVE  SyncInv'
  <1>1. /\ \A j \in items \cup task[t].found : j.id # i.id
        /\ \A s \in syncs : s.id # i.id
    BY DEF FreshIds
  <1>2. \A u \in Tasks : task'[u] = IF u = t THEN k ELSE task[u]
    BY DEF TypeInv, TypeOK
  <1>3. \A u \in Tasks : OneId(items \cup task'[u].found)
    BY <1>1, <1>2 DEF SyncInv, OneId
  <1>4. \A s \in syncs : \A u \in Tasks : TrueSnapshot(s, task'[u].found)
    BY <1>1, <1>2 DEF SyncInv, TrueSnapshot
  <1> QED
    BY <1>3, <1>4 DEF SyncInv, OneId, TrueSnapshot

LEMMA SyncAdd ==
  ASSUME TypeInv, OneCommand, DistinctInv, SyncInv, NEW t \in Tasks, AddFound(t)
  PROVE  SyncInv'
  <1>1. /\ items' = items \cup task[t].found /\ UNCHANGED <<syncs, touched>>
        /\ saved' = items' \/ saved' = saved
    BY DEF AddFound, Persist, SaveFails
  <1>2. \A u \in Tasks : task'[u].found = {}
    BY DEF OneCommand, AddFound, TypeInv, TypeOK, IdleTask
  <1>3. OneId(items') /\ OneId(saved')
    BY <1>1 DEF SyncInv
  <1>4. \A i \in items' \cup saved' : i.rewritten => i.path \in touched'
    BY <1>1 DEF SyncInv, DistinctInv, Clean
  <1>5. \A s \in syncs : TrueSnapshot(s, items')
    BY <1>1 DEF SyncInv, TrueSnapshot
  <1> QED
    BY <1>1, <1>2, <1>3, <1>4, <1>5 DEF SyncInv, OneId, TrueSnapshot

LEMMA SyncStep ==
  TypeInv /\ OneCommand /\ DistinctInv /\ IntactInv /\ SyncInv /\ [Next]_vars => SyncInv'
  <1> SUFFICES ASSUME TypeInv, OneCommand, DistinctInv, IntactInv, SyncInv, [Next]_vars
               PROVE  SyncInv'
    OBVIOUS
  <1>a. /\ task \in [Tasks -> Task] /\ items \subseteq Item /\ syncs \subseteq Snapshot
    BY DEF TypeInv, TypeOK
  <1>b. IdleTask.found = {} /\ IdleTask \in Task
    BY IdleType DEF IdleTask
  <1>c. \A k \in Task : \A x :
           /\ Done(k, x).found = k.found /\ Scanned(k, x).found = k.found
    BY DEF Done, Scanned, Task
  <1>1. ASSUME NEW t \in Tasks, BeginImport(t) \/ BeginRescan(t) PROVE SyncInv'
    <2>1. PICK k : task' = [task EXCEPT ![t] = k] /\ k.found = {}
      <3>1. CASE BeginImport(t)
        <4>1. PICK chosen :
                task' = [task EXCEPT ![t] = [IdleTask EXCEPT !.step = "next",
                           !.sources = chosen, !.known = Checksums(items)]]
          BY <3>1 DEF BeginImport
        <4>2. [IdleTask EXCEPT !.step = "next", !.sources = chosen,
                               !.known = Checksums(items)].found = {}
          BY DEF IdleTask
        <4> QED
          BY <4>1, <4>2
      <3>2. CASE BeginRescan(t)
        <4> DEFINE k == [IdleTask EXCEPT !.step = "collect", !.known = Checksums(items),
                           !.paths = {<<i.path, i.spelling>> : i \in items}]
        <4>1. k.found = {}
          BY DEF IdleTask
        <4>2. task' = [task EXCEPT ![t] = k]
          BY <3>2 DEF BeginRescan
        <4> HIDE DEF k
        <4> QED
          BY <4>1, <4>2
      <3> QED
        BY <1>1, <3>1, <3>2
    <2> QED
      BY <1>1, <2>1, SetSync DEF BeginImport, BeginRescan
  <1>2. ASSUME NEW t \in Tasks, SkipSource(t) \/ DropCopy(t) PROVE SyncInv'
    <2>1. PICK x : task' = [task EXCEPT ![t] = Done(task[t], x)]
      BY <1>2, <1>a DEF SkipSource, DropCopy
    <2> QED
      BY <1>2, <1>a, <1>c, <2>1, SetSync DEF SkipSource, DropCopy
  <1>3. ASSUME NEW t \in Tasks, ChooseTarget(t) PROVE SyncInv'
    <2>1. PICK x, p : task' = [task EXCEPT ![t].step = "copy", ![t].source = x,
                                           ![t].target = p]
      BY <1>3 DEF ChooseTarget
    <2> DEFINE k == [task[t] EXCEPT !.step = "copy", !.source = x, !.target = p]
    <2>2. k.found = task[t].found
      BY <1>a DEF Task
    <2>3. task' = [task EXCEPT ![t] = k]
      BY <1>a, <2>1
    <2> HIDE DEF k
    <2> QED
      BY <1>3, <2>2, <2>3, SetSync DEF ChooseTarget
  <1>4. ASSUME NEW t \in Tasks, CopyFile(t) PROVE SyncInv'
    <2>1. CASE task' = [task EXCEPT ![t].step = "verify"]
      <3> DEFINE k == [task[t] EXCEPT !.step = "verify"]
      <3>1. k.found = task[t].found /\ task' = [task EXCEPT ![t] = k]
        BY <1>a, <2>1 DEF Task
      <3> HIDE DEF k
      <3> QED
        BY <1>4, <3>1, SetSync DEF CopyFile
    <2>2. CASE task' = [task EXCEPT ![t] = Done(@, @.source)]
      <3>1. task' = [task EXCEPT ![t] = Done(task[t], task[t].source)]
        BY <1>a, <2>2
      <3> QED
        BY <1>4, <1>a, <1>c, <3>1, SetSync DEF CopyFile
    <2> QED
      BY <1>4, <2>1, <2>2 DEF CopyFile
  <1>5. ASSUME NEW t \in Tasks, KeepCopy(t) PROVE SyncInv'
    <2>0. PICK id \in FreshIds :
            task' = [task EXCEPT ![t] = Done(Found(task[t],
                       ItemAt(id, task[t].target, "joined", task[t].source.content)),
                       task[t].source)]
      BY <1>5, <1>a DEF KeepCopy
    <2> DEFINE i == ItemAt(id, task[t].target, "joined", task[t].source.content)
               k == Done(Found(task[t], i), task[t].source)
    <2>1. k.found = task[t].found \cup {i} /\ i.id = id
      BY <1>a DEF Done, Found, Task, ItemAt
    <2>2. task' = [task EXCEPT ![t] = k]
      BY <2>0
    <2>3. UNCHANGED <<items, saved, syncs, touched>>
      BY <1>5 DEF KeepCopy
    <2> HIDE DEF i, k
    <2> QED
      BY <2>1, <2>2, <2>3, SetSyncFound
  <1>6. ASSUME NEW t \in Tasks, CollectFiles(t) PROVE SyncInv'
    <2> DEFINE k == [task[t] EXCEPT !.step = "scan", !.todo = {p \in Path : Exists(p)}]
    <2>1. k.found = task[t].found
      BY <1>a DEF Task
    <2>2. task' = [task EXCEPT ![t] = k]
      BY <1>6, <1>a DEF CollectFiles
    <2> HIDE DEF k
    <2> QED
      BY <1>6, <2>1, <2>2, SetSync DEF CollectFiles
  <1>7. ASSUME NEW t \in Tasks, SkipFile(t) PROVE SyncInv'
    <2>1. PICK p : task' = [task EXCEPT ![t] = Scanned(task[t], p)]
      BY <1>7, <1>a DEF SkipFile
    <2> QED
      BY <1>7, <1>a, <1>c, <2>1, SetSync DEF SkipFile
  <1>8. ASSUME NEW t \in Tasks, IndexFile(t) PROVE SyncInv'
    <2>1. PICK p \in task[t].todo :
            \E id \in FreshIds :
               task' = [task EXCEPT ![t] =
                  Scanned(Found(@, ItemAt(id, p, Canonical, files[p])), p)]
      BY <1>8 DEF IndexFile
    <2>2. PICK id \in FreshIds :
            task' = [task EXCEPT ![t] =
                  Scanned(Found(@, ItemAt(id, p, Canonical, files[p])), p)]
      BY <2>1
    <2> DEFINE i == ItemAt(id, p, Canonical, files[p])
               k == Scanned(Found(task[t], i), p)
    <2>3. k.found = task[t].found \cup {i} /\ i.id = id
      BY <1>a DEF Scanned, Found, Task, ItemAt
    <2>4. task' = [task EXCEPT ![t] = k]
      BY <2>2, <1>a
    <2>5. UNCHANGED <<items, saved, syncs, touched>>
      BY <1>8 DEF IndexFile
    <2> HIDE DEF i, k
    <2> QED
      BY <2>3, <2>4, <2>5, SetSyncFound
  <1>9. ASSUME NEW t \in Tasks, FinishImport(t) \/ FinishRescan(t) PROVE SyncInv'
    BY <1>9, SyncAdd DEF FinishImport, FinishRescan
  <1>10. ASSUME NEW i \in items, DeleteItem(i) PROVE SyncInv'
    <2>1. /\ items' = items \ {i} /\ UNCHANGED <<task, syncs>>
          /\ saved' = items' \/ saved' = saved
          /\ touched \subseteq touched'
      BY <1>10 DEF DeleteItem, Persist, SaveFails
    <2> QED
      BY <2>1 DEF SyncInv, OneId, TrueSnapshot
  <1>11. ASSUME NEW removed, Ends(removed) PROVE SyncInv'
    <2>1. /\ items' = saved /\ saved' = saved /\ syncs' = {} /\ touched \subseteq touched'
          /\ \A t \in Tasks : task'[t].found = {}
      BY <1>11, <1>b DEF Ends
    <2> QED
      BY <2>1 DEF SyncInv, OneId
  <1>12. ASSUME NEW i \in items, CrashInDelete(i) PROVE SyncInv'
    BY <1>11, <1>12 DEF CrashInDelete
  <1>13. CASE Crash
    BY <1>11, <1>13 DEF Crash
  <1>14. ASSUME NEW i \in items, TakeSnapshot(i) PROVE SyncInv'
    <2> DEFINE s == [id |-> i.id, content |-> files[i.path]]
    <2>1. syncs' = syncs \cup {s} /\ UNCHANGED <<items, saved, task, touched>>
      BY <1>14 DEF TakeSnapshot
    <2>2. TrueSnapshot(s, items) /\ \A t \in Tasks : TrueSnapshot(s, task[t].found)
      BY DEF SyncInv, OneId, IntactInv, Sound, TrueSnapshot
    <2> HIDE DEF s
    <2> QED
      BY <2>1, <2>2 DEF SyncInv, OneId, TrueSnapshot
  <1>15. ASSUME NEW s \in syncs, RecordSnapshot(s) PROVE SyncInv'
    <2>1. /\ UNCHANGED <<task, touched>> /\ syncs' \subseteq syncs
          /\ saved' = items' \/ saved' = saved
      BY <1>15 DEF RecordSnapshot, Persist, SaveFails
    <2>2. \A j \in items' : \E i \in items :
               /\ i.id = j.id /\ i.path = j.path /\ j = Rewrite(i, s)
               /\ i = j \/ i.path \in touched
      BY <1>15, RewriteEffect
    <2>3. OneId(items')
      BY <2>2 DEF SyncInv, OneId
    <2>4. \A t \in Tasks : OneId(items' \cup task[t].found)
      <3> SUFFICES ASSUME NEW t \in Tasks,
                          NEW x \in items' \cup task[t].found,
                          NEW y \in items' \cup task[t].found, x.id = y.id
                   PROVE  x = y
        BY DEF OneId
      <3>1. OneId(items \cup task[t].found) /\ OneId(task[t].found)
        BY DEF SyncInv, OneId
      <3>2. CASE x \in items' /\ y \in items'
        BY <2>3, <3>2 DEF OneId
      <3>3. CASE x \in task[t].found /\ y \in task[t].found
        BY <3>1, <3>3 DEF OneId
      <3>4. ASSUME NEW j \in items', NEW f \in task[t].found, j.id = f.id PROVE FALSE
        <4>1. PICK i \in items : i.id = j.id
          BY <2>2
        <4> QED
          BY <4>1, <3>1, <3>4 DEF OneId, DistinctInv, Clean
      <3> QED
        BY <3>2, <3>3, <3>4
    <2>5. \A i \in items' \cup saved' : i.rewritten => i.path \in touched
      BY <2>1, <2>2 DEF SyncInv
    <2>6. \A x \in syncs : TrueSnapshot(x, items')
      BY <2>2 DEF SyncInv, TrueSnapshot
    <2> QED
      BY <2>1, <2>3, <2>4, <2>5, <2>6 DEF SyncInv, OneId, TrueSnapshot
  <1>16. ASSUME NEW s \in syncs, DropSnapshot(s) PROVE SyncInv'
    BY <1>16 DEF DropSnapshot, SyncInv, OneId, TrueSnapshot
  <1>17. ASSUME NEW p \in Path, UserActs(p) PROVE SyncInv'
    BY <1>17 DEF UserActs, SyncInv, OneId, TrueSnapshot
  <1>18. CASE UNCHANGED vars
    BY <1>18 DEF vars, SyncInv, OneId, TrueSnapshot
  <1> QED
    BY <1>1, <1>2, <1>3, <1>4, <1>5, <1>6, <1>7, <1>8, <1>9, <1>10, <1>12, <1>13, <1>14,
       <1>15, <1>16, <1>17, <1>18
    DEF Next, ImportStep, RescanStep, UserRemovesFile, UserWritesFile

LEMMA IntactStep ==
  TypeInv /\ OneCommand /\ DistinctInv /\ SyncInv /\ IntactInv /\ [Next]_vars => IntactInv'
  <1> SUFFICES ASSUME TypeInv, OneCommand, DistinctInv, SyncInv, IntactInv, [Next]_vars
               PROVE IntactInv'
    OBVIOUS
  <1>a. /\ task \in [Tasks -> Task] /\ files \in [Path -> Stored \cup {Nil}]
        /\ items \subseteq Item /\ saved \subseteq Item
        /\ \A t \in Tasks : HoldsSource(t)
    BY DEF TypeInv, TypeOK
  <1>b. \A t \in Tasks : \A i \in task[t].found : Sound(i)
    BY DEF IntactInv
  <1>1. ASSUME NEW t \in Tasks, BeginImport(t) PROVE IntactInv'
    <2>1. PICK chosen \in SUBSET Source :
            task' = [task EXCEPT ![t] = [IdleTask EXCEPT
                       !.step = "next", !.sources = chosen,
                       !.known = Checksums(items)]]
      BY <1>1 DEF BeginImport
    <2> DEFINE k == [IdleTask EXCEPT !.step = "next", !.sources = chosen,
                                     !.known = Checksums(items)]
    <2>2. k.found = {} /\ k.step = "next"
      BY DEF IdleTask
    <2> QED
      BY <2>1, <2>2, <1>1, SetIntact DEF BeginImport
  <1>2. ASSUME NEW t \in Tasks, SkipSource(t) PROVE IntactInv'
    <2>1. PICK s : task' = [task EXCEPT ![t] = Done(@, s)]
      BY <1>2 DEF SkipSource
    <2>2. Done(task[t], s).found = task[t].found /\ Done(task[t], s).step = "next"
      BY <1>a DEF Done, Task
    <2> QED
      BY <2>1, <2>2, <1>2, <1>a, <1>b, SetIntact DEF SkipSource
  <1>3. ASSUME NEW t \in Tasks, ChooseTarget(t) PROVE IntactInv'
    <2>1. PICK s \in task[t].sources :
            \E p \in UniqueTarget(s.name) :
              task' = [task EXCEPT ![t].step = "copy", ![t].source = s,
                                   ![t].target = p]
      BY <1>3 DEF ChooseTarget
    <2>2. PICK p \in UniqueTarget(s.name) :
            task' = [task EXCEPT ![t].step = "copy", ![t].source = s,
                                 ![t].target = p]
      BY <2>1
    <2> DEFINE k == [task[t] EXCEPT !.step = "copy", !.source = s, !.target = p]
    <2>3. task' = [task EXCEPT ![t] = k]
      BY <2>2, <1>a
    <2>4. k.found = task[t].found /\ k.target = p
      BY <1>a DEF Task
    <2>5. files[p] = Nil
      BY DEF UniqueTarget, Exists
    <2>6. \A i \in items \cup task[t].found : i.checksum # Nil /\ Sound(i)
      BY <1>a, <1>b, NilAssumption DEF Item, Stored, Task, IntactInv
    <2>7. \A i \in items \cup k.found : i.path = k.target => i.path \in touched
      BY <2>4, <2>5, <2>6 DEF Sound
    <2> HIDE DEF k
    <2> QED
      BY <2>3, <2>4, <2>7, <1>3, <1>b, SetIntact DEF ChooseTarget
  <1>4. ASSUME NEW t \in Tasks, CopyFile(t) PROVE IntactInv'
    <2>1. ASSUME NEW c \in Contents,
                 files' = [files EXCEPT ![task[t].target] = c],
                 task' = [task EXCEPT ![t].step = "verify"]
          PROVE  IntactInv'
      <3> DEFINE k == [task[t] EXCEPT !.step = "verify"]
      <3>1. k.found = task[t].found /\ k.step = "verify" /\ k.target = task[t].target
        BY <1>a DEF Task
      <3>2. task' = [task EXCEPT ![t] = k]
        BY <2>1, <1>a
      <3>3. OnlyTarget(t)
        BY <2>1, <1>4, <1>a DEF CopyFile, OnlyTarget
      <3> HIDE DEF k
      <3> QED
        BY <3>1, <3>2, <3>3, SetTarget
    <2>2. CASE task' = [task EXCEPT ![t] = Done(@, @.source)]
      <3> DEFINE k == Done(task[t], task[t].source)
      <3>1. k.found = task[t].found /\ k.step = "next"
        BY <1>a DEF Done, Task
      <3>2. task' = [task EXCEPT ![t] = k]
        BY <2>2, <1>a
      <3>3. OnlyTarget(t)
        BY <1>4, <1>a DEF CopyFile, OnlyTarget
      <3> HIDE DEF k
      <3> QED
        BY <3>1, <3>2, <3>3, SetTarget
    <2> QED
      BY <2>1, <2>2, <1>4 DEF CopyFile
  <1>5. ASSUME NEW t \in Tasks, KeepCopy(t) PROVE IntactInv'
    <2>0. PICK id \in FreshIds :
            task' = [task EXCEPT ![t] = Done(Found(task[t],
                       ItemAt(id, task[t].target, "joined", task[t].source.content)),
                       task[t].source)]
      BY <1>5, <1>a DEF KeepCopy
    <2> DEFINE i == ItemAt(id, task[t].target, "joined", task[t].source.content)
               k == Done(Found(task[t], i), task[t].source)
    <2>1. Sound(i)
      BY <1>5 DEF KeepCopy, Copied, ItemAt, Sound
    <2>2. k.found = task[t].found \cup {i} /\ k.step = "next"
      BY <1>a DEF Done, Found, Task
    <2>3. task' = [task EXCEPT ![t] = k]
      BY <2>0
    <2>4. UNCHANGED <<files, items, saved, touched>>
      BY <1>5 DEF KeepCopy
    <2> HIDE DEF i, k
    <2> QED
      BY <2>1, <2>2, <2>3, <2>4, <1>b, SetIntact
  <1>6. ASSUME NEW t \in Tasks, DropCopy(t) PROVE IntactInv'
    <2> DEFINE k == Done(task[t], task[t].source)
    <2>1. k.found = task[t].found /\ k.step = "next"
      BY <1>a DEF Done, Task
    <2>2. task' = [task EXCEPT ![t] = k] /\ task[t].step = "verify"
      BY <1>6, <1>a DEF DropCopy
    <2> HIDE DEF k
    <2>3. CASE files' = [files EXCEPT ![task[t].target] = Nil]
      <3>1. OnlyTarget(t)
        BY <2>3, <1>6, <1>a DEF DropCopy, OnlyTarget
      <3> QED
        BY <2>1, <2>2, <3>1, SetTarget
    <2>4. CASE UNCHANGED files
      BY <2>1, <2>2, <2>4, <1>6, <1>b, SetIntact DEF DropCopy
    <2> QED
      BY <2>3, <2>4, <1>6 DEF DropCopy
  <1>7. ASSUME NEW t \in Tasks, FinishImport(t) PROVE IntactInv'
    BY <1>7, AddIntact DEF FinishImport
  <1>8. ASSUME NEW t \in Tasks, BeginRescan(t) PROVE IntactInv'
    <2> DEFINE k == [IdleTask EXCEPT !.step = "collect", !.known = Checksums(items),
                       !.paths = {<<i.path, i.spelling>> : i \in items}]
    <2>1. k.found = {} /\ k.step = "collect"
      BY DEF IdleTask
    <2>2. task' = [task EXCEPT ![t] = k]
      BY <1>8 DEF BeginRescan
    <2> HIDE DEF k
    <2> QED
      BY <2>1, <2>2, <1>8, SetIntact DEF BeginRescan
  <1>9. ASSUME NEW t \in Tasks, CollectFiles(t) PROVE IntactInv'
    <2> DEFINE k == [task[t] EXCEPT !.step = "scan", !.todo = {p \in Path : Exists(p)}]
    <2>1. k.found = task[t].found /\ k.step = "scan"
      BY <1>a DEF Task
    <2>2. task' = [task EXCEPT ![t] = k]
      BY <1>9, <1>a DEF CollectFiles
    <2> HIDE DEF k
    <2> QED
      BY <2>1, <2>2, <1>9, <1>b, SetIntact DEF CollectFiles
  <1>10. ASSUME NEW t \in Tasks, SkipFile(t) PROVE IntactInv'
    <2>1. PICK p : task' = [task EXCEPT ![t] = Scanned(@, p)]
      BY <1>10 DEF SkipFile
    <2>2. Scanned(task[t], p).found = task[t].found /\ Scanned(task[t], p).step = "scan"
      BY <1>10, <1>a DEF SkipFile, Scanned, Task
    <2> QED
      BY <2>1, <2>2, <1>10, <1>a, <1>b, SetIntact DEF SkipFile
  <1>11. ASSUME NEW t \in Tasks, IndexFile(t) PROVE IntactInv'
    <2>1. PICK p \in task[t].todo :
            \E id \in FreshIds :
               task' = [task EXCEPT ![t] =
                  Scanned(Found(@, ItemAt(id, p, Canonical, files[p])), p)]
      BY <1>11 DEF IndexFile
    <2>0. PICK id \in FreshIds :
            task' = [task EXCEPT ![t] =
                  Scanned(Found(@, ItemAt(id, p, Canonical, files[p])), p)]
      BY <2>1
    <2> DEFINE i == ItemAt(id, p, Canonical, files[p])
               k == Scanned(Found(task[t], i), p)
    <2>2. Sound(i)
      BY DEF ItemAt, Sound
    <2>3. k.found = task[t].found \cup {i} /\ k.step = "scan"
      BY <1>11, <1>a DEF IndexFile, Scanned, Found, Task
    <2>4. task' = [task EXCEPT ![t] = k]
      BY <2>0, <1>a
    <2>5. UNCHANGED <<files, items, saved, touched>>
      BY <1>11 DEF IndexFile
    <2> HIDE DEF i, k
    <2> QED
      BY <2>2, <2>3, <2>4, <2>5, <1>b, SetIntact
  <1>12. ASSUME NEW t \in Tasks, FinishRescan(t) PROVE IntactInv'
    BY <1>12, AddIntact DEF FinishRescan
  <1>13. ASSUME NEW i \in items, DeleteItem(i) PROVE IntactInv'
    <2>1. /\ files' = [files EXCEPT ![i.path] = Nil]
          /\ items' = items \ {i} /\ touched \subseteq touched' /\ task' = task
          /\ saved' = items' \/ (saved' = saved /\ i.path \in touched')
      BY <1>13 DEF DeleteItem, Persist, SaveFails
    <2>2. ASSUME NEW j \in items', j.path \notin touched' PROVE files'[j.path] = j.checksum
      <3>1. Sound(i) /\ Sound(j) /\ j \in items /\ j # i /\ j.path \notin touched
        BY <2>1, <2>2 DEF IntactInv
      <3>2. j.path # i.path
        BY <3>1 DEF Sound, DistinctInv, Distinct, SyncInv
      <3> QED
        BY <3>1, <3>2, <2>1, <1>a DEF Sound, Item
    <2>3. ASSUME NEW t \in Tasks, NEW j \in task[t].found, j.path \notin touched'
          PROVE  files'[j.path] = j.checksum
      <3>1. /\ Sound(i) /\ Sound(j) /\ j.path \notin touched /\ j \in Item
            /\ i.rewritten => i.path \in touched
        BY <2>1, <2>3, <1>a, <1>b DEF IntactInv, SyncInv, Task
      <3>2. j.path # i.path
        BY <3>1 DEF Sound, DistinctInv, Clean
      <3> QED
        BY <3>1, <3>2, <2>1, <1>a DEF Sound, Item
    <2>4. \A j \in saved' : j.path \notin touched' => j \in items'
      BY <2>1 DEF IntactInv
    <2>5. \A t \in Tasks : OwnTarget(t)'
      BY <2>1 DEF IntactInv, OwnTarget
    <2> QED
      BY <2>1, <2>2, <2>3, <2>4, <2>5 DEF IntactInv, Sound
  <1>d. ASSUME NEW removed \in SUBSET Path, Ends(removed) PROVE IntactInv'
    <2>1. PICK torn \in SUBSET {task[t].target : t \in {u \in Tasks : task[u].step = "copy"}} :
            files' = [p \in Path |-> CASE p \in torn -> Torn
                                       [] p \in removed -> Nil
                                       [] OTHER -> files[p]]
      BY <1>d DEF Ends
    <2>2. items' = saved /\ saved' = saved /\ touched' = touched \cup removed
      BY <1>d DEF Ends
    <2>3. ASSUME NEW i \in items', i.path \notin touched' PROVE files'[i.path] = i.checksum
      <3>1. i \in items /\ i.path \notin touched /\ i.path \notin removed
        BY <2>2, <2>3 DEF IntactInv
      <3>2. i.path \notin torn
        BY <3>1 DEF IntactInv, OwnTarget
      <3>3. files[i.path] = i.checksum /\ i.path \in Path
        BY <3>1, <1>a DEF IntactInv, Sound, Item
      <3> QED
        BY <2>1, <3>1, <3>2, <3>3
    <2>4. \A t \in Tasks : task'[t] = IdleTask
      BY <1>d DEF Ends
    <2> QED
      BY <2>2, <2>3, <2>4 DEF IntactInv, Sound, OwnTarget, IdleTask
  <1>14. ASSUME NEW i \in items, CrashInDelete(i) PROVE IntactInv'
    BY <1>14, <1>d, <1>a DEF CrashInDelete, Item
  <1>15. CASE Crash
    BY <1>15, <1>d DEF Crash
  <1>e. ASSUME NEW p \in Path, NEW c, files' = [files EXCEPT ![p] = c], UserActs(p)
        PROVE  IntactInv'
    <2>1. \A i : i.path \in DOMAIN files => (Sound(i) => Sound(i)')
      BY <1>e, <1>a DEF UserActs, Sound
    <2>2. /\ \A i \in items : i.path \in DOMAIN files
          /\ \A t \in Tasks : \A i \in task[t].found : i.path \in DOMAIN files
      BY <1>a DEF Item, Task
    <2> QED
      BY <1>e, <2>1, <2>2 DEF UserActs, IntactInv, OwnTarget
  <1>16. ASSUME NEW p \in Path, UserRemovesFile(p) PROVE IntactInv'
    BY <1>16, <1>e DEF UserRemovesFile
  <1>17. ASSUME NEW p \in Path, NEW c \in Contents, UserWritesFile(p, c) PROVE IntactInv'
    BY <1>17, <1>e DEF UserWritesFile
  <1>s. ASSUME NEW s \in syncs, RecordSnapshot(s) PROVE IntactInv'
    <2>1. /\ UNCHANGED <<files, task, touched>>
          /\ saved' = items' \/ saved' = saved
      BY <1>s DEF RecordSnapshot, Persist, SaveFails
    <2>2. \A j \in items' : \E i \in items :
             i.path = j.path /\ (i = j \/ i.path \in touched)
      BY <1>s, RewriteEffect
    <2>3. \A i \in items : i.path \notin touched => i \in items'
      BY <1>s, RewriteEffect
    <2>4. \A i \in items' : Sound(i)'
      BY <2>1, <2>2 DEF IntactInv, Sound
    <2>5. \A i \in saved' : i.path \notin touched' => i \in items'
      BY <2>1, <2>3 DEF IntactInv
    <2>6. \A t \in Tasks : OwnTarget(t)'
      BY <2>1, <2>2 DEF IntactInv, OwnTarget
    <2> QED
      BY <2>1, <2>4, <2>5, <2>6 DEF IntactInv, Sound
  <1>18. CASE UNCHANGED <<files, items, saved, task, touched>>
    BY <1>18 DEF IntactInv, Sound, OwnTarget
  <1> QED
    BY <1>1, <1>2, <1>3, <1>4, <1>5, <1>6, <1>7, <1>8, <1>9, <1>10, <1>11,
       <1>12, <1>13, <1>14, <1>15, <1>16, <1>17, <1>s, <1>18
    DEF Next, ImportStep, RescanStep, TakeSnapshot, DropSnapshot, vars

(* While imports and rescans do not overlap, an item's file holds the bytes *)
(* whose SHA-256 the item records, in whatever order commands, syncs,       *)
(* deletions, crashes, failing calls and the user act (unique_target,       *)
(* import_files, delete_item).                                              *)
THEOREM IntactCorrect ==
  ASSUME OneCommand
  PROVE  Spec => []IntactItems
  <1>1. Init => TypeInv /\ DistinctInv /\ SyncInv /\ IntactInv
    BY TypeInit, DistinctInit, SyncInit, IntactInit
  <1>2. TypeInv /\ DistinctInv /\ SyncInv /\ IntactInv /\ [Next]_vars
          => (TypeInv /\ DistinctInv /\ SyncInv /\ IntactInv)'
    BY TypeStep, DistinctStep, SyncStep, IntactStep
  <1>3. IntactInv => IntactItems
    BY DEF IntactInv, IntactItems, Sound
  <1> QED
    BY <1>1, <1>2, <1>3, PTL DEF Spec

-----------------------------------------------------------------------------
Kept ==
  \A i \in items :
    \/ \E j \in items' : j.id = i.id
    \/ ~ Exists(i.path)'
    \/ items' = saved

LEMMA KeptStep == TypeInv /\ [Next]_vars => [Kept]_vars
  <1> SUFFICES ASSUME TypeInv, Next PROVE Kept \/ UNCHANGED vars
    OBVIOUS
  <1>0. items \subseteq items' => Kept
    BY DEF Kept
  <1>1. ASSUME NEW t \in Tasks, ImportStep(t) \/ RescanStep(t) PROVE items \subseteq items'
    BY <1>1
    DEF ImportStep, RescanStep, BeginImport, SkipSource, ChooseTarget, CopyFile,
        KeepCopy, DropCopy, FinishImport, BeginRescan, CollectFiles, SkipFile,
        IndexFile, FinishRescan, AddFound
  <1>2. ASSUME NEW i \in items, DeleteItem(i) PROVE Kept
    <2>1. items \ {i} \subseteq items' /\ files' = [files EXCEPT ![i.path] = Nil]
      BY <1>2 DEF DeleteItem
    <2>2. i.path \in Path /\ files \in [Path -> Stored \cup {Nil}]
      BY DEF TypeInv, TypeOK, Item
    <2> QED
      BY <2>1, <2>2 DEF Kept, Exists
  <1>3. ASSUME NEW i \in items, CrashInDelete(i) PROVE items' = saved
    BY <1>3 DEF CrashInDelete, Ends
  <1>4. ASSUME Crash PROVE items' = saved
    BY <1>4 DEF Crash, Ends
  <1>5. ASSUME NEW p \in Path, UserActs(p) PROVE items' = items
    BY <1>5 DEF UserActs
  <1>6. ASSUME NEW s \in syncs, RecordSnapshot(s) PROVE Kept
    <2>1. \A i \in items : Rewrite(i, s) \in items' /\ Rewrite(i, s).id = i.id
      BY <1>6, RewriteType DEF RecordSnapshot, TypeInv, TypeOK
    <2> QED
      BY <2>1 DEF Kept
  <1> QED
    BY <1>0, <1>1, <1>2, <1>3, <1>4, <1>5, <1>6
    DEF Kept, Next, TakeSnapshot, DropSnapshot, UserRemovesFile, UserWritesFile

(* With any number of overlapping commands an item leaves the index only    *)
(* when its file goes or the application restarts (the second locked        *)
(* sections of import_paths and rescan_vault, delete_item, and the section  *)
(* of a sync that records a snapshot).                                      *)
THEOREM ItemsKept == Spec => NoLostItems
  <1>1. TypeInv /\ [Next]_vars => [Kept]_vars
    BY KeptStep
  <1>2. [][Kept]_vars => NoLostItems
    <2>1. [Kept]_vars <=>
            [\A i \in items :
               \/ \E j \in items' : j.id = i.id
               \/ ~ Exists(i.path)'
               \/ items' = saved]_vars
      BY DEF Kept
    <2> QED
      BY <2>1, PTL DEF NoLostItems
  <1> QED
    BY <1>1, <1>2, TypeInvariant, PTL DEF Spec
-----------------------------------------------------------------------------
(* RescanCovers.  What a rescan goes by while it works without the lock: a  *)
(* path it takes for indexed is still the path of an item, or its file is   *)
(* gone; and every file is still to be looked at, has an item in the index  *)
(* or among what was found, or holds a content known to the rescan.         *)
Covered(k, fs, list) ==
  /\ k.step \in {"collect", "scan"} =>
       \A ps \in k.paths : (\E i \in list : i.path = ps[1]) \/ fs[ps[1]] = Nil
  /\ k.step = "scan" =>
       \A p \in Path : fs[p] # Nil =>
          \/ p \in k.todo
          \/ \E i \in list \cup k.found : i.path = p
          \/ fs[p] \in k.known

CoverInv == \A t \in Tasks : Covered(task[t], files, items)

LEMMA CoveredElsewhere ==
  ASSUME NEW k, k.step \notin {"collect", "scan"}, NEW fs, NEW list
  PROVE  Covered(k, fs, list)
  BY DEF Covered

(* The only command there is moves to k.                                    *)
LEMMA SetCovered ==
  ASSUME OneCommand, task \in [Tasks -> Task], NEW t \in Tasks, NEW k,
         task' = [task EXCEPT ![t] = k], Covered(k, files', items')
  PROVE  CoverInv'
  BY DEF OneCommand, CoverInv

LEMMA CoverStep ==
  ASSUME OneCommand, {"meanwhile", "unreadable"} \cap Failures = {},
         TypeInv, CoverInv, [Next]_vars
  PROVE  CoverInv'
  <1>a. /\ task \in [Tasks -> Task] /\ items \subseteq Item
        /\ files \in [Path -> Stored \cup {Nil}] /\ IdleTask.step = "idle"
    BY DEF TypeInv, TypeOK, IdleTask
  <1>b. \A t \in Tasks : \A k :
           k.step \notin {"collect", "scan"} /\ task' = [task EXCEPT ![t] = k] => CoverInv'
    BY <1>a, CoveredElsewhere, SetCovered
  <1>c. ASSUME NEW t \in Tasks, NEW s, task' = [task EXCEPT ![t] = Done(@, s)]
        PROVE  CoverInv'
    <2>1. Done(task[t], s).step = "next"
      BY <1>a DEF Done, Task
    <2>2. task' = [task EXCEPT ![t] = Done(task[t], s)]
      BY <1>a, <1>c
    <2> QED
      BY <1>b, <2>1, <2>2
  <1>1. ASSUME NEW t \in Tasks, BeginImport(t) PROVE CoverInv'
    <2>1. PICK chosen : task' = [task EXCEPT ![t] = [IdleTask EXCEPT
                         !.step = "next", !.sources = chosen,
                         !.known = Checksums(items)]]
      BY <1>1 DEF BeginImport
    <2>2. [IdleTask EXCEPT !.step = "next", !.sources = chosen,
                           !.known = Checksums(items)].step = "next"
      BY DEF IdleTask
    <2> QED
      BY <1>b, <2>1, <2>2
  <1>2. ASSUME NEW t \in Tasks, SkipSource(t) PROVE CoverInv'
    BY <1>c, <1>2 DEF SkipSource
  <1>3. ASSUME NEW t \in Tasks, ChooseTarget(t) PROVE CoverInv'
    <2>1. PICK s, p : task' = [task EXCEPT ![t].step = "copy", ![t].source = s,
                                           ![t].target = p]
      BY <1>3 DEF ChooseTarget
    <2> DEFINE k == [task[t] EXCEPT !.step = "copy", !.source = s, !.target = p]
    <2>2. k.step = "copy"
      BY <1>a DEF Task
    <2>3. task' = [task EXCEPT ![t] = k]
      BY <1>a, <2>1
    <2> HIDE DEF k
    <2> QED
      BY <1>b, <2>2, <2>3
  <1>4. ASSUME NEW t \in Tasks, CopyFile(t) PROVE CoverInv'
    <2>1. CASE task' = [task EXCEPT ![t].step = "verify"]
      <3> DEFINE k == [task[t] EXCEPT !.step = "verify"]
      <3>1. k.step = "verify" /\ task' = [task EXCEPT ![t] = k]
        BY <1>a, <2>1 DEF Task
      <3> HIDE DEF k
      <3> QED
        BY <1>b, <3>1
    <2> QED
      BY <1>c, <1>4, <2>1 DEF CopyFile
  <1>5. ASSUME NEW t \in Tasks, KeepCopy(t) PROVE CoverInv'
    <2>0. PICK id \in FreshIds :
            task' = [task EXCEPT ![t] = Done(Found(task[t],
                       ItemAt(id, task[t].target, "joined", task[t].source.content)),
                       task[t].source)]
      BY <1>5, <1>a DEF KeepCopy
    <2> DEFINE f == Found(task[t], ItemAt(id, task[t].target, "joined", task[t].source.content))
               k == Done(f, task[t].source)
    <2>1. k.step = "next"
      BY <1>a DEF Done, Found, Task
    <2>2. task' = [task EXCEPT ![t] = k]
      BY <2>0
    <2> HIDE DEF k
    <2> QED
      BY <1>b, <2>1, <2>2
  <1>6. ASSUME NEW t \in Tasks, DropCopy(t) PROVE CoverInv'
    BY <1>c, <1>6, <1>a DEF DropCopy
  <1>7. ASSUME NEW t \in Tasks, FinishImport(t) \/ FinishRescan(t) PROVE CoverInv'
    BY <1>a, <1>b, <1>7 DEF FinishImport, FinishRescan, AddFound
  <1>8. ASSUME NEW t \in Tasks, BeginRescan(t) PROVE CoverInv'
    <2> DEFINE k == [IdleTask EXCEPT !.step = "collect", !.known = Checksums(items),
                       !.paths = {<<i.path, i.spelling>> : i \in items}]
    <2>1. k.step = "collect" /\ k.paths = {<<i.path, i.spelling>> : i \in items}
      BY DEF IdleTask
    <2>2. task' = [task EXCEPT ![t] = k] /\ files' = files /\ items' = items
      BY <1>8 DEF BeginRescan
    <2> HIDE DEF k
    <2>3. Covered(k, files, items)
      BY <2>1 DEF Covered
    <2> QED
      BY <1>a, <2>2, <2>3, SetCovered
  <1>9. ASSUME NEW t \in Tasks, CollectFiles(t) PROVE CoverInv'
    <2> DEFINE k == [task[t] EXCEPT !.step = "scan", !.todo = {p \in Path : Exists(p)}]
    <2>1. /\ k.paths = task[t].paths /\ k.todo = {p \in Path : Exists(p)}
          /\ k.step = "scan"
      BY <1>a DEF Task
    <2>2. task' = [task EXCEPT ![t] = k] /\ files' = files /\ items' = items
      BY <1>9, <1>a DEF CollectFiles
    <2> HIDE DEF k
    <2>3. Covered(k, files, items)
      BY <1>9, <2>1 DEF CollectFiles, CoverInv, Covered, Exists
    <2> QED
      BY <1>a, <2>2, <2>3, SetCovered
  <1>10. ASSUME NEW t \in Tasks, SkipFile(t) PROVE CoverInv'
    <2>1. PICK p \in task[t].todo :
            /\ Indexed(t, p) \/ ~ Exists(p) \/ files[p] \in task[t].known
            /\ task' = [task EXCEPT ![t] = Scanned(@, p)]
      BY <1>10 DEF SkipFile
    <2> DEFINE k == Scanned(task[t], p)
    <2>2. /\ k.step = "scan" /\ k.paths = task[t].paths /\ k.known = task[t].known
          /\ k.found = task[t].found /\ k.todo = task[t].todo \ {p}
      BY <1>10, <1>a DEF SkipFile, Scanned, Task
    <2>3. task' = [task EXCEPT ![t] = k] /\ files' = files /\ items' = items
      BY <1>10, <1>a, <2>1 DEF SkipFile
    <2>4. Covered(task[t], files, items) /\ task[t].step = "scan"
      BY <1>10 DEF SkipFile, CoverInv
    <2> HIDE DEF k
    <2>5. Indexed(t, p) => (\E i \in items : i.path = p) \/ files[p] = Nil
      <3>1. Indexed(t, p) => <<p, Canonical>> \in task[t].paths
        BY DEF Indexed
      <3> QED
        BY <2>4, <3>1 DEF Covered
    <2>6. Covered(k, files, items)
      BY <2>1, <2>2, <2>4, <2>5 DEF Covered, Exists
    <2> QED
      BY <1>a, <2>3, <2>6, SetCovered
  <1>11. ASSUME NEW t \in Tasks, IndexFile(t) PROVE CoverInv'
    <2>1. PICK p \in task[t].todo :
            \E id \in FreshIds :
               task' = [task EXCEPT ![t] =
                  Scanned(Found(@, ItemAt(id, p, Canonical, files[p])), p)]
      BY <1>11 DEF IndexFile
    <2>0. PICK id \in FreshIds :
            task' = [task EXCEPT ![t] =
                  Scanned(Found(@, ItemAt(id, p, Canonical, files[p])), p)]
      BY <2>1
    <2> DEFINE i == ItemAt(id, p, Canonical, files[p])
               k == Scanned(Found(task[t], i), p)
    <2>2. /\ k.step = "scan" /\ k.paths = task[t].paths
          /\ k.known = task[t].known \cup {i.checksum}
          /\ k.found = task[t].found \cup {i} /\ k.todo = task[t].todo \ {p}
      BY <1>11, <1>a DEF IndexFile, Scanned, Found, Task
    <2>3. task' = [task EXCEPT ![t] = k] /\ files' = files /\ items' = items
      BY <1>11, <1>a, <2>0 DEF IndexFile
    <2>4. Covered(task[t], files, items) /\ task[t].step = "scan"
      BY <1>11 DEF IndexFile, CoverInv
    <2>5. i.path = p
      BY DEF ItemAt
    <2> HIDE DEF i, k
    <2>6. Covered(k, files, items)
      BY <2>2, <2>4, <2>5 DEF Covered
    <2> QED
      BY <1>a, <2>3, <2>6, SetCovered
  <1>12. ASSUME NEW i \in items, DeleteItem(i) PROVE CoverInv'
    <2>1. /\ files' = [files EXCEPT ![i.path] = Nil]
          /\ items' = items \ {i} /\ task' = task /\ i.path \in Path
      BY <1>12, <1>a DEF DeleteItem, Item
    <2>2. \A p \in Path : files'[p] = IF p = i.path THEN Nil ELSE files[p]
      BY <2>1, <1>a
    <2>3. ASSUME NEW t \in Tasks PROVE Covered(task[t], files', items')
      <3>1. Covered(task[t], files, items)
        BY DEF CoverInv
      <3>2. \A ps \in task[t].paths : ps[1] \in Path
        BY <1>a DEF Task
      <3> QED
        BY <2>1, <2>2, <3>1, <3>2 DEF Covered
    <2> QED
      BY <2>1, <2>3 DEF CoverInv
  <1>13. ASSUME NEW removed, Ends(removed) PROVE CoverInv'
    <2>1. task' = [t \in Tasks |-> IdleTask]
      BY <1>13 DEF Ends
    <2> QED
      BY <1>a, <2>1, CoveredElsewhere DEF CoverInv
  <1>14. ASSUME NEW i \in items, CrashInDelete(i) PROVE CoverInv'
    BY <1>13, <1>14 DEF CrashInDelete
  <1>15. CASE Crash
    BY <1>13, <1>15 DEF Crash
  <1>16. ASSUME NEW p, UserActs(p) PROVE CoverInv'
    <2>1. task' = task /\ \A t \in Tasks : task[t].step = "idle"
      BY <1>16 DEF UserActs, Quiet
    <2> QED
      BY <2>1, CoveredElsewhere DEF CoverInv
  <1>17. ASSUME NEW s \in syncs, RecordSnapshot(s) PROVE CoverInv'
    <2>1. /\ UNCHANGED <<files, task>> /\ syncs \subseteq Snapshot
          /\ items' = {Rewrite(i, s) : i \in items}
      BY <1>17 DEF RecordSnapshot, TypeInv, TypeOK
    <2>2. \A i \in items : Rewrite(i, s) \in items' /\ Rewrite(i, s).path = i.path
      BY <2>1, <1>a, RewriteType
    <2>3. \A p : (\E i \in items : i.path = p) => \E i \in items' : i.path = p
      BY <2>2
    <2>4. ASSUME NEW t \in Tasks PROVE Covered(task[t], files', items')
      <3>1. Covered(task[t], files, items)
        BY DEF CoverInv
      <3>2. \A p : (\E i \in items \cup task[t].found : i.path = p)
                   => \E i \in items' \cup task[t].found : i.path = p
        BY <2>3
      <3> QED
        BY <2>1, <2>3, <3>1, <3>2 DEF Covered
    <2> QED
      BY <2>1, <2>4 DEF CoverInv
  <1>18. CASE UNCHANGED <<files, items, task>>
    BY <1>18 DEF CoverInv
  <1> QED
    BY <1>1, <1>2, <1>3, <1>4, <1>5, <1>6, <1>7, <1>8, <1>9, <1>10, <1>11,
       <1>12, <1>14, <1>15, <1>16, <1>17, <1>18
    DEF Next, ImportStep, RescanStep, TakeSnapshot, DropSnapshot, UserRemovesFile,
        UserWritesFile, vars

Covering ==
  \A t \in Tasks : FinishRescan(t) =>
     \A p \in Path : Exists(p) =>
        \/ \E i \in items' : i.path = p
        \/ files[p] \in Checksums(items')
                           \cup (task[t].known \ Checksums(task[t].found))

LEMMA CoveringStep == CoverInv => Covering
  <1> SUFFICES ASSUME CoverInv, NEW t \in Tasks, FinishRescan(t),
                      NEW p \in Path, Exists(p)
               PROVE  \/ \E i \in items' : i.path = p
                      \/ files[p] \in Checksums(items')
                            \cup (task[t].known \ Checksums(task[t].found))
    BY DEF Covering
  <1>1. /\ task[t].step = "scan" /\ task[t].todo = {}
        /\ items' = items \cup task[t].found
    BY DEF FinishRescan, AddFound
  <1>2. \/ \E i \in items \cup task[t].found : i.path = p
        \/ files[p] \in task[t].known
    BY <1>1 DEF CoverInv, Covered, Exists
  <1>3. Checksums(task[t].found) \subseteq Checksums(items')
    BY <1>1 DEF Checksums
  <1> QED
    BY <1>1, <1>2, <1>3

(* While imports and rescans do not overlap, every file can be read and the *)
(* user leaves the folder alone during a command, a rescan that ends leaves *)
(* no file of the vault out of the index, whatever is deleted while it runs *)
(* and however earlier commands were cut short (index_vault_files).         *)
THEOREM CoversCorrect ==
  ASSUME OneCommand, {"meanwhile", "unreadable"} \cap Failures = {}
  PROVE  Spec => RescanCovers
  <1>1. Init => TypeInv /\ CoverInv
    <2>1. Init => CoverInv
      BY CoveredElsewhere DEF Init, CoverInv, IdleTask
    <2> QED
      BY <2>1, TypeInit
  <1>2. TypeInv /\ CoverInv /\ [Next]_vars => (TypeInv /\ CoverInv)'
    BY TypeStep, CoverStep
  <1>3. CoverInv => [Covering]_vars
    BY CoveringStep
  <1>4. [][Covering]_vars => RescanCovers
    <2>1. [Covering]_vars <=>
            [\A t \in Tasks : FinishRescan(t) =>
               \A p \in Path : Exists(p) =>
                  \/ \E i \in items' : i.path = p
                  \/ files[p] \in Checksums(items')
                        \cup (task[t].known \ Checksums(task[t].found))]_vars
      BY DEF Covering
    <2> QED
      BY <2>1, PTL DEF RescanCovers
  <1> QED
    BY <1>1, <1>2, <1>3, <1>4, PTL DEF Spec
=============================================================================
