-------------------------- MODULE ItemSyncProofs ---------------------------
(***************************************************************************)
(* What ItemSync guarantees for any number of items, files, accounts and    *)
(* concurrent sync commands, under every failure the module allows.         *)
(***************************************************************************)
EXTENDS ItemSync, TLAPS

(* What a command in flight holds: its item, its snapshot once prepared,    *)
(* and, as a result, only a copy the provider accepted for its item.        *)
JobOK ==
    \A t \in Tasks :
        /\ job[t].pc # "idle" => job[t].item \in Items
        /\ job[t].pc \in {"start", "find", "send", "check"}
               => job[t].content \in Contents

TypeInv == TypeOK /\ JobOK

-----------------------------------------------------------------------------
(* The record operators stay within VaultItem, Job and Copy.                *)

LEMMA NewItemType == \A c \in Contents : NewItem(c) \in VaultItem
  BY DEF NewItem, VaultItem, SyncStates

LEMMA SyncingType ==
  ASSUME NEW rec \in VaultItem, NEW p \in AllProviders, NEW c \in Contents,
         NEW a \in Accounts \cup {Nil}
  PROVE  Syncing(rec, p, c, a) \in VaultItem
  BY DEF Syncing, VaultItem, SyncStates

LEMMA FinishedType ==
  ASSUME NEW rec \in VaultItem, NEW r \in Job
  PROVE  Finished(rec, r) \in VaultItem
  BY DEF Finished, VaultItem, SyncStates, Job

LEMMA MarkMissingType ==
  ASSUME TypeOK, NEW i \in Items
  PROVE  MarkMissing(i) \in VaultItem \cup {Nil}
  BY DEF MarkMissing, TypeOK, VaultItem, SyncStates, AllProviders

LEMMA IdleJobType == IdleJob \in Job
  BY AttemptsAssumption DEF IdleJob, Job, PCs, AllProviders

LEMMA CopyType ==
  ASSUME NEW r \in Job, r.item \in Items, r.content \in Contents
  PROVE  CopyOf(r) \in Copy
  BY DEF CopyOf, Copy, Job

(* A save leaves both lists well typed, whether it succeeds or fails.       *)
LEMMA PersistType ==
  ASSUME TypeOK, NEW list \in [Items -> VaultItem \cup {Nil}], Persist(list)
  PROVE  /\ items' \in [Items -> VaultItem \cup {Nil}]
         /\ saved' \in [Items -> VaultItem \cup {Nil}]
         /\ lastSave' \in {"ok", "failed"}
  BY DEF Persist, SaveFails, TypeOK

(* Moving one command keeps the others as they were.                        *)
LEMMA AdvanceType ==
  ASSUME TypeInv, NEW t \in Tasks, NEW r \in Job, Advance(t, r),
         r.pc # "idle" => r.item \in Items,
         r.pc \in {"start", "find", "send", "check"} => r.content \in Contents
  PROVE  job' \in [Tasks -> Job] /\ JobOK'
  BY DEF Advance, TypeInv, TypeOK, JobOK

LEMMA ReturnType ==
  ASSUME TypeInv, NEW t \in Tasks, Return(t)
  PROVE  job' \in [Tasks -> Job] /\ JobOK'
  <1>1. IdleJob.pc = "idle"  BY DEF IdleJob
  <1> QED  BY <1>1, IdleJobType, AdvanceType DEF Return

-----------------------------------------------------------------------------
(* Type correctness: one lemma per group of actions.                        *)

LEMMA TypeInit == Init => TypeInv
  <1> SUFFICES ASSUME Init PROVE TypeInv
    OBVIOUS
  <1>1. TypeOK
    BY IdleJobType DEF Init, TypeOK
  <1>2. JobOK
    BY DEF Init, JobOK, IdleJob
  <1> QED  BY <1>1, <1>2 DEF TypeInv

LEMMA TypeVault ==
  ASSUME TypeInv,
         \/ \E i \in Items, c \in Contents : ImportItem(i, c)
         \/ \E i \in Items : DeleteItem(i)
         \/ RescanVault
         \/ \E i \in Items, c \in Contents \cup {Nil} : UserEditsFile(i, c)
  PROVE  TypeInv'
  <1> USE DEF TypeInv
  <1>1. ASSUME NEW i \in Items, NEW c \in Contents, ImportItem(i, c)
        PROVE  TypeInv'
    <2> DEFINE list == [items EXCEPT ![i] = NewItem(c)]
    <2>1. list \in [Items -> VaultItem \cup {Nil}]
      BY NewItemType DEF TypeOK
    <2>2. Persist(list)
      BY <1>1 DEF ImportItem
    <2> HIDE DEF list
    <2>3. /\ items' \in [Items -> VaultItem \cup {Nil}]
          /\ saved' \in [Items -> VaultItem \cup {Nil}]
          /\ lastSave' \in {"ok", "failed"}
      BY <2>1, <2>2, PersistType
    <2> QED  BY <1>1, <2>3 DEF ImportItem, TypeOK, JobOK
  <1>2. ASSUME NEW i \in Items, DeleteItem(i)
        PROVE  TypeInv'
    <2> DEFINE list == [items EXCEPT ![i] = Nil]
    <2>1. list \in [Items -> VaultItem \cup {Nil}]
      BY DEF TypeOK
    <2>2. Persist(list)
      BY <1>2 DEF DeleteItem
    <2> HIDE DEF list
    <2>3. /\ items' \in [Items -> VaultItem \cup {Nil}]
          /\ saved' \in [Items -> VaultItem \cup {Nil}]
          /\ lastSave' \in {"ok", "failed"}
      BY <2>1, <2>2, PersistType
    <2> QED  BY <1>2, <2>3 DEF DeleteItem, TypeOK, JobOK
  <1>3. ASSUME RescanVault PROVE TypeInv'
    <2> DEFINE list == [i \in Items |-> MarkMissing(i)]
    <2>1. list \in [Items -> VaultItem \cup {Nil}]
      BY MarkMissingType
    <2>2. Persist(list)
      BY <1>3 DEF RescanVault
    <2> HIDE DEF list
    <2>3. /\ items' \in [Items -> VaultItem \cup {Nil}]
          /\ saved' \in [Items -> VaultItem \cup {Nil}]
          /\ lastSave' \in {"ok", "failed"}
      BY <2>1, <2>2, PersistType
    <2> QED  BY <1>3, <2>3 DEF RescanVault, TypeOK, JobOK
  <1>4. ASSUME NEW i \in Items, NEW c \in Contents \cup {Nil}, UserEditsFile(i, c)
        PROVE  TypeInv'
    BY <1>4 DEF UserEditsFile, TypeOK, JobOK
  <1> QED  BY <1>1, <1>2, <1>3, <1>4

LEMMA TypeBegin ==
  ASSUME TypeInv, NEW t \in Tasks, NEW i \in Items, NEW p \in AllProviders,
         NEW r \in Accounts \cup {Nil}, Begin(t, i, p, r)
  PROVE  TypeInv'
  <1> DEFINE rec == [IdleJob EXCEPT !.pc = "prepare", !.provider = p, !.item = i,
                                    !.requested = r]
  <1>1. rec \in Job /\ rec.item \in Items /\ rec.pc = "prepare"
    BY IdleJobType DEF Job, PCs, IdleJob
  <1>2. Advance(t, rec)
    BY DEF Begin
  <1> HIDE DEF rec
  <1>3. job' \in [Tasks -> Job] /\ JobOK'
    BY <1>1, <1>2, AdvanceType
  <1> QED  BY <1>3 DEF Begin, TypeInv, TypeOK

(* A command whose state records move within Job keeps the type invariant.  *)
LEMMA TypePrepare ==
  ASSUME TypeInv, NEW t \in Tasks, PrepareSnapshot(t) \/ ItemGone(t) \/ SkipDrive(t)
  PROVE  TypeInv'
  <1>1. job' \in [Tasks -> Job] /\ JobOK'
    <2>1. CASE Return(t)
      BY <2>1, ReturnType
    <2>2. CASE PrepareSnapshot(t) /\ ~ Return(t)
      <3> DEFINE rec == [job[t] EXCEPT !.pc = "start", !.content = disk[job[t].item]]
      <3>1. job[t] \in Job /\ job[t].pc # "idle" /\ job[t].item \in Items
        BY <2>2 DEF PrepareSnapshot, TypeInv, TypeOK, JobOK
      <3>2. disk[job[t].item] \in Contents
        BY <2>2, <3>1 DEF PrepareSnapshot, TypeInv, TypeOK
      <3>3. rec \in Job /\ rec.item \in Items /\ rec.content \in Contents
        BY <3>1, <3>2 DEF Job, PCs
      <3>4. Advance(t, rec)
        BY <2>2 DEF PrepareSnapshot
      <3> HIDE DEF rec
      <3> QED  BY <3>3, <3>4, AdvanceType
    <2> QED  BY <2>1, <2>2 DEF ItemGone, SkipDrive
  <1> QED  BY <1>1 DEF PrepareSnapshot, ItemGone, SkipDrive, TypeInv, TypeOK

LEMMA TypeStart ==
  ASSUME TypeInv, NEW t \in Tasks, StartTelegram(t) \/ StartDrive(t)
  PROVE  TypeInv'
  <1> DEFINE i == job[t].item
  <1>1. /\ job[t] \in Job /\ job[t].pc = "start"
        /\ i \in Items /\ job[t].content \in Contents
        /\ items[i] \in VaultItem
    BY DEF StartTelegram, StartDrive, At, TypeInv, TypeOK, JobOK
  <1>2. CASE StartTelegram(t)
    <2> DEFINE rec  == Syncing(items[i], "telegram", job[t].content,
                               items[i].driveAccountId)
               list == [items EXCEPT ![i] = rec]
               next == [job[t] EXCEPT !.pc = "send"]
    <2>1. items[i].driveAccountId \in Accounts \cup {Nil}
      BY <1>1 DEF VaultItem
    <2>2. rec \in VaultItem
      BY <1>1, <2>1, SyncingType DEF AllProviders
    <2>3. list \in [Items -> VaultItem \cup {Nil}]
      BY <2>2 DEF TypeInv, TypeOK
    <2>4. Persist(list) /\ (Advance(t, next) \/ Return(t))
      BY <1>2, <1>1 DEF StartTelegram, TypeInv, TypeOK
    <2>5. next \in Job /\ next.item \in Items /\ next.content \in Contents
      BY <1>1 DEF Job, PCs
    <2> HIDE DEF list, next
    <2>6. job' \in [Tasks -> Job] /\ JobOK'
      BY <2>4, <2>5, AdvanceType, ReturnType
    <2>7. /\ items' \in [Items -> VaultItem \cup {Nil}]
          /\ saved' \in [Items -> VaultItem \cup {Nil}]
          /\ lastSave' \in {"ok", "failed"}
      BY <2>3, <2>4, PersistType DEF TypeInv
    <2> QED  BY <1>2, <2>6, <2>7 DEF StartTelegram, TypeInv, TypeOK
  <1>3. CASE StartDrive(t)
    <2>1. PICK a \in SelectAccount(items[i], job[t].requested) :
            /\ Persist([items EXCEPT ![i] = Syncing(@, "drive", job[t].content, a)])
            /\ IF lastSave' = "ok"
               THEN Advance(t, [job[t] EXCEPT !.pc = "find", !.account = a,
                                              !.requested = Nil])
               ELSE Return(t)
      BY <1>3 DEF StartDrive
    <2> DEFINE rec  == Syncing(items[i], "drive", job[t].content, a)
               list == [items EXCEPT ![i] = rec]
               next == [job[t] EXCEPT !.pc = "find", !.account = a,
                                      !.requested = Nil]
    <2>2. a \in Accounts \cup {Nil}
      BY <1>1 DEF SelectAccount, Job, VaultItem
    <2>3. rec \in VaultItem
      BY <1>1, <2>2, SyncingType DEF AllProviders
    <2>4. list \in [Items -> VaultItem \cup {Nil}]
      BY <2>3 DEF TypeInv, TypeOK
    <2>5. Persist(list) /\ (Advance(t, next) \/ Return(t))
      BY <2>1, <1>1 DEF TypeInv, TypeOK
    <2>6. next \in Job /\ next.item \in Items /\ next.content \in Contents
      BY <1>1, <2>2 DEF Job, PCs
    <2> HIDE DEF list, next
    <2>7. job' \in [Tasks -> Job] /\ JobOK'
      BY <2>5, <2>6, AdvanceType, ReturnType
    <2>8. /\ items' \in [Items -> VaultItem \cup {Nil}]
          /\ saved' \in [Items -> VaultItem \cup {Nil}]
          /\ lastSave' \in {"ok", "failed"}
      BY <2>4, <2>5, PersistType DEF TypeInv
    <2> QED  BY <1>3, <2>7, <2>8 DEF StartDrive, TypeInv, TypeOK
  <1> QED  BY <1>2, <1>3

LEMMA TypeUpload ==
  ASSUME TypeInv, NEW t \in Tasks,
         SendTelegram(t) \/ FindDrive(t) \/ SendDrive(t) \/ CheckSource(t)
  PROVE  TypeInv'
  <1>1. /\ job[t] \in Job /\ job[t].item \in Items /\ job[t].content \in Contents
        /\ job[t].pc \in {"send", "find", "check"}
    BY DEF SendTelegram, FindDrive, SendDrive, CheckSource, At, TypeInv, TypeOK, JobOK
  <1>2. copies' \in [Handles -> Copy \cup {Nil}]
    <2>1. ASSUME NEW h \in Handles, Accept(h, job[t])
          PROVE  copies' \in [Handles -> Copy \cup {Nil}]
      BY <1>1, <2>1, CopyType DEF Accept, TypeInv, TypeOK
    <2>2. copies \in [Handles -> Copy \cup {Nil}]
      BY DEF TypeInv, TypeOK
    <2> QED  BY <2>1, <2>2 DEF SendTelegram, FindDrive, SendDrive, CheckSource
  <1>3. job' \in [Tasks -> Job] /\ JobOK'
    <2>1. ASSUME NEW h \in Handles \cup {Nil}, UploadEnds(t, h)
          PROVE  job' \in [Tasks -> Job] /\ JobOK'
      <3> DEFINE rec == [job[t] EXCEPT !.pc = "check", !.sent = 0, !.result = h]
      <3>1. 0 \in 0 .. MaxAttempts
        BY AttemptsAssumption
      <3>2. rec \in Job /\ rec.item \in Items /\ rec.content \in Contents
        BY <1>1, <3>1 DEF Job, PCs
      <3>3. Advance(t, rec)
        BY <2>1 DEF UploadEnds
      <3>4. rec.pc = "check"
        BY <1>1 DEF Job
      <3> HIDE DEF rec
      <3> QED  BY <3>2, <3>3, AdvanceType
    <2>2. ASSUME job[t].sent + 1 < MaxAttempts,
                 Advance(t, [job[t] EXCEPT !.sent = @ + 1])
          PROVE  job' \in [Tasks -> Job] /\ JobOK'
      <3> DEFINE rec == [job[t] EXCEPT !.sent = job[t].sent + 1]
      <3>1. job[t].sent \in 0 .. MaxAttempts
        BY <1>1 DEF Job
      <3>2. job[t].sent + 1 \in 0 .. MaxAttempts
        BY <2>2, <3>1, AttemptsAssumption
      <3>3. rec \in Job /\ rec.item \in Items /\ rec.content \in Contents
        BY <1>1, <3>2 DEF Job
      <3>4. Advance(t, rec)
        BY <2>2
      <3> HIDE DEF rec
      <3> QED  BY <3>3, <3>4, AdvanceType
    <2>3. ASSUME Advance(t, [job[t] EXCEPT !.pc = "send"])
          PROVE  job' \in [Tasks -> Job] /\ JobOK'
      <3> DEFINE rec == [job[t] EXCEPT !.pc = "send"]
      <3>1. rec \in Job /\ rec.item \in Items /\ rec.content \in Contents
        BY <1>1 DEF Job, PCs
      <3>2. Advance(t, rec)
        BY <2>3
      <3> HIDE DEF rec
      <3> QED  BY <3>1, <3>2, AdvanceType
    <2>4. CASE CheckSource(t)
      <3> DEFINE rec == [job[t] EXCEPT !.pc = "finish", !.content = Nil,
                             !.account = Nil,
                             !.unchanged = (disk[job[t].item] = job[t].content)]
      <3>1. rec \in Job /\ rec.item \in Items /\ rec.pc = "finish"
        BY <1>1 DEF Job, PCs
      <3>2. Advance(t, rec)
        BY <2>4 DEF CheckSource
      <3> HIDE DEF rec
      <3> QED  BY <3>1, <3>2, AdvanceType
    <2>5. CASE SendTelegram(t)
      BY <2>5, <2>1, <2>2 DEF SendTelegram
    <2>6. CASE FindDrive(t)
      BY <2>6, <2>1, <2>3 DEF FindDrive, Matching
    <2>7. CASE SendDrive(t)
      BY <2>7, <2>1 DEF SendDrive, Matching
    <2> QED  BY <2>4, <2>5, <2>6, <2>7
  <1> QED
    BY <1>2, <1>3 DEF SendTelegram, FindDrive, SendDrive, CheckSource, TypeInv, TypeOK

LEMMA TypeFinish ==
  ASSUME TypeInv, NEW t \in Tasks, FinishTelegram(t) \/ FinishDrive(t)
  PROVE  TypeInv'
  <1> DEFINE i    == job[t].item
             list == [items EXCEPT ![i] = Finished(items[i], job[t])]
  <1>1. /\ job[t] \in Job /\ i \in Items /\ items[i] \in VaultItem
        /\ job[t].provider \in AllProviders
    BY DEF FinishTelegram, FinishDrive, Finish, At, TypeInv, TypeOK, JobOK, Job
  <1>2. list \in [Items -> VaultItem \cup {Nil}]
    BY <1>1, FinishedType DEF TypeInv, TypeOK
  <1>3. Persist(list) /\ Return(t)
    BY <1>1 DEF FinishTelegram, FinishDrive, Finish, TypeInv, TypeOK
  <1> HIDE DEF list
  <1>4. job' \in [Tasks -> Job] /\ JobOK'
    BY <1>3, ReturnType
  <1>5. /\ items' \in [Items -> VaultItem \cup {Nil}]
        /\ saved' \in [Items -> VaultItem \cup {Nil}]
        /\ lastSave' \in {"ok", "failed"}
    BY <1>2, <1>3, PersistType DEF TypeInv
  <1> QED
    BY <1>1, <1>4, <1>5 DEF FinishTelegram, FinishDrive, Finish, TypeInv, TypeOK

LEMMA TypeRestart == TypeInv /\ Restart => TypeInv'
  BY IdleJobType DEF Restart, TypeInv, TypeOK, JobOK, IdleJob

LEMMA TypeNext == TypeInv /\ [Next]_vars => TypeInv'
  <1> SUFFICES ASSUME TypeInv, [Next]_vars PROVE TypeInv'
    OBVIOUS
  <1>1. CASE Command
    <2>1. ASSUME NEW t \in Tasks, NEW i \in Items, BeginTelegram(t, i)
          PROVE  TypeInv'
      BY <2>1, TypeBegin DEF BeginTelegram, AllProviders
    <2>2. ASSUME NEW t \in Tasks, NEW i \in Items, NEW r \in Requested,
                 BeginDrive(t, i, r)
          PROVE  TypeInv'
      BY <2>2, TypeBegin, RequestedAssumption DEF BeginDrive, AllProviders
    <2> QED  BY <1>1, <2>1, <2>2, TypeVault DEF Command
  <1>2. CASE UserEdit
    BY <1>2, TypeVault DEF UserEdit
  <1>3. ASSUME NEW t \in Tasks, SyncStep(t)
        PROVE  TypeInv'
    BY <1>3, TypePrepare, TypeStart, TypeUpload, TypeFinish DEF SyncStep
  <1>4. CASE Restart
    BY <1>4, TypeRestart
  <1>5. CASE UNCHANGED vars
    BY <1>5 DEF vars, TypeInv, TypeOK, JobOK
  <1> QED  BY <1>1, <1>2, <1>3, <1>4, <1>5 DEF Next

LEMMA TypeInvariant == Spec => []TypeInv
  BY TypeInit, TypeNext, PTL DEF Spec

(* Every reachable state of the sync commands is well typed, in particular  *)
(* the attempts of an upload stay within TELEGRAM_UPLOAD_ATTEMPTS.          *)
THEOREM TypeCorrect == Spec => []TypeOK
  <1>1. TypeInv => TypeOK
    BY DEF TypeInv
  <1> QED  BY <1>1, TypeInvariant, PTL

-----------------------------------------------------------------------------
(* SavedUnlessFailed is inductive by itself: every handler that changes the *)
(* items ends in Persist, and a restart reads back what was saved.          *)

LEMMA SavedNext == SavedUnlessFailed /\ [Next]_vars => SavedUnlessFailed'
  <1> SUFFICES ASSUME SavedUnlessFailed, [Next]_vars PROVE SavedUnlessFailed'
    OBVIOUS
  <1>1. ASSUME NEW list, Persist(list) PROVE SavedUnlessFailed'
    BY <1>1 DEF Persist, SaveFails, SavedUnlessFailed
  <1>2. ASSUME UNCHANGED <<items, saved, lastSave>> PROVE SavedUnlessFailed'
    BY <1>2 DEF SavedUnlessFailed
  <1>3. CASE Command
    BY <1>1, <1>2, <1>3 DEF Command, ImportItem, DeleteItem, RescanVault,
       BeginTelegram, BeginDrive, Begin
  <1>4. CASE UserEdit
    BY <1>2, <1>4 DEF UserEdit, UserEditsFile
  <1>5. ASSUME NEW t \in Tasks, SyncStep(t) PROVE SavedUnlessFailed'
    <2>1. CASE StartTelegram(t)
      BY <1>1, <2>1 DEF StartTelegram
    <2>2. CASE StartDrive(t)
      BY <1>1, <2>2 DEF StartDrive
    <2>3. CASE FinishTelegram(t) \/ FinishDrive(t)
      BY <1>1, <2>3 DEF FinishTelegram, FinishDrive, Finish
    <2>4. CASE PrepareSnapshot(t) \/ ItemGone(t) \/ SkipDrive(t) \/ CheckSource(t)
      BY <1>2, <2>4 DEF PrepareSnapshot, ItemGone, SkipDrive, CheckSource
    <2>5. CASE SendTelegram(t) \/ FindDrive(t) \/ SendDrive(t)
      BY <1>2, <2>5 DEF SendTelegram, FindDrive, SendDrive
    <2> QED  BY <1>5, <2>1, <2>2, <2>3, <2>4, <2>5 DEF SyncStep
  <1>6. CASE Restart
    BY <1>6 DEF Restart, SavedUnlessFailed
  <1>7. CASE UNCHANGED vars
    BY <1>2, <1>7 DEF vars
  <1> QED  BY <1>3, <1>4, <1>5, <1>6, <1>7 DEF Next

(* Unless the last save failed, vault-state.json equals memory: no handler  *)
(* of the vault or of the sync commands leaves a change unsaved.            *)
THEOREM SavedCorrect == Spec => []SavedUnlessFailed
  <1>1. Init => SavedUnlessFailed
    BY DEF Init, SavedUnlessFailed
  <1> QED  BY <1>1, SavedNext, PTL DEF Spec

-----------------------------------------------------------------------------
(* SyncedIsBacked: the result a command carries is always a copy of its own *)
(* item at its own provider, and copies never change once accepted.         *)

ResultOK ==
    \A t \in Tasks :
        job[t].result # Nil =>
            /\ copies[job[t].result] # Nil
            /\ copies[job[t].result].item = job[t].item
            /\ copies[job[t].result].provider = job[t].provider

BackedInv == TypeInv /\ ResultOK /\ SyncedIsBacked

LEMMA CopyOfNotNil ==
  ASSUME NEW r \in Job, r.item \in Items, r.content \in Contents
  PROVE  CopyOf(r) # Nil
  BY CopyType, NilIsNoRecord

(* No step changes a copy that a provider holds.                            *)
LEMMA CopiesKept ==
  ASSUME TypeInv, [Next]_vars, NEW h \in Handles, copies[h] # Nil
  PROVE  copies'[h] = copies[h]
  <1>1. ASSUME NEW k \in Handles, NEW r, Accept(k, r) PROVE copies'[h] = copies[h]
    BY <1>1 DEF Accept, Fresh, TypeInv, TypeOK
  <1>2. CASE Command
    BY <1>2 DEF Command, ImportItem, DeleteItem, RescanVault, BeginTelegram,
       BeginDrive, Begin
  <1>3. CASE UserEdit
    BY <1>3 DEF UserEdit, UserEditsFile
  <1>4. ASSUME NEW t \in Tasks, SyncStep(t) PROVE copies'[h] = copies[h]
    <2>1. CASE SendTelegram(t)
      BY <1>1, <2>1 DEF SendTelegram
    <2>2. CASE SendDrive(t)
      BY <1>1, <2>2 DEF SendDrive
    <2>3. CASE StartTelegram(t) \/ StartDrive(t) \/ FinishTelegram(t) \/ FinishDrive(t)
      BY <2>3 DEF StartTelegram, StartDrive, FinishTelegram, FinishDrive, Finish
    <2>4. CASE PrepareSnapshot(t) \/ ItemGone(t) \/ SkipDrive(t) \/ CheckSource(t)
               \/ FindDrive(t)
      BY <2>4 DEF PrepareSnapshot, ItemGone, SkipDrive, CheckSource, FindDrive
    <2> QED  BY <1>4, <2>1, <2>2, <2>3, <2>4 DEF SyncStep
  <1>5. CASE Restart
    BY <1>5 DEF Restart
  <1>6. CASE UNCHANGED vars
    BY <1>6 DEF vars
  <1> QED  BY <1>2, <1>3, <1>4, <1>5, <1>6 DEF Next

(* Moving one command to a record whose result is sound keeps every result  *)
(* sound.                                                                   *)
LEMMA ResultAdvance ==
  ASSUME BackedInv, [Next]_vars, NEW t \in Tasks, NEW r, Advance(t, r),
         r.result # Nil =>
            /\ copies'[r.result] # Nil
            /\ copies'[r.result].item = r.item
            /\ copies'[r.result].provider = r.provider
  PROVE  ResultOK'
  <1> SUFFICES ASSUME NEW u \in Tasks, job'[u].result # Nil
               PROVE  /\ copies'[job'[u].result] # Nil
                      /\ copies'[job'[u].result].item = job'[u].item
                      /\ copies'[job'[u].result].provider = job'[u].provider
    BY DEF ResultOK
  <1>1. CASE u = t
    BY <1>1 DEF Advance, BackedInv, TypeInv, TypeOK
  <1>2. CASE u # t
    <2>1. job'[u] = job[u]
      BY <1>2 DEF Advance, BackedInv, TypeInv, TypeOK
    <2>2. job[u].result \in Handles /\ copies[job[u].result] # Nil
      BY <2>1 DEF BackedInv, ResultOK, TypeInv, TypeOK, Job
    <2>3. copies'[job[u].result] = copies[job[u].result]
      BY <2>2, CopiesKept DEF BackedInv
    <2> QED  BY <2>1, <2>3 DEF BackedInv, ResultOK
  <1> QED  BY <1>1, <1>2

(* The same for a record that keeps the command's result, item, provider.   *)
LEMMA ResultKept ==
  ASSUME BackedInv, [Next]_vars, NEW t \in Tasks, NEW r, Advance(t, r),
         r.result = job[t].result, r.item = job[t].item,
         r.provider = job[t].provider
  PROVE  ResultOK'
  <1>1. CASE r.result = Nil
    BY <1>1, ResultAdvance
  <1>2. CASE r.result # Nil
    <2>1. r.result \in Handles /\ copies[r.result] # Nil
      BY <1>2 DEF BackedInv, ResultOK, TypeInv, TypeOK, Job
    <2>2. copies'[r.result] = copies[r.result]
      BY <2>1, CopiesKept DEF BackedInv
    <2>3. /\ copies'[r.result] # Nil
          /\ copies'[r.result].item = r.item
          /\ copies'[r.result].provider = r.provider
      BY <1>2, <2>2 DEF BackedInv, ResultOK
    <2> QED  BY <2>3, ResultAdvance
  <1> QED  BY <1>1, <1>2

LEMMA ResultReturn ==
  ASSUME BackedInv, [Next]_vars, NEW t \in Tasks, Return(t)
  PROVE  ResultOK'
  <1>1. IdleJob.result = Nil
    BY DEF IdleJob
  <1> QED  BY <1>1, ResultAdvance DEF Return

LEMMA ResultUploadEnds ==
  ASSUME BackedInv, [Next]_vars, NEW t \in Tasks, NEW h \in Handles \cup {Nil},
         UploadEnds(t, h), job[t].pc \in {"find", "send"},
         h # Nil => copies'[h] = CopyOf(job[t])
  PROVE  ResultOK'
  <1> DEFINE r == [job[t] EXCEPT !.pc = "check", !.sent = 0, !.result = h]
  <1>1. /\ job[t] \in Job /\ job[t].item \in Items /\ job[t].content \in Contents
    BY DEF BackedInv, TypeInv, TypeOK, JobOK
  <1>2. r.result = h /\ r.item = job[t].item /\ r.provider = job[t].provider
    BY <1>1 DEF Job
  <1>3. CopyOf(job[t]) # Nil
    BY <1>1, CopyOfNotNil
  <1>4. /\ CopyOf(job[t]).item = job[t].item
        /\ CopyOf(job[t]).provider = job[t].provider
    BY DEF CopyOf
  <1>5. Advance(t, r)
    BY DEF UploadEnds
  <1> HIDE DEF r
  <1> QED  BY <1>2, <1>3, <1>4, <1>5, ResultAdvance

LEMMA ResultNext ==
  ASSUME BackedInv, [Next]_vars
  PROVE  ResultOK'
  <1> USE DEF BackedInv
  <1>2. ASSUME UNCHANGED job PROVE ResultOK'
    <2> SUFFICES ASSUME NEW v \in Tasks, job[v].result # Nil
                 PROVE  /\ copies'[job[v].result] # Nil
                        /\ copies'[job[v].result].item = job[v].item
                        /\ copies'[job[v].result].provider = job[v].provider
      BY <1>2 DEF ResultOK
    <2>1. job[v].result \in Handles /\ copies[job[v].result] # Nil
      BY DEF ResultOK, TypeInv, TypeOK, Job
    <2>2. copies'[job[v].result] = copies[job[v].result]
      BY <2>1, CopiesKept
    <2> QED  BY <2>2 DEF ResultOK
  <1>3. ASSUME NEW t \in Tasks, NEW i \in Items, NEW p \in AllProviders,
               NEW q, Begin(t, i, p, q)
        PROVE  ResultOK'
    <2> DEFINE r == [IdleJob EXCEPT !.pc = "prepare", !.provider = p, !.item = i,
                                    !.requested = q]
    <2>1. r.result = Nil
      BY DEF IdleJob
    <2>2. Advance(t, r)
      BY <1>3 DEF Begin
    <2> HIDE DEF r
    <2> QED  BY <2>1, <2>2, ResultAdvance
  <1>4. CASE Command
    <2>1. ASSUME NEW t \in Tasks, NEW i \in Items,
                 \/ BeginTelegram(t, i)
                 \/ \E q \in Requested : BeginDrive(t, i, q)
          PROVE  ResultOK'
      BY <1>3, <2>1 DEF BeginTelegram, BeginDrive, AllProviders
    <2>2. CASE \/ \E i \in Items, c \in Contents : ImportItem(i, c)
               \/ \E i \in Items : DeleteItem(i)
               \/ RescanVault
      BY <1>2, <2>2 DEF ImportItem, DeleteItem, RescanVault
    <2> QED  BY <1>4, <2>1, <2>2 DEF Command
  <1>5. CASE UserEdit
    BY <1>2, <1>5 DEF UserEdit, UserEditsFile
  <1>6. ASSUME NEW t \in Tasks, SyncStep(t) PROVE ResultOK'
    <2>0. job[t] \in Job
      BY DEF TypeInv, TypeOK
    <2>1. CASE Return(t)
      BY <2>1, ResultReturn
    <2>2. CASE PrepareSnapshot(t) /\ ~ Return(t)
      <3> DEFINE r == [job[t] EXCEPT !.pc = "start", !.content = disk[job[t].item]]
      <3>1. /\ r.result = job[t].result /\ r.item = job[t].item
            /\ r.provider = job[t].provider
        BY <2>0 DEF Job
      <3>2. Advance(t, r)
        BY <2>2 DEF PrepareSnapshot
      <3> HIDE DEF r
      <3> QED  BY <3>1, <3>2, ResultKept
    <2>3. CASE StartTelegram(t) /\ ~ Return(t)
      <3> DEFINE r == [job[t] EXCEPT !.pc = "send"]
      <3>1. /\ r.result = job[t].result /\ r.item = job[t].item
            /\ r.provider = job[t].provider
        BY <2>0 DEF Job
      <3>2. Advance(t, r)
        BY <2>3 DEF StartTelegram
      <3> HIDE DEF r
      <3> QED  BY <3>1, <3>2, ResultKept
    <2>4. CASE StartDrive(t) /\ ~ Return(t)
      <3>1. PICK a : Advance(t, [job[t] EXCEPT !.pc = "find", !.account = a,
                                               !.requested = Nil])
        BY <2>4 DEF StartDrive
      <3> DEFINE r == [job[t] EXCEPT !.pc = "find", !.account = a, !.requested = Nil]
      <3>2. /\ r.result = job[t].result /\ r.item = job[t].item
            /\ r.provider = job[t].provider
        BY <2>0 DEF Job
      <3> HIDE DEF r
      <3> QED  BY <3>1, <3>2, ResultKept DEF r
    <2>5. CASE SendTelegram(t)
      <3>0. job[t].pc = "send"
        BY <2>5 DEF SendTelegram, At
      <3>1. ASSUME NEW h \in Handles, Accept(h, job[t]), UploadEnds(t, h)
            PROVE  ResultOK'
        <4>1. copies'[h] = CopyOf(job[t])
          BY <3>1 DEF Accept, TypeInv, TypeOK
        <4> QED  BY <3>0, <3>1, <4>1, ResultUploadEnds
      <3>2. CASE UploadEnds(t, Nil)
        BY <3>0, <3>2, ResultUploadEnds
      <3>3. CASE Advance(t, [job[t] EXCEPT !.sent = @ + 1])
        <4> DEFINE r == [job[t] EXCEPT !.sent = job[t].sent + 1]
        <4>1. /\ r.result = job[t].result /\ r.item = job[t].item
              /\ r.provider = job[t].provider
          BY <2>0 DEF Job
        <4>2. Advance(t, r)
          BY <3>3
        <4> HIDE DEF r
        <4> QED  BY <4>1, <4>2, ResultKept
      <3> QED  BY <2>5, <3>1, <3>2, <3>3 DEF SendTelegram
    <2>6. CASE FindDrive(t)
      <3>0. job[t].pc = "find" /\ copies' = copies
        BY <2>6 DEF FindDrive, At
      <3>1. ASSUME NEW h \in Matching(job[t]), UploadEnds(t, h)
            PROVE  ResultOK'
        BY <3>0, <3>1, ResultUploadEnds DEF Matching
      <3>2. CASE UploadEnds(t, Nil)
        BY <3>0, <3>2, ResultUploadEnds
      <3>3. CASE Advance(t, [job[t] EXCEPT !.pc = "send"])
        <4> DEFINE r == [job[t] EXCEPT !.pc = "send"]
        <4>1. /\ r.result = job[t].result /\ r.item = job[t].item
              /\ r.provider = job[t].provider
          BY <2>0 DEF Job
        <4> HIDE DEF r
        <4> QED  BY <3>3, <4>1, ResultKept DEF r
      <3> QED  BY <2>6, <3>1, <3>2, <3>3 DEF FindDrive
    <2>7. CASE SendDrive(t)
      <3>0. job[t].pc = "send"
        BY <2>7 DEF SendDrive, At
      <3>1. ASSUME NEW h \in Handles, Accept(h, job[t]), UploadEnds(t, h)
            PROVE  ResultOK'
        <4>1. copies'[h] = CopyOf(job[t])
          BY <3>1 DEF Accept, TypeInv, TypeOK
        <4> QED  BY <3>0, <3>1, <4>1, ResultUploadEnds
      <3>2. CASE UploadEnds(t, Nil)
        BY <3>0, <3>2, ResultUploadEnds
      <3>3. ASSUME copies' = copies, NEW h \in Matching(job[t]), UploadEnds(t, h)
            PROVE  ResultOK'
        BY <3>0, <3>3, ResultUploadEnds DEF Matching
      <3> QED  BY <2>7, <3>1, <3>2, <3>3 DEF SendDrive
    <2>8. CASE CheckSource(t)
      <3> DEFINE r == [job[t] EXCEPT !.pc = "finish", !.content = Nil,
                             !.account = Nil,
                             !.unchanged = (disk[job[t].item] = job[t].content)]
      <3>1. /\ r.result = job[t].result /\ r.item = job[t].item
            /\ r.provider = job[t].provider
        BY <2>0 DEF Job
      <3>2. Advance(t, r)
        BY <2>8 DEF CheckSource
      <3> HIDE DEF r
      <3> QED  BY <3>1, <3>2, ResultKept
    <2>9. CASE ItemGone(t) \/ SkipDrive(t) \/ FinishTelegram(t) \/ FinishDrive(t)
      BY <2>1, <2>9 DEF ItemGone, SkipDrive, FinishTelegram, FinishDrive, Finish
    <2> QED
      BY <1>6, <2>1, <2>2, <2>3, <2>4, <2>5, <2>6, <2>7, <2>8, <2>9 DEF SyncStep
  <1>7. CASE Restart
    BY <1>7 DEF Restart, ResultOK, IdleJob
  <1>8. CASE UNCHANGED vars
    BY <1>2, <1>8 DEF vars
  <1> QED  BY <1>4, <1>5, <1>6, <1>7, <1>8 DEF Next

(* Backed, over any set cs of copies.                                       *)
BackedIn(cs, i, rec, p) ==
    rec.syncState[p] = "synced" =>
        /\ rec.remoteId[p] # Nil
        /\ cs[rec.remoteId[p]] # Nil
        /\ cs[rec.remoteId[p]].item = i
        /\ cs[rec.remoteId[p]].provider = p

(* What was backed before a step is backed after it.                        *)
LEMMA BackedStays ==
  ASSUME TypeInv, [Next]_vars, NEW i \in Items, NEW p \in AllProviders,
         NEW rec \in VaultItem, BackedIn(copies, i, rec, p)
  PROVE  BackedIn(copies', i, rec, p)
  <1> SUFFICES ASSUME rec.syncState[p] = "synced"
               PROVE  /\ rec.remoteId[p] # Nil
                      /\ copies'[rec.remoteId[p]] # Nil
                      /\ copies'[rec.remoteId[p]].item = i
                      /\ copies'[rec.remoteId[p]].provider = p
    BY DEF BackedIn
  <1>1. rec.remoteId[p] \in Handles /\ copies[rec.remoteId[p]] # Nil
    BY DEF BackedIn, VaultItem
  <1>2. copies'[rec.remoteId[p]] = copies[rec.remoteId[p]]
    BY <1>1, CopiesKept
  <1> QED  BY <1>1, <1>2 DEF BackedIn

(* A save whose new list is backed keeps both lists backed.                 *)
LEMMA BackedPersist ==
  ASSUME BackedInv, [Next]_vars, NEW list, Persist(list),
         \A i \in Items, p \in AllProviders :
             list[i] # Nil => BackedIn(copies', i, list[i], p)
  PROVE  SyncedIsBacked'
  <1> SUFFICES ASSUME NEW i \in Items, NEW p \in AllProviders
               PROVE  /\ items'[i] # Nil => BackedIn(copies', i, items'[i], p)
                      /\ saved'[i] # Nil => BackedIn(copies', i, saved'[i], p)
    BY DEF SyncedIsBacked, Backed, BackedIn
  <1>1. items'[i] # Nil => BackedIn(copies', i, items'[i], p)
    BY DEF Persist
  <1>2. saved[i] # Nil => BackedIn(copies', i, saved[i], p)
    BY BackedStays DEF BackedInv, SyncedIsBacked, Backed, BackedIn, TypeInv, TypeOK
  <1>3. saved'[i] # Nil => BackedIn(copies', i, saved'[i], p)
    BY <1>2 DEF Persist, SaveFails
  <1> QED  BY <1>1, <1>3

LEMMA BackedSame ==
  ASSUME BackedInv, [Next]_vars, items' \in {items, saved}, saved' = saved
  PROVE  SyncedIsBacked'
  <1> SUFFICES ASSUME NEW i \in Items, NEW p \in AllProviders
               PROVE  /\ items'[i] # Nil => BackedIn(copies', i, items'[i], p)
                      /\ saved'[i] # Nil => BackedIn(copies', i, saved'[i], p)
    BY DEF SyncedIsBacked, Backed, BackedIn
  <1>1. items[i] # Nil => BackedIn(copies', i, items[i], p)
    BY BackedStays DEF BackedInv, SyncedIsBacked, Backed, BackedIn, TypeInv, TypeOK
  <1>2. saved[i] # Nil => BackedIn(copies', i, saved[i], p)
    BY BackedStays DEF BackedInv, SyncedIsBacked, Backed, BackedIn, TypeInv, TypeOK
  <1> QED  BY <1>1, <1>2

(* Changing one item keeps the others backed.                               *)
LEMMA BackedOne ==
  ASSUME BackedInv, [Next]_vars, NEW i \in Items, NEW rec,
         Persist([items EXCEPT ![i] = rec]),
         \A p \in AllProviders : rec # Nil => BackedIn(copies', i, rec, p)
  PROVE  SyncedIsBacked'
  <1> DEFINE list == [items EXCEPT ![i] = rec]
  <1>1. ASSUME NEW j \in Items, NEW p \in AllProviders, list[j] # Nil
        PROVE  BackedIn(copies', j, list[j], p)
    <2>1. CASE j = i
      BY <1>1, <2>1 DEF BackedInv, TypeInv, TypeOK
    <2>2. CASE j # i
      <3>1. list[j] = items[j] /\ items[j] \in VaultItem
        BY <1>1, <2>2 DEF BackedInv, TypeInv, TypeOK
      <3>2. BackedIn(copies, j, items[j], p)
        BY <1>1, <3>1 DEF BackedInv, SyncedIsBacked, Backed, BackedIn
      <3> HIDE DEF list
      <3> QED  BY <3>1, <3>2, BackedStays DEF BackedInv
    <2> QED  BY <2>1, <2>2
  <1>2. Persist(list)
    OBVIOUS
  <1> HIDE DEF list
  <1> QED  BY <1>1, <1>2, BackedPersist

LEMMA BackedSyncing ==
  ASSUME BackedInv, [Next]_vars, NEW i \in Items, NEW p \in AllProviders,
         NEW c \in Contents, NEW a \in Accounts \cup {Nil}, items[i] # Nil,
         Persist([items EXCEPT ![i] = Syncing(items[i], p, c, a)])
  PROVE  SyncedIsBacked'
  <1> DEFINE rec == Syncing(items[i], p, c, a)
  <1>1. ASSUME NEW q \in AllProviders PROVE BackedIn(copies', i, rec, q)
    <2>1. items[i] \in VaultItem /\ BackedIn(copies, i, items[i], q)
      BY DEF BackedInv, SyncedIsBacked, Backed, BackedIn, TypeInv, TypeOK
    <2>2. BackedIn(copies', i, items[i], q)
      BY <2>1, BackedStays DEF BackedInv
    <2>3. /\ rec.syncState[q] = "synced" => items[i].syncState[q] = "synced"
          /\ rec.remoteId[q] = items[i].remoteId[q]
      BY <2>1 DEF Syncing, VaultItem
    <2> HIDE DEF rec
    <2> QED  BY <2>2, <2>3 DEF BackedIn
  <1> HIDE DEF rec
  <1> QED  BY <1>1, BackedOne DEF rec

LEMMA BackedFinish ==
  ASSUME BackedInv, [Next]_vars, NEW t \in Tasks, job[t].pc = "finish", Finish(t)
  PROVE  SyncedIsBacked'
  <1> DEFINE i   == job[t].item
             rec == Finished(items[i], job[t])
  <1>1. /\ job[t] \in Job /\ i \in Items /\ items[i] \in VaultItem /\ items[i] # Nil
    BY DEF Finish, BackedInv, TypeInv, TypeOK, JobOK
  <1>2. ASSUME NEW q \in AllProviders PROVE BackedIn(copies', i, rec, q)
    <2>1. BackedIn(copies, i, items[i], q)
      BY <1>1 DEF BackedInv, SyncedIsBacked, Backed, BackedIn
    <2>2. CASE q # job[t].provider
      <3>1. rec.syncState[q] = items[i].syncState[q] /\ rec.remoteId[q] = items[i].remoteId[q]
        BY <1>1, <2>2 DEF Finished, VaultItem, Job
      <3>2. BackedIn(copies', i, items[i], q)
        BY <1>1, <2>1, BackedStays DEF BackedInv
      <3> HIDE DEF rec
      <3> QED  BY <3>1, <3>2 DEF BackedIn
    <2>3. CASE q = job[t].provider
      <3>1. rec.syncState[q] = "synced" =>
                job[t].result # Nil /\ rec.remoteId[q] = job[t].result
        BY <1>1, <2>3 DEF Finished, VaultItem, Job
      <3>2. job[t].result # Nil =>
              /\ job[t].result \in Handles
              /\ copies[job[t].result] # Nil
              /\ copies[job[t].result].item = i
              /\ copies[job[t].result].provider = q
        BY <1>1, <2>3 DEF BackedInv, ResultOK, Job
      <3>3. job[t].result # Nil => copies'[job[t].result] = copies[job[t].result]
        BY <3>2, CopiesKept DEF BackedInv
      <3> HIDE DEF rec
      <3> QED  BY <3>1, <3>2, <3>3 DEF BackedIn
    <2> QED  BY <2>2, <2>3
  <1>3. Persist([items EXCEPT ![i] = rec])
    BY <1>1 DEF Finish, BackedInv, TypeInv, TypeOK
  <1> HIDE DEF rec
  <1> QED  BY <1>1, <1>2, <1>3, BackedOne

LEMMA BackedNext ==
  ASSUME BackedInv, [Next]_vars
  PROVE  SyncedIsBacked'
  <1>1. ASSUME NEW i \in Items, NEW c \in Contents, ImportItem(i, c)
        PROVE  SyncedIsBacked'
    <2>1. \A p \in AllProviders : BackedIn(copies', i, NewItem(c), p)
      BY DEF BackedIn, NewItem
    <2> QED  BY <1>1, <2>1, BackedOne DEF ImportItem
  <1>2. ASSUME NEW i \in Items, DeleteItem(i) PROVE SyncedIsBacked'
    BY <1>2, BackedOne DEF DeleteItem
  <1>3. CASE RescanVault
    <2> DEFINE list == [i \in Items |-> MarkMissing(i)]
    <2>1. ASSUME NEW i \in Items, NEW p \in AllProviders, list[i] # Nil
          PROVE  BackedIn(copies', i, list[i], p)
      <3>1. items[i] # Nil /\ items[i] \in VaultItem
        BY <2>1 DEF MarkMissing, BackedInv, TypeInv, TypeOK
      <3>2. BackedIn(copies, i, items[i], p)
        BY <3>1 DEF BackedInv, SyncedIsBacked, Backed, BackedIn
      <3>3. BackedIn(copies', i, items[i], p)
        BY <3>1, <3>2, BackedStays DEF BackedInv
      <3>4. /\ list[i].syncState[p] = "synced" => items[i].syncState[p] = "synced"
            /\ list[i].remoteId[p] = items[i].remoteId[p]
        BY <3>1 DEF MarkMissing, VaultItem
      <3> HIDE DEF list
      <3> QED  BY <3>3, <3>4 DEF BackedIn
    <2>2. Persist(list)
      BY <1>3 DEF RescanVault
    <2> HIDE DEF list
    <2> QED  BY <2>1, <2>2, BackedPersist
  <1>4. CASE Command
    <2>1. ASSUME NEW t \in Tasks, NEW i \in Items,
                 \/ BeginTelegram(t, i)
                 \/ \E q \in Requested : BeginDrive(t, i, q)
          PROVE  SyncedIsBacked'
      BY <2>1, BackedSame DEF BeginTelegram, BeginDrive, Begin
    <2> QED  BY <1>1, <1>2, <1>3, <1>4, <2>1 DEF Command
  <1>5. CASE UserEdit
    BY <1>5, BackedSame DEF UserEdit, UserEditsFile
  <1>6. ASSUME NEW t \in Tasks, SyncStep(t) PROVE SyncedIsBacked'
    <2>1. CASE StartTelegram(t)
      <3>1. /\ job[t].item \in Items /\ job[t].content \in Contents
            /\ items[job[t].item] \in VaultItem /\ items[job[t].item] # Nil
        BY <2>1 DEF StartTelegram, At, BackedInv, TypeInv, TypeOK, JobOK
      <3>2. items[job[t].item].driveAccountId \in Accounts \cup {Nil}
        BY <3>1 DEF VaultItem
      <3>3. Persist([items EXCEPT ![job[t].item] =
                Syncing(items[job[t].item], "telegram", job[t].content,
                        items[job[t].item].driveAccountId)])
        BY <2>1, <3>1 DEF StartTelegram, BackedInv, TypeInv, TypeOK
      <3> QED  BY <3>1, <3>2, <3>3, BackedSyncing DEF AllProviders
    <2>2. CASE StartDrive(t)
      <3>1. /\ job[t] \in Job
            /\ job[t].item \in Items /\ job[t].content \in Contents
            /\ items[job[t].item] \in VaultItem /\ items[job[t].item] # Nil
        BY <2>2 DEF StartDrive, At, BackedInv, TypeInv, TypeOK, JobOK
      <3>2. PICK a \in SelectAccount(items[job[t].item], job[t].requested) :
              Persist([items EXCEPT ![job[t].item] =
                  Syncing(@, "drive", job[t].content, a)])
        BY <2>2 DEF StartDrive
      <3>3. a \in Accounts \cup {Nil}
        BY <3>1 DEF SelectAccount, Job, VaultItem
      <3>4. Persist([items EXCEPT ![job[t].item] =
                Syncing(items[job[t].item], "drive", job[t].content, a)])
        BY <3>1, <3>2 DEF BackedInv, TypeInv, TypeOK
      <3> QED  BY <3>1, <3>3, <3>4, BackedSyncing DEF AllProviders
    <2>3. CASE FinishTelegram(t) \/ FinishDrive(t)
      BY <2>3, BackedFinish DEF FinishTelegram, FinishDrive, At
    <2>4. CASE PrepareSnapshot(t) \/ ItemGone(t) \/ SkipDrive(t) \/ CheckSource(t)
      BY <2>4, BackedSame DEF PrepareSnapshot, ItemGone, SkipDrive, CheckSource
    <2>5. CASE SendTelegram(t) \/ FindDrive(t) \/ SendDrive(t)
      BY <2>5, BackedSame DEF SendTelegram, FindDrive, SendDrive
    <2> QED  BY <1>6, <2>1, <2>2, <2>3, <2>4, <2>5 DEF SyncStep
  <1>7. CASE Restart
    BY <1>7, BackedSame DEF Restart
  <1>8. CASE UNCHANGED vars
    BY <1>8, BackedSame DEF vars
  <1> QED  BY <1>4, <1>5, <1>6, <1>7, <1>8 DEF Next

LEMMA BackedInvariant == Spec => []BackedInv
  <1>1. Init => BackedInv
    <2> SUFFICES ASSUME Init PROVE BackedInv
      OBVIOUS
    <2>1. ResultOK
      BY DEF Init, ResultOK, IdleJob
    <2>2. SyncedIsBacked
      BY DEF Init, SyncedIsBacked
    <2> QED  BY <2>1, <2>2, TypeInit DEF BackedInv
  <1>2. BackedInv /\ [Next]_vars => BackedInv'
    <2> SUFFICES ASSUME BackedInv, [Next]_vars PROVE BackedInv'
      OBVIOUS
    <2> QED  BY TypeNext, ResultNext, BackedNext DEF BackedInv
  <1> QED  BY <1>1, <1>2, PTL DEF Spec

(* For any number of items and concurrent syncs, through crashes, failed    *)
(* saves and lost replies: what the application shows, or would show after  *)
(* a restart, as synced is a copy the provider accepted for that item.      *)
THEOREM BackedCorrect == Spec => []SyncedIsBacked
  <1>1. BackedInv => SyncedIsBacked
    BY DEF BackedInv
  <1> QED  BY <1>1, BackedInvariant, PTL

-----------------------------------------------------------------------------
(* Deletions and acknowledgements.  No id is used twice, so both promises   *)
(* hold of every list that names only live ids and drops no remote id.      *)

Live(list) == {i \in Items : list[i] # Nil}

Remembers(list, acks) ==
    \A i \in Live(list), p \in AllProviders :
        <<i, p>> \in acks => list[i].remoteId[p] # Nil

HistoryInv ==
    /\ TypeInv
    /\ Live(items) \subseteq born \ deleted
    /\ Live(saved) \subseteq born \ deleted
    /\ deleted \subseteq born
    /\ acked \subseteq born \X AllProviders
    /\ Remembers(items, acked)
    /\ Remembers(saved, acked)

LEMMA HistoryPersist ==
  ASSUME HistoryInv, TypeInv', NEW list, Persist(list),
         Live(list) \subseteq born' \ deleted', Remembers(list, acked'),
         born \subseteq born', deleted' \subseteq born',
         acked' \subseteq born' \X AllProviders,
         lastSave' = "failed" => deleted' = deleted /\ acked' = acked
  PROVE  HistoryInv'
  <1>1. CASE lastSave' = "ok"
    <2>1. items' = list /\ saved' = list
      BY <1>1 DEF Persist, SaveFails
    <2> QED  BY <2>1 DEF HistoryInv, Live, Remembers
  <1>2. CASE lastSave' = "failed"
    <2>1. items' = list /\ saved' = saved /\ deleted' = deleted /\ acked' = acked
      BY <1>2 DEF Persist, SaveFails
    <2> QED  BY <2>1 DEF HistoryInv, Live, Remembers
  <1> QED  BY <1>1, <1>2 DEF Persist, SaveFails

LEMMA HistorySame ==
  ASSUME HistoryInv, TypeInv', items' \in {items, saved}, saved' = saved,
         UNCHANGED <<born, deleted, acked>>
  PROVE  HistoryInv'
  BY DEF HistoryInv, Live, Remembers

LEMMA HistoryVault ==
  ASSUME HistoryInv, TypeInv',
         \/ \E i \in Items, c \in Contents : ImportItem(i, c)
         \/ \E i \in Items : DeleteItem(i)
         \/ RescanVault
  PROVE  HistoryInv'
  <1>1. ASSUME NEW i \in Items, NEW c \in Contents, ImportItem(i, c)
        PROVE  HistoryInv'
    <2> DEFINE list == [items EXCEPT ![i] = NewItem(c)]
    <2>1. Persist(list) /\ born' = born \cup {i} /\ i \notin born
          /\ UNCHANGED <<deleted, acked>>
      BY <1>1 DEF ImportItem
    <2>2. Live(list) \subseteq born' \ deleted'
      BY <2>1 DEF Live, HistoryInv, TypeInv, TypeOK
    <2>3. \A p \in AllProviders : <<i, p>> \notin acked
      BY <2>1 DEF HistoryInv
    <2>4. Remembers(list, acked')
      BY <2>1, <2>3 DEF Remembers, Live, HistoryInv, TypeInv, TypeOK
    <2> HIDE DEF list
    <2> QED  BY <2>1, <2>2, <2>4, HistoryPersist DEF HistoryInv
  <1>2. ASSUME NEW i \in Items, DeleteItem(i) PROVE HistoryInv'
    <2> DEFINE list == [items EXCEPT ![i] = Nil]
    <2>1. /\ Persist(list) /\ UNCHANGED <<born, acked>> /\ items[i] # Nil
          /\ deleted' \subseteq deleted \cup {i}
          /\ lastSave' = "failed" => deleted' = deleted
      BY <1>2 DEF DeleteItem
    <2>2. Live(list) \subseteq born' \ deleted' /\ i \in born
      BY <2>1 DEF Live, HistoryInv, TypeInv, TypeOK
    <2>3. Remembers(list, acked')
      BY <2>1 DEF Remembers, Live, HistoryInv, TypeInv, TypeOK
    <2> HIDE DEF list
    <2> QED  BY <2>1, <2>2, <2>3, HistoryPersist DEF HistoryInv
  <1>3. CASE RescanVault
    <2> DEFINE list == [i \in Items |-> MarkMissing(i)]
    <2>1. Persist(list) /\ UNCHANGED <<born, deleted, acked>>
      BY <1>3 DEF RescanVault
    <2>2. \A i \in Items : list[i] # Nil =>
             /\ items[i] # Nil
             /\ list[i].remoteId = items[i].remoteId
      <3> SUFFICES ASSUME NEW i \in Items, list[i] # Nil
                   PROVE  items[i] # Nil /\ list[i].remoteId = items[i].remoteId
        OBVIOUS
      <3>1. items[i] # Nil /\ items[i] \in VaultItem
        BY DEF MarkMissing, HistoryInv, TypeInv, TypeOK
      <3> QED  BY <3>1 DEF MarkMissing, VaultItem
    <2>3. Live(list) \subseteq born' \ deleted'
      BY <2>1, <2>2 DEF Live, HistoryInv
    <2>4. Remembers(list, acked')
      BY <2>1, <2>2 DEF Remembers, Live, HistoryInv
    <2> HIDE DEF list
    <2> QED  BY <2>1, <2>3, <2>4, HistoryPersist DEF HistoryInv
  <1> QED  BY <1>1, <1>2, <1>3

(* A sync section that replaces a live item by a record with at least its   *)
(* remote ids, and acknowledges only what that record remembers.            *)
LEMMA HistoryUpdate ==
  ASSUME HistoryInv, TypeInv', NEW i \in Items, NEW rec, items[i] # Nil,
         Persist([items EXCEPT ![i] = rec]), UNCHANGED <<born, deleted>>,
         \A p \in AllProviders : items[i].remoteId[p] # Nil => rec.remoteId[p] # Nil,
         \/ acked' = acked
         \/ /\ lastSave' = "ok"
            /\ \E p \in AllProviders :
                  acked' = acked \cup {<<i, p>>} /\ rec.remoteId[p] # Nil
  PROVE  HistoryInv'
  <1> DEFINE list == [items EXCEPT ![i] = rec]
  <1>1. Live(list) \subseteq born' \ deleted' /\ i \in born
    BY DEF Live, HistoryInv, TypeInv, TypeOK
  <1>2. Remembers(list, acked')
    <2> SUFFICES ASSUME NEW j \in Live(list), NEW p \in AllProviders,
                        <<j, p>> \in acked'
                 PROVE  list[j].remoteId[p] # Nil
      BY DEF Remembers
    <2>1. CASE j = i
      <3>1. list[j] = rec
        BY <2>1 DEF HistoryInv, TypeInv, TypeOK
      <3>2. <<i, p>> \in acked => items[i].remoteId[p] # Nil
        BY DEF HistoryInv, Remembers, Live
      <3> HIDE DEF list
      <3> QED  BY <2>1, <3>1, <3>2
    <2>2. CASE j # i
      <3>1. list[j] = items[j] /\ j \in Live(items) /\ <<j, p>> \in acked
        BY <2>2 DEF Live, HistoryInv, TypeInv, TypeOK
      <3> HIDE DEF list
      <3> QED  BY <3>1 DEF HistoryInv, Remembers
    <2> QED  BY <2>1, <2>2
  <1>3. acked' \subseteq born' \X AllProviders
    BY <1>1 DEF HistoryInv
  <1>4. Persist(list)
    OBVIOUS
  <1> HIDE DEF list
  <1>5. lastSave' = "failed" => deleted' = deleted /\ acked' = acked
    OBVIOUS
  <1> QED  BY <1>1, <1>2, <1>3, <1>4, <1>5, HistoryPersist DEF HistoryInv

LEMMA HistoryStart ==
  ASSUME HistoryInv, TypeInv', NEW t \in Tasks, StartTelegram(t) \/ StartDrive(t)
  PROVE  HistoryInv'
  <1> DEFINE i == job[t].item
  <1>1. /\ i \in Items /\ items[i] # Nil /\ items[i] \in VaultItem
        /\ UNCHANGED <<born, deleted, acked>>
    BY DEF StartTelegram, StartDrive, At, HistoryInv, TypeInv, TypeOK, JobOK
  <1>2. PICK p, a :
          /\ p \in AllProviders
          /\ Persist([items EXCEPT ![i] = Syncing(items[i], p, job[t].content, a)])
    <2> DEFINE NewItems(p, a) ==
                 [items EXCEPT ![i] = Syncing(items[i], p, job[t].content, a)]
    <2>1. CASE StartTelegram(t)
      <3>1. Persist(NewItems("telegram", items[i].driveAccountId))
        BY <1>1, <2>1 DEF StartTelegram, HistoryInv, TypeInv, TypeOK
      <3> QED  BY <3>1 DEF AllProviders
    <2>2. CASE StartDrive(t)
      <3>1. PICK a : Persist(NewItems("drive", a))
        BY <1>1, <2>2 DEF StartDrive, HistoryInv, TypeInv, TypeOK
      <3> QED  BY <3>1 DEF AllProviders
    <2> QED  BY <2>1, <2>2
  <1> DEFINE rec == Syncing(items[i], p, job[t].content, a)
  <1>3. rec.remoteId = items[i].remoteId
    BY <1>1 DEF Syncing, VaultItem
  <1>4. Persist([items EXCEPT ![i] = rec])
    BY <1>2
  <1> HIDE DEF rec
  <1> QED  BY <1>1, <1>3, <1>4, HistoryUpdate

LEMMA HistoryFinish ==
  ASSUME HistoryInv, TypeInv', NEW t \in Tasks, FinishTelegram(t) \/ FinishDrive(t)
  PROVE  HistoryInv'
  <1> DEFINE i   == job[t].item
             rec == Finished(items[i], job[t])
  <1>1. /\ job[t] \in Job /\ i \in Items /\ items[i] # Nil /\ items[i] \in VaultItem
        /\ Finish(t) /\ UNCHANGED <<born, deleted>>
    BY DEF FinishTelegram, FinishDrive, Finish, At, HistoryInv, TypeInv, TypeOK, JobOK
  <1>2. \A p \in AllProviders : items[i].remoteId[p] # Nil => rec.remoteId[p] # Nil
    BY <1>1 DEF Finished, VaultItem, Job
  <1>3. job[t].result # Nil => rec.remoteId[job[t].provider] # Nil
    BY <1>1 DEF Finished, VaultItem, Job
  <1>4. job[t].provider \in AllProviders
    BY <1>1 DEF Job
  <1>5. Persist([items EXCEPT ![i] = rec])
    BY <1>1 DEF Finish, HistoryInv, TypeInv, TypeOK
  <1>6. \/ acked' = acked
        \/ /\ lastSave' = "ok" /\ job[t].result # Nil
           /\ acked' = acked \cup {<<i, job[t].provider>>}
    BY <1>1 DEF Finish
  <1> HIDE DEF rec
  <1> QED  BY <1>1, <1>2, <1>3, <1>4, <1>5, <1>6, HistoryUpdate

LEMMA HistoryNext ==
  ASSUME HistoryInv, TypeInv', [Next]_vars
  PROVE  HistoryInv'
  <1>1. CASE Command
    <2>1. ASSUME NEW t \in Tasks, NEW i \in Items,
                 \/ BeginTelegram(t, i)
                 \/ \E q \in Requested : BeginDrive(t, i, q)
          PROVE  HistoryInv'
      BY <2>1, HistorySame DEF BeginTelegram, BeginDrive, Begin
    <2> QED  BY <1>1, <2>1, HistoryVault DEF Command
  <1>2. CASE UserEdit
    BY <1>2, HistorySame DEF UserEdit, UserEditsFile
  <1>3. ASSUME NEW t \in Tasks, SyncStep(t) PROVE HistoryInv'
    <2>1. CASE StartTelegram(t) \/ StartDrive(t)
      BY <2>1, HistoryStart
    <2>2. CASE FinishTelegram(t) \/ FinishDrive(t)
      BY <2>2, HistoryFinish
    <2>3. CASE PrepareSnapshot(t) \/ ItemGone(t) \/ SkipDrive(t) \/ CheckSource(t)
      BY <2>3, HistorySame DEF PrepareSnapshot, ItemGone, SkipDrive, CheckSource
    <2>4. CASE SendTelegram(t) \/ FindDrive(t) \/ SendDrive(t)
      BY <2>4, HistorySame DEF SendTelegram, FindDrive, SendDrive
    <2> QED  BY <1>3, <2>1, <2>2, <2>3, <2>4 DEF SyncStep
  <1>4. CASE Restart
    BY <1>4, HistorySame DEF Restart
  <1>5. CASE UNCHANGED vars
    BY <1>5, HistorySame DEF vars
  <1> QED  BY <1>1, <1>2, <1>3, <1>4, <1>5 DEF Next

LEMMA HistoryInvariant == Spec => []HistoryInv
  <1>1. Init => HistoryInv
    <2> SUFFICES ASSUME Init PROVE HistoryInv
      OBVIOUS
    <2>1. /\ Live(items) = {} /\ Live(saved) = {}
          /\ deleted = {} /\ acked = {}
      BY DEF Init, Live
    <2> QED  BY <2>1, TypeInit DEF HistoryInv, Remembers
  <1>2. HistoryInv /\ [Next]_vars => HistoryInv'
    <2> SUFFICES ASSUME HistoryInv, [Next]_vars PROVE HistoryInv'
      OBVIOUS
    <2>1. TypeInv'
      BY TypeNext DEF HistoryInv
    <2> QED  BY <2>1, HistoryNext
  <1> QED  BY <1>1, <1>2, PTL DEF Spec

(* A deletion that was reported done is final: no sync that was in flight   *)
(* and no restart brings the item back.                                     *)
THEOREM DeletedCorrect == Spec => []DeletedStaysDeleted
  <1>1. HistoryInv => DeletedStaysDeleted
    BY DEF HistoryInv, DeletedStaysDeleted, Live, TypeInv, TypeOK
  <1> QED  BY <1>1, HistoryInvariant, PTL

(* A remote id that a sync learned and saved, whatever it reported, is never*)
(* forgotten by a crash or a later sync while its item lives.               *)
THEOREM AckedCorrect == Spec => []AckedSurvives
  <1>1. HistoryInv => AckedSurvives
    BY DEF HistoryInv, AckedSurvives, Remembers, Live
  <1> QED  BY <1>1, HistoryInvariant, PTL
-----------------------------------------------------------------------------
(* How a step moves one entry of the list, and the commands in flight.      *)

ItemMove(i) ==
    \/ items'[i] \in {Nil, items[i]}
    \/ Restart /\ items'[i] = saved[i]
    \/ i \notin born /\ \E c \in Contents : items'[i] = NewItem(c)
    \/ items[i] # Nil /\ items'[i] = [items[i] EXCEPT !.syncState["telegram"] = "failed"]
    \/ \E t \in Tasks :
          /\ StartTelegram(t) /\ job[t].item = i
          /\ items'[i] = Syncing(items[i], "telegram", job[t].content,
                                items[i].driveAccountId)
    \/ \E t \in Tasks, a \in Accounts :
          /\ StartDrive(t) /\ job[t].item = i
          /\ items'[i] = Syncing(items[i], "drive", job[t].content, a)
    \/ \E t \in Tasks :
          /\ job[t].pc = "finish" /\ Finish(t) /\ job[t].item = i
          /\ items'[i] = Finished(items[i], job[t])

LEMMA SavedMoves ==
  ASSUME [Next]_vars
  PROVE  saved' \in {saved, items'}
  <1>1. ASSUME NEW list, Persist(list) PROVE saved' \in {saved, items'}
    BY <1>1 DEF Persist, SaveFails
  <1>2. CASE Command
    BY <1>1, <1>2 DEF Command, ImportItem, DeleteItem, RescanVault,
       BeginTelegram, BeginDrive, Begin
  <1>3. CASE UserEdit
    BY <1>3 DEF UserEdit, UserEditsFile
  <1>4. ASSUME NEW t \in Tasks, SyncStep(t) PROVE saved' \in {saved, items'}
    <2>1. CASE StartTelegram(t)
      BY <1>1, <2>1 DEF StartTelegram
    <2>2. CASE StartDrive(t)
      BY <1>1, <2>2 DEF StartDrive
    <2>3. CASE FinishTelegram(t) \/ FinishDrive(t)
      BY <1>1, <2>3 DEF FinishTelegram, FinishDrive, Finish
    <2>4. CASE PrepareSnapshot(t) \/ ItemGone(t) \/ SkipDrive(t) \/ CheckSource(t)
      BY <2>4 DEF PrepareSnapshot, ItemGone, SkipDrive, CheckSource
    <2>5. CASE SendTelegram(t) \/ FindDrive(t) \/ SendDrive(t)
      BY <2>5 DEF SendTelegram, FindDrive, SendDrive
    <2> QED  BY <1>4, <2>1, <2>2, <2>3, <2>4, <2>5 DEF SyncStep
  <1>5. CASE Restart
    BY <1>5 DEF Restart
  <1>6. CASE UNCHANGED vars
    BY <1>6 DEF vars
  <1> QED  BY <1>2, <1>3, <1>4, <1>5, <1>6 DEF Next

LEMMA ItemMoves ==
  ASSUME TypeInv, [Next]_vars, NEW i \in Items
  PROVE  ItemMove(i)
  <1>1. CASE items'[i] = items[i]
    BY <1>1 DEF ItemMove
  <1>2. ASSUME NEW j \in Items, NEW rec, Persist([items EXCEPT ![j] = rec]),
               items'[i] # items[i]
        PROVE  i = j /\ items'[i] = rec
    BY <1>2 DEF Persist, TypeInv, TypeOK
  <1>3. CASE Command /\ items'[i] # items[i]
    <2>1. ASSUME NEW j \in Items, NEW c \in Contents, ImportItem(j, c)
          PROVE  ItemMove(i)
      BY <1>2, <1>3, <2>1 DEF ImportItem, ItemMove
    <2>2. ASSUME NEW j \in Items, DeleteItem(j) PROVE ItemMove(i)
      BY <1>2, <1>3, <2>2 DEF DeleteItem, ItemMove
    <2>3. CASE RescanVault
      <3>1. items'[i] = MarkMissing(i)
        BY <2>3 DEF RescanVault, Persist
      <3> QED  BY <3>1 DEF MarkMissing, ItemMove
    <2>4. ASSUME NEW t \in Tasks, NEW j \in Items,
                 \/ BeginTelegram(t, j)
                 \/ \E q \in Requested : BeginDrive(t, j, q)
          PROVE  ItemMove(i)
      BY <2>4 DEF BeginTelegram, BeginDrive, Begin, ItemMove
    <2> QED  BY <1>3, <2>1, <2>2, <2>3, <2>4 DEF Command
  <1>4. CASE UserEdit
    BY <1>4 DEF UserEdit, UserEditsFile, ItemMove
  <1>5. ASSUME NEW t \in Tasks, SyncStep(t), items'[i] # items[i] PROVE ItemMove(i)
    <2>0. job[t] \in Job
      BY DEF TypeInv, TypeOK
    <2>1. CASE StartTelegram(t)
      <3>1. job[t].item \in Items
        BY <2>1 DEF StartTelegram, At, TypeInv, JobOK
      <3>2. Persist([items EXCEPT ![job[t].item] =
                Syncing(items[job[t].item], "telegram", job[t].content,
                        items[job[t].item].driveAccountId)])
        BY <2>1, <3>1 DEF StartTelegram, TypeInv, TypeOK
      <3> QED  BY <1>2, <1>5, <2>1, <3>1, <3>2 DEF ItemMove
    <2>2. CASE StartDrive(t)
      <3>1. job[t].item \in Items /\ items[job[t].item] \in VaultItem
        BY <2>2 DEF StartDrive, At, TypeInv, JobOK, TypeOK
      <3>2. PICK a \in SelectAccount(items[job[t].item], job[t].requested) :
              Persist([items EXCEPT ![job[t].item] =
                  Syncing(items[job[t].item], "drive", job[t].content, a)])
        BY <2>2, <3>1 DEF StartDrive, TypeInv, TypeOK
      <3>3. a \in Accounts
        BY <2>0, <3>1 DEF SelectAccount, Job, VaultItem
      <3> QED  BY <1>2, <1>5, <2>2, <3>1, <3>2, <3>3 DEF ItemMove
    <2>3. CASE FinishTelegram(t) \/ FinishDrive(t)
      <3>1. job[t].pc = "finish" /\ Finish(t) /\ job[t].item \in Items
        BY <2>3 DEF FinishTelegram, FinishDrive, At, TypeInv, JobOK
      <3>2. Persist([items EXCEPT ![job[t].item] =
                Finished(items[job[t].item], job[t])])
        BY <3>1 DEF Finish, TypeInv, TypeOK
      <3> QED  BY <1>2, <1>5, <3>1, <3>2 DEF ItemMove
    <2>4. CASE PrepareSnapshot(t) \/ ItemGone(t) \/ SkipDrive(t) \/ CheckSource(t)
      BY <1>5, <2>4 DEF PrepareSnapshot, ItemGone, SkipDrive, CheckSource
    <2>5. CASE SendTelegram(t) \/ FindDrive(t) \/ SendDrive(t)
      BY <1>5, <2>5 DEF SendTelegram, FindDrive, SendDrive
    <2> QED  BY <1>5, <2>1, <2>2, <2>3, <2>4, <2>5 DEF SyncStep
  <1>6. CASE Restart
    BY <1>6 DEF Restart, ItemMove
  <1>7. CASE UNCHANGED vars
    BY <1>1, <1>7 DEF vars
  <1> QED  BY <1>1, <1>3, <1>4, <1>5, <1>6, <1>7 DEF Next

(* A section of a sync command moves that command only, and keeps its item  *)
(* and its provider until it returns.                                       *)
LEMMA SyncStepMoves ==
  ASSUME TypeInv, NEW t \in Tasks, SyncStep(t)
  PROVE  \E r : /\ Advance(t, r)
                /\ \/ r = IdleJob
                   \/ /\ r.item = job[t].item /\ r.provider = job[t].provider
                      /\ r.requested \in {Nil, job[t].requested}
  <1>0. job[t] \in Job
    BY DEF TypeInv, TypeOK
  <1>1. CASE Return(t)
    BY <1>1 DEF Return
  <1>2. ASSUME NEW h, UploadEnds(t, h)
        PROVE  \E r : /\ Advance(t, r)
                      /\ r.item = job[t].item /\ r.provider = job[t].provider
                      /\ r.requested \in {Nil, job[t].requested}
    <2> DEFINE r == [job[t] EXCEPT !.pc = "check", !.sent = 0, !.result = h]
    <2>2. /\ r.item = job[t].item /\ r.provider = job[t].provider
          /\ r.requested \in {Nil, job[t].requested}
      BY <1>0 DEF Job
    <2>3. Advance(t, r)
      BY <1>2 DEF UploadEnds
    <2> HIDE DEF r
    <2> QED  BY <2>2, <2>3
  <1>3. CASE PrepareSnapshot(t) /\ ~ Return(t)
    <2> DEFINE r == [job[t] EXCEPT !.pc = "start", !.content = disk[job[t].item]]
    <2>2. /\ r.item = job[t].item /\ r.provider = job[t].provider
          /\ r.requested \in {Nil, job[t].requested}
      BY <1>0 DEF Job
    <2>3. Advance(t, r)
      BY <1>3 DEF PrepareSnapshot
    <2> HIDE DEF r
    <2> QED  BY <2>2, <2>3
  <1>4. CASE StartTelegram(t) /\ ~ Return(t)
    BY <1>0, <1>4 DEF StartTelegram, Job
  <1>5. CASE StartDrive(t) /\ ~ Return(t)
    <2>1. PICK a : Advance(t, [job[t] EXCEPT !.pc = "find", !.account = a,
                                             !.requested = Nil])
      BY <1>5 DEF StartDrive
    <2> DEFINE r == [job[t] EXCEPT !.pc = "find", !.account = a,
                                  !.requested = Nil]
    <2>2. /\ r.item = job[t].item /\ r.provider = job[t].provider
          /\ r.requested \in {Nil, job[t].requested}
      BY <1>0 DEF Job
    <2>3. Advance(t, r)
      BY <2>1
    <2> HIDE DEF r
    <2> QED  BY <2>2, <2>3
  <1>6. CASE SendTelegram(t)
    <2>1. CASE Advance(t, [job[t] EXCEPT !.sent = @ + 1])
      BY <1>0, <2>1 DEF Job
    <2> QED  BY <1>2, <1>6, <2>1 DEF SendTelegram
  <1>7. CASE FindDrive(t)
    <2>1. CASE Advance(t, [job[t] EXCEPT !.pc = "send"])
      BY <1>0, <2>1 DEF Job
    <2> QED  BY <1>2, <1>7, <2>1 DEF FindDrive
  <1>8. CASE SendDrive(t)
    BY <1>2, <1>8 DEF SendDrive
  <1>9. CASE CheckSource(t)
    <2> DEFINE r == [job[t] EXCEPT !.pc = "finish", !.content = Nil,
                      !.account = Nil,
                      !.unchanged = (disk[job[t].item] = job[t].content)]
    <2>2. /\ r.item = job[t].item /\ r.provider = job[t].provider
          /\ r.requested \in {Nil, job[t].requested}
      BY <1>0 DEF Job
    <2>3. Advance(t, r)
      BY <1>9 DEF CheckSource
    <2> HIDE DEF r
    <2> QED  BY <2>2, <2>3
  <1>10. CASE ItemGone(t) \/ SkipDrive(t) \/ FinishTelegram(t) \/ FinishDrive(t)
    BY <1>1, <1>10 DEF ItemGone, SkipDrive, FinishTelegram, FinishDrive, Finish
  <1> QED
    BY <1>1, <1>3, <1>4, <1>5, <1>6, <1>7, <1>8, <1>9, <1>10 DEF SyncStep

-----------------------------------------------------------------------------
(* What the guard of the window (one sync of an item at a time) adds.  The  *)
(* command that runs is then the only one that names its item, so what its  *)
(* look at Google Drive did not find nobody else has stored.                *)

SoleInv ==
    /\ \A t \in Tasks : job[t].item # Nil => job[t].item \in born
    /\ \A t, u \in Tasks :
          job[t].item # Nil /\ job[t].item = job[u].item => t = u

(* What command r of item rec has fixed, over a set cs of copies: an account*)
(* for the item, the one it selected, and that of the copy it was given.    *)
Accounted(r, rec, cs) ==
    r.provider = "drive" =>
        /\ r.pc \in {"find", "send", "check", "finish"} => rec.driveAccountId # Nil
        /\ r.pc \in {"find", "send", "check"} => rec.driveAccountId = r.account
        /\ r.pc \in {"check", "finish"} /\ r.result # Nil =>
              cs[r.result].account = rec.driveAccountId

JobsAccounted ==
    \A t \in Tasks :
        job[t].item \in Items /\ items[job[t].item] # Nil =>
            Accounted(job[t], items[job[t].item], copies)

AccountIn(rec, cs) ==
    rec.syncState["drive"] = "synced" =>
        cs[rec.remoteId["drive"]].account = rec.driveAccountId

(* No command was asked for an account; its item was imported before.       *)
UnaskedInv ==
    \A t \in Tasks :
        /\ job[t].requested = Nil
        /\ job[t].item # Nil => job[t].item \in born

AccountInv ==
    /\ BackedInv
    /\ HistoryInv
    /\ UnaskedInv
    /\ JobsAccounted
    /\ \A i \in Items :
          /\ items[i] # Nil => AccountIn(items[i], copies)
          /\ saved[i] # Nil => AccountIn(saved[i], copies)

UniqueInv ==
    /\ HistoryInv
    /\ SoleInv
    /\ DriveCopiesUnique
    /\ \A t \in Tasks : At(t, "send", "drive") => Matching(job[t]) = {}

LEMMA SoleAdvance ==
  ASSUME TypeInv, SoleInv, born' = born, NEW t \in Tasks, NEW r, Advance(t, r),
         \/ r = IdleJob
         \/ r.item = job[t].item
         \/ r.item \in born /\ \A u \in Tasks : job[u].item # r.item
  PROVE  SoleInv'
  <1>1. \A u \in Tasks : job'[u] = IF u = t THEN r ELSE job[u]
    BY DEF Advance, TypeInv, TypeOK
  <1>2. IdleJob.item = Nil
    BY DEF IdleJob
  <1>3. \A u \in Tasks : job'[u].item # Nil => job'[u].item \in born'
    BY <1>1, <1>2 DEF SoleInv
  <1>4. ASSUME NEW u \in Tasks, NEW v \in Tasks, job'[u].item # Nil,
               job'[u].item = job'[v].item
        PROVE  u = v
    <2>1. CASE u = t /\ v # t
      BY <1>1, <1>2, <1>4, <2>1 DEF SoleInv
    <2>2. CASE u # t /\ v = t
      BY <1>1, <1>2, <1>4, <2>2 DEF SoleInv
    <2>3. CASE u # t /\ v # t
      BY <1>1, <1>4, <2>3 DEF SoleInv
    <2> QED  BY <2>1, <2>2, <2>3
  <1> QED  BY <1>3, <1>4 DEF SoleInv

LEMMA SoleNext ==
  ASSUME HistoryInv, SoleInv, OneSyncPerItem, [Next]_vars
  PROVE  SoleInv'
  <1> USE DEF HistoryInv
  <1>1. ASSUME UNCHANGED job, born \subseteq born' PROVE SoleInv'
    BY <1>1 DEF SoleInv
  <1>2. ASSUME NEW t \in Tasks, NEW i \in Items, NEW p, NEW q, Begin(t, i, p, q)
        PROVE  SoleInv'
    <2> DEFINE r == [IdleJob EXCEPT !.pc = "prepare", !.provider = p, !.item = i,
                                    !.requested = q]
    <2>1. r.item = i
      BY DEF IdleJob
    <2>2. i \in born
      BY <1>2 DEF Begin, Live
    <2>3. Advance(t, r) /\ born' = born /\ \A u \in Tasks : job[u].item # i
      BY <1>2 DEF Begin
    <2> HIDE DEF r
    <2> QED  BY <2>1, <2>2, <2>3, SoleAdvance
  <1>3. CASE Command
    <2>1. ASSUME NEW t \in Tasks, NEW i \in Items,
                 \/ BeginTelegram(t, i)
                 \/ \E q \in Requested : BeginDrive(t, i, q)
          PROVE  SoleInv'
      BY <1>2, <2>1 DEF BeginTelegram, BeginDrive
    <2>2. CASE \/ \E i \in Items, c \in Contents : ImportItem(i, c)
               \/ \E i \in Items : DeleteItem(i)
               \/ RescanVault
      BY <1>1, <2>2 DEF ImportItem, DeleteItem, RescanVault
    <2> QED  BY <1>3, <2>1, <2>2 DEF Command
  <1>4. CASE UserEdit
    BY <1>1, <1>4 DEF UserEdit, UserEditsFile
  <1>5. ASSUME NEW t \in Tasks, SyncStep(t) PROVE SoleInv'
    <2>1. born' = born
      BY <1>5 DEF SyncStep, PrepareSnapshot, ItemGone, StartTelegram, SkipDrive,
         StartDrive, SendTelegram, FindDrive, SendDrive, CheckSource,
         FinishTelegram, FinishDrive, Finish
    <2> QED  BY <1>5, <2>1, SyncStepMoves, SoleAdvance
  <1>6. CASE Restart
    BY <1>6 DEF Restart, SoleInv, IdleJob
  <1>7. CASE UNCHANGED vars
    BY <1>1, <1>7 DEF vars
  <1> QED  BY <1>3, <1>4, <1>5, <1>6, <1>7 DEF Next

LEMMA SoleInit == Init => SoleInv
  BY DEF Init, SoleInv, IdleJob

-----------------------------------------------------------------------------
(* DriveCopiesUnique.  The only copies that appear are those of a command   *)
(* at "send", and a Google Drive command gets there without a match.        *)

LEMMA UniqueAccept ==
  ASSUME UniqueInv, NEW t \in Tasks, job[t].pc = "send",
         NEW h \in Handles, Accept(h, job[t])
  PROVE  DriveCopiesUnique'
  <1>1. \A k \in Handles : copies'[k] = IF k = h THEN CopyOf(job[t]) ELSE copies[k]
    BY DEF Accept, UniqueInv, HistoryInv, TypeInv, TypeOK
  <1>2. copies[h] = Nil
    BY DEF Accept, Fresh
  <1>3. \A k \in Handles : CopyOf(job[t]).provider = "drive" => copies[k] # CopyOf(job[t])
    <2>1. job[t].provider = "drive" => Matching(job[t]) = {}
      BY DEF UniqueInv, At
    <2> QED  BY <2>1 DEF Matching, CopyOf
  <1> QED  BY <1>1, <1>2, <1>3 DEF DriveCopiesUnique, UniqueInv

(* A copy stored by another command matches no snapshot of this one's item. *)
LEMMA MatchingStays ==
  ASSUME UniqueInv, [Next]_vars, NEW u \in Tasks, job[u].item \in Items,
         job'[u] = job[u], Matching(job[u]) = {}
  PROVE  Matching(job[u])' = {}
  <1> SUFFICES ASSUME NEW k \in Handles PROVE copies'[k] # CopyOf(job[u])
    BY DEF Matching
  <1>1. CASE copies' = copies
    BY <1>1 DEF Matching
  <1>2. ASSUME NEW t \in Tasks, NEW h \in Handles, Accept(h, job[t]), t # u,
               job[t].item \in Items
        PROVE  copies'[k] # CopyOf(job[u])
    <2>1. copies'[k] \in {copies[k], CopyOf(job[t])}
      BY <1>2 DEF Accept, UniqueInv, HistoryInv, TypeInv, TypeOK
    <2>2. job[t].item # job[u].item
      BY <1>2, NilAssumption DEF UniqueInv, SoleInv
    <2>3. CopyOf(job[t]) # CopyOf(job[u])
      BY <2>2 DEF CopyOf
    <2> QED  BY <2>1, <2>3 DEF Matching
  <1>3. ASSUME NEW t \in Tasks, SendTelegram(t) \/ SendDrive(t),
               NEW h \in Handles, Accept(h, job[t])
        PROVE  copies'[k] # CopyOf(job[u])
    <2>1. job[t].pc = "send" /\ job[t].item \in Items /\ job[t] \in Job
      BY <1>3 DEF SendTelegram, SendDrive, At, UniqueInv, HistoryInv, TypeInv,
         TypeOK, JobOK
    <2>2. t # u
      <3>1. ASSUME NEW g, UploadEnds(t, g) PROVE job'[t] # job[t]
        <4>1. job'[t].pc = "check"
          BY <2>1, <3>1 DEF UploadEnds, Advance, UniqueInv, HistoryInv, TypeInv,
             TypeOK, Job
        <4> QED  BY <2>1, <4>1
      <3>2. CASE Advance(t, [job[t] EXCEPT !.sent = @ + 1])
        <4>1. job'[t].sent = job[t].sent + 1 /\ job[t].sent \in Nat
          BY <2>1, <3>2, AttemptsAssumption DEF Advance, UniqueInv, HistoryInv,
             TypeInv, TypeOK, Job
        <4> QED  BY <4>1
      <3> QED  BY <1>3, <3>1, <3>2 DEF SendTelegram, SendDrive
    <2> QED  BY <1>2, <1>3, <2>1, <2>2
  <1>4. CASE Command
    BY <1>1, <1>4 DEF Command, ImportItem, DeleteItem, RescanVault, BeginTelegram,
       BeginDrive, Begin
  <1>5. CASE UserEdit
    BY <1>1, <1>5 DEF UserEdit, UserEditsFile
  <1>6. ASSUME NEW t \in Tasks, SyncStep(t) PROVE copies'[k] # CopyOf(job[u])
    <2>1. CASE SendTelegram(t) \/ SendDrive(t)
      BY <1>1, <1>3, <2>1 DEF SendTelegram, SendDrive
    <2>2. CASE StartTelegram(t) \/ StartDrive(t) \/ FinishTelegram(t) \/ FinishDrive(t)
      BY <1>1, <2>2 DEF StartTelegram, StartDrive, FinishTelegram, FinishDrive, Finish
    <2>3. CASE PrepareSnapshot(t) \/ ItemGone(t) \/ SkipDrive(t) \/ CheckSource(t)
               \/ FindDrive(t)
      BY <1>1, <2>3 DEF PrepareSnapshot, ItemGone, SkipDrive, CheckSource, FindDrive
    <2> QED  BY <1>6, <2>1, <2>2, <2>3 DEF SyncStep
  <1>7. CASE Restart
    BY <1>1, <1>7 DEF Restart
  <1>8. CASE UNCHANGED vars
    BY <1>1, <1>8 DEF vars
  <1> QED  BY <1>4, <1>5, <1>6, <1>7, <1>8 DEF Next

LEMMA UniqueNext ==
  ASSUME UniqueInv, OneSyncPerItem, [Next]_vars
  PROVE  UniqueInv'
  <1>0. TypeInv /\ TypeInv' /\ HistoryInv' /\ SoleInv'
    BY TypeNext, HistoryNext, SoleNext DEF UniqueInv, HistoryInv
  <1>1. DriveCopiesUnique'
    <2>1. CASE copies' = copies
      BY <2>1 DEF UniqueInv, DriveCopiesUnique
    <2>2. CASE Command
      BY <2>1, <2>2 DEF Command, ImportItem, DeleteItem, RescanVault, BeginTelegram,
         BeginDrive, Begin
    <2>3. CASE UserEdit
      BY <2>1, <2>3 DEF UserEdit, UserEditsFile
    <2>4. ASSUME NEW t \in Tasks, SyncStep(t) PROVE DriveCopiesUnique'
      <3>1. CASE SendTelegram(t) \/ SendDrive(t)
        BY <2>1, <3>1, UniqueAccept DEF SendTelegram, SendDrive, At
      <3>2. CASE StartTelegram(t) \/ StartDrive(t) \/ FinishTelegram(t) \/ FinishDrive(t)
        BY <2>1, <3>2 DEF StartTelegram, StartDrive, FinishTelegram, FinishDrive, Finish
      <3>3. CASE PrepareSnapshot(t) \/ ItemGone(t) \/ SkipDrive(t) \/ CheckSource(t)
                 \/ FindDrive(t)
        BY <2>1, <3>3 DEF PrepareSnapshot, ItemGone, SkipDrive, CheckSource, FindDrive
      <3> QED  BY <2>4, <3>1, <3>2, <3>3 DEF SyncStep
    <2>5. CASE Restart
      BY <2>1, <2>5 DEF Restart
    <2>6. CASE UNCHANGED vars
      BY <2>1, <2>6 DEF vars
    <2> QED  BY <2>2, <2>3, <2>4, <2>5, <2>6 DEF Next
  <1>2. ASSUME NEW u \in Tasks, At(u, "send", "drive")'
        PROVE  Matching(job[u])' = {}
    <2>1. CASE job'[u] = job[u]
      <3>1. At(u, "send", "drive") /\ job[u].item \in Items
        BY <1>0, <1>2, <2>1 DEF At, TypeInv, JobOK
      <3> QED  BY <2>1, <3>1, MatchingStays DEF UniqueInv
    <2>2. ASSUME NEW t \in Tasks, NEW r, Advance(t, r), job'[u] # job[u]
          PROVE  u = t /\ job'[u] = r
      BY <2>2, <1>0 DEF Advance, TypeInv, TypeOK
    <2>3. CASE Command /\ job'[u] # job[u]
      <3>1. PICK t \in Tasks, i \in Items, p \in AllProviders, q \in Requested \cup {Nil} :
              Begin(t, i, p, q)
        BY <2>3 DEF Command, ImportItem, DeleteItem, RescanVault, BeginTelegram,
           BeginDrive, AllProviders
      <3> DEFINE r == [IdleJob EXCEPT !.pc = "prepare", !.provider = p, !.item = i,
                                      !.requested = q]
      <3>2. r.pc = "prepare"
        BY DEF IdleJob
      <3>3. Advance(t, r)
        BY <3>1 DEF Begin
      <3> HIDE DEF r
      <3>4. job'[u].pc = "prepare"
        BY <2>2, <2>3, <3>2, <3>3
      <3> QED  BY <1>2, <3>4 DEF At
    <2>4. ASSUME NEW t \in Tasks, SyncStep(t), job'[u] # job[u]
          PROVE  Matching(job[u])' = {}
      <3>0. job[t] \in Job /\ IdleJob.pc = "idle"
        BY <1>0 DEF TypeInv, TypeOK, IdleJob
      <3>1. u = t
        BY <2>2, <2>4, <1>0, SyncStepMoves
      <3>2. ASSUME NEW r, Advance(t, r), r.pc # "send" PROVE FALSE
        BY <1>2, <2>2, <2>4, <3>2 DEF At
      <3>3. ASSUME NEW g, UploadEnds(t, g) PROVE FALSE
        <4> DEFINE r == [job[t] EXCEPT !.pc = "check", !.sent = 0, !.result = g]
        <4>1. r.pc = "check"
          BY <3>0 DEF Job
        <4>2. Advance(t, r)
          BY <3>3 DEF UploadEnds
        <4> HIDE DEF r
        <4> QED  BY <3>2, <4>1, <4>2
      <3>4. ~ Return(t)
        BY <3>0, <3>2 DEF Return
      <3>5. CASE PrepareSnapshot(t)
        <4> DEFINE r == [job[t] EXCEPT !.pc = "start", !.content = disk[job[t].item]]
        <4>1. r.pc = "start"
          BY <3>0 DEF Job
        <4>2. Advance(t, r)
          BY <3>4, <3>5 DEF PrepareSnapshot
        <4> HIDE DEF r
        <4> QED  BY <3>2, <4>1, <4>2
      <3>6. CASE StartTelegram(t) \/ SendTelegram(t)
        <4>1. job[t].provider = "telegram"
          BY <3>6 DEF StartTelegram, SendTelegram, At
        <4>2. PICK r : /\ Advance(t, r)
                       /\ r = IdleJob \/ r.provider = job[t].provider
          BY <2>4, <1>0, SyncStepMoves
        <4>3. job'[u] = r
          BY <2>2, <2>4, <4>2
        <4> QED  BY <1>2, <3>0, <4>1, <4>2, <4>3 DEF At
      <3>7. CASE StartDrive(t)
        <4>1. PICK a : Advance(t, [job[t] EXCEPT !.pc = "find", !.account = a,
                                                 !.requested = Nil])
          BY <3>4, <3>7 DEF StartDrive
        <4> DEFINE r == [job[t] EXCEPT !.pc = "find", !.account = a, !.requested = Nil]
        <4>2. r.pc = "find"
          BY <3>0 DEF Job
        <4>3. Advance(t, r)
          BY <4>1
        <4> HIDE DEF r
        <4> QED  BY <3>2, <4>2, <4>3
      <3>8. CASE FindDrive(t)
        <4> DEFINE r == [job[t] EXCEPT !.pc = "send"]
        <4>1. Matching(job[t]) = {} /\ Advance(t, r) /\ copies' = copies
          BY <3>3, <3>8 DEF FindDrive
        <4>2. CopyOf(r) = CopyOf(job[t])
          BY <3>0 DEF CopyOf, Job
        <4> HIDE DEF r
        <4>3. job'[u] = r
          BY <2>2, <2>4, <4>1
        <4> QED  BY <4>1, <4>2, <4>3 DEF Matching
      <3>9. CASE SendDrive(t)
        BY <3>3, <3>9 DEF SendDrive
      <3>10. CASE CheckSource(t)
        <4> DEFINE r == [job[t] EXCEPT !.pc = "finish", !.content = Nil,
                               !.account = Nil,
                               !.unchanged = (disk[job[t].item] = job[t].content)]
        <4>1. r.pc = "finish"
          BY <3>0 DEF Job
        <4>2. Advance(t, r)
          BY <3>10 DEF CheckSource
        <4> HIDE DEF r
        <4> QED  BY <3>2, <4>1, <4>2
      <3>11. CASE ItemGone(t) \/ SkipDrive(t) \/ FinishTelegram(t) \/ FinishDrive(t)
        BY <3>4, <3>11 DEF ItemGone, SkipDrive, FinishTelegram, FinishDrive, Finish
      <3> QED
        BY <2>4, <3>5, <3>6, <3>7, <3>8, <3>9, <3>10, <3>11 DEF SyncStep
    <2>5. CASE UserEdit
      BY <2>1, <2>5 DEF UserEdit, UserEditsFile
    <2>6. CASE Restart
      BY <1>2, <2>6 DEF Restart, At, IdleJob
    <2>7. CASE UNCHANGED vars
      BY <2>1, <2>7 DEF vars
    <2> QED  BY <2>1, <2>3, <2>4, <2>5, <2>6, <2>7 DEF Next
  <1> QED  BY <1>0, <1>1, <1>2 DEF UniqueInv

(* With one sync of an item at a time, no retry of a Google Drive upload,   *)
(* after lost replies, failed saves and crashes, ever stores the same       *)
(* snapshot twice in one account.                                           *)
THEOREM CopiesUnique == OneSyncPerItem => (Spec => []DriveCopiesUnique)
  <1> SUFFICES ASSUME OneSyncPerItem PROVE Spec => []DriveCopiesUnique
    OBVIOUS
  <1>1. Init => UniqueInv
    <2> SUFFICES ASSUME Init PROVE UniqueInv
      OBVIOUS
    <2>1. HistoryInv
      BY TypeInit DEF Init, HistoryInv, Live, Remembers
    <2>2. DriveCopiesUnique /\ \A t \in Tasks : ~ At(t, "send", "drive")
      BY DEF Init, DriveCopiesUnique, At, IdleJob
    <2> QED  BY <2>1, <2>2, SoleInit DEF UniqueInv
  <1>2. UniqueInv /\ [Next]_vars => UniqueInv'
    BY UniqueNext
  <1>3. UniqueInv => DriveCopiesUnique
    BY DEF UniqueInv
  <1> QED  BY <1>1, <1>2, <1>3, PTL DEF Spec

-----------------------------------------------------------------------------
(* AccountHoldsCopy, with any number of syncs of an item in flight.  Only    *)
(* the start of a Google Drive sync gives an item an account, and as long as *)
(* no caller asks for one it keeps that account: it selects under the lock.  *)

LEMMA UnaskedAdvance ==
  ASSUME TypeInv, UnaskedInv, born' = born, NEW t \in Tasks, NEW r, Advance(t, r),
         r.requested = Nil, r.item \in {Nil, job[t].item} \cup born
  PROVE  UnaskedInv'
  <1>1. \A u \in Tasks : job'[u] = IF u = t THEN r ELSE job[u]
    BY DEF Advance, TypeInv, TypeOK
  <1> QED  BY <1>1 DEF UnaskedInv

LEMMA UnaskedNext ==
  ASSUME HistoryInv, UnaskedInv, Requested = {Nil}, [Next]_vars
  PROVE  UnaskedInv'
  <1> USE DEF HistoryInv
  <1>0. IdleJob.requested = Nil /\ IdleJob.item = Nil
    BY DEF IdleJob
  <1>1. ASSUME UNCHANGED job, born \subseteq born' PROVE UnaskedInv'
    BY <1>1 DEF UnaskedInv
  <1>2. ASSUME NEW t \in Tasks, NEW i \in Items, NEW p, Begin(t, i, p, Nil)
        PROVE  UnaskedInv'
    <2> DEFINE r == [IdleJob EXCEPT !.pc = "prepare", !.provider = p, !.item = i,
                                    !.requested = Nil]
    <2>1. r.item = i /\ r.requested = Nil
      BY DEF IdleJob
    <2>2. i \in born
      BY <1>2 DEF Begin, Live
    <2>3. Advance(t, r) /\ born' = born
      BY <1>2 DEF Begin
    <2> HIDE DEF r
    <2> QED  BY <2>1, <2>2, <2>3, UnaskedAdvance
  <1>3. CASE Command
    <2>1. ASSUME NEW t \in Tasks, NEW i \in Items,
                 \/ BeginTelegram(t, i)
                 \/ \E q \in Requested : BeginDrive(t, i, q)
          PROVE  UnaskedInv'
      BY <1>2, <2>1 DEF BeginTelegram, BeginDrive
    <2>2. CASE \/ \E i \in Items, c \in Contents : ImportItem(i, c)
               \/ \E i \in Items : DeleteItem(i)
               \/ RescanVault
      BY <1>1, <2>2 DEF ImportItem, DeleteItem, RescanVault
    <2> QED  BY <1>3, <2>1, <2>2 DEF Command
  <1>4. CASE UserEdit
    BY <1>1, <1>4 DEF UserEdit, UserEditsFile
  <1>5. ASSUME NEW t \in Tasks, SyncStep(t) PROVE UnaskedInv'
    <2>1. born' = born
      BY <1>5 DEF SyncStep, PrepareSnapshot, ItemGone, StartTelegram, SkipDrive,
         StartDrive, SendTelegram, FindDrive, SendDrive, CheckSource,
         FinishTelegram, FinishDrive, Finish
    <2>2. job[t].requested = Nil
      BY DEF UnaskedInv
    <2> QED  BY <1>0, <1>5, <2>1, <2>2, SyncStepMoves, UnaskedAdvance
  <1>6. CASE Restart
    BY <1>0, <1>6 DEF Restart, UnaskedInv
  <1>7. CASE UNCHANGED vars
    BY <1>1, <1>7 DEF vars
  <1> QED  BY <1>3, <1>4, <1>5, <1>6, <1>7 DEF Next

LEMMA UnaskedInit == Init => UnaskedInv
  BY DEF Init, UnaskedInv, IdleJob

(* Whatever runs, an item that has an account keeps it.                     *)
LEMMA OwnerKept ==
  ASSUME TypeInv, UnaskedInv, [Next]_vars, ~ Restart, NEW i \in born, items'[i] # Nil
  PROVE  /\ items[i] # Nil
         /\ items[i].driveAccountId # Nil =>
                items'[i].driveAccountId = items[i].driveAccountId
  <1>1. i \in Items /\ (items[i] # Nil => items[i] \in VaultItem)
    BY DEF TypeInv, TypeOK
  <1>2. ItemMove(i)
    BY <1>1, ItemMoves
  <1>3. CASE items'[i] = items[i]
    BY <1>3
  <1>4. CASE items[i] # Nil /\ items'[i] = [items[i] EXCEPT !.syncState["telegram"] = "failed"]
    BY <1>1, <1>4 DEF VaultItem
  <1>5. ASSUME NEW t \in Tasks, StartTelegram(t), job[t].item = i,
               items'[i] = Syncing(items[i], "telegram", job[t].content,
                                   items[i].driveAccountId)
        PROVE  items[i] # Nil /\ items'[i].driveAccountId = items[i].driveAccountId
    BY <1>1, <1>5 DEF StartTelegram, Syncing, VaultItem
  <1>6. ASSUME NEW t \in Tasks, Finish(t), job[t].item = i,
               items'[i] = Finished(items[i], job[t])
        PROVE  items[i] # Nil /\ items'[i].driveAccountId = items[i].driveAccountId
    BY <1>1, <1>6 DEF Finish, Finished, VaultItem
  <1>7. ASSUME NEW t \in Tasks, StartDrive(t), job[t].item = i
        PROVE  /\ items[i] # Nil
               /\ items[i].driveAccountId # Nil =>
                      items'[i].driveAccountId = items[i].driveAccountId
    <2>1. items[i] \in VaultItem /\ job[t].requested = Nil
      BY <1>1, <1>7 DEF StartDrive, UnaskedInv
    <2>2. PICK a \in SelectAccount(items[i], Nil) :
            Persist([items EXCEPT ![i] = Syncing(@, "drive", job[t].content, a)])
      BY <1>7, <2>1 DEF StartDrive
    <2>3. items'[i] = Syncing(items[i], "drive", job[t].content, a)
      BY <1>1, <2>2 DEF Persist, TypeInv, TypeOK
    <2>4. items'[i].driveAccountId = a
      BY <2>1, <2>3 DEF Syncing, VaultItem
    <2>5. items[i].driveAccountId # Nil => a = items[i].driveAccountId
      BY <2>2 DEF SelectAccount
    <2> QED  BY <1>7, <2>4, <2>5 DEF StartDrive
  <1> QED  BY <1>2, <1>3, <1>4, <1>5, <1>6, <1>7 DEF ItemMove

(* A copy held before a step is held after it, so what names it stays true. *)
LEMMA AccountInStays ==
  ASSUME TypeInv, [Next]_vars, NEW i \in Items, NEW rec \in VaultItem,
         BackedIn(copies, i, rec, "drive"), AccountIn(rec, copies)
  PROVE  AccountIn(rec, copies')
  <1> SUFFICES ASSUME rec.syncState["drive"] = "synced"
               PROVE  copies'[rec.remoteId["drive"]].account = rec.driveAccountId
    BY DEF AccountIn
  <1>1. rec.remoteId["drive"] \in Handles /\ copies[rec.remoteId["drive"]] # Nil
    BY DEF BackedIn, VaultItem, AllProviders
  <1>2. copies'[rec.remoteId["drive"]] = copies[rec.remoteId["drive"]]
    BY <1>1, CopiesKept
  <1> QED  BY <1>2 DEF AccountIn

LEMMA AccountInItems ==
  ASSUME AccountInv, [Next]_vars, NEW i \in Items
  PROVE  /\ items[i] # Nil => AccountIn(items[i], copies')
         /\ saved[i] # Nil => AccountIn(saved[i], copies')
  <1>1. "drive" \in AllProviders /\ TypeInv
    BY DEF AllProviders, AccountInv, BackedInv
  <1>2. /\ items[i] # Nil => items[i] \in VaultItem /\ BackedIn(copies, i, items[i], "drive")
        /\ saved[i] # Nil => saved[i] \in VaultItem /\ BackedIn(copies, i, saved[i], "drive")
    BY <1>1 DEF AccountInv, BackedInv, SyncedIsBacked, Backed, BackedIn, TypeInv, TypeOK
  <1> QED  BY <1>1, <1>2, AccountInStays DEF AccountInv

LEMMA AccountNextItems ==
  ASSUME AccountInv, [Next]_vars, NEW i \in Items, items'[i] # Nil
  PROVE  AccountIn(items'[i], copies')
  <1>1. TypeInv
    BY DEF AccountInv, BackedInv
  <1>2. items[i] # Nil => items[i] \in VaultItem
    BY <1>1 DEF TypeInv, TypeOK
  <1>3. ItemMove(i)
    BY <1>1, ItemMoves
  <1>4. CASE items'[i] \in {Nil, items[i]} \/ (Restart /\ items'[i] = saved[i])
    BY <1>4, AccountInItems
  <1>5. ASSUME NEW c \in Contents, items'[i] = NewItem(c)
        PROVE  AccountIn(items'[i], copies')
    BY <1>5 DEF AccountIn, NewItem, AllProviders
  <1>6. CASE items[i] # Nil /\ items'[i] = [items[i] EXCEPT !.syncState["telegram"] = "failed"]
    <2>1. /\ items'[i].syncState["drive"] = items[i].syncState["drive"]
          /\ items'[i].remoteId["drive"] = items[i].remoteId["drive"]
          /\ items'[i].driveAccountId = items[i].driveAccountId
      BY <1>2, <1>6 DEF VaultItem, AllProviders
    <2> QED  BY <1>6, <2>1, AccountInItems DEF AccountIn
  <1>7. ASSUME NEW t \in Tasks, StartTelegram(t), job[t].item = i,
               items'[i] = Syncing(items[i], "telegram", job[t].content,
                                   items[i].driveAccountId)
        PROVE  AccountIn(items'[i], copies')
    <2>0. items[i] # Nil
      BY <1>7 DEF StartTelegram
    <2>1. /\ items'[i].syncState["drive"] = items[i].syncState["drive"]
          /\ items'[i].remoteId["drive"] = items[i].remoteId["drive"]
          /\ items'[i].driveAccountId = items[i].driveAccountId
      BY <1>2, <1>7, <2>0 DEF Syncing, VaultItem, AllProviders
    <2> QED  BY <2>0, <2>1, AccountInItems DEF AccountIn
  <1>8. ASSUME NEW t \in Tasks, NEW a, StartDrive(t), job[t].item = i,
               items'[i] = Syncing(items[i], "drive", job[t].content, a)
        PROVE  AccountIn(items'[i], copies')
    <2>0. items[i] \in VaultItem
      BY <1>2, <1>8 DEF StartDrive
    <2>1. items'[i].syncState["drive"] = "syncing"
      BY <1>8, <2>0 DEF Syncing, VaultItem, AllProviders
    <2> QED  BY <2>1 DEF AccountIn
  <1>9. ASSUME NEW t \in Tasks, job[t].pc = "finish", Finish(t), job[t].item = i,
               items'[i] = Finished(items[i], job[t])
        PROVE  AccountIn(items'[i], copies')
    <2>0. items[i] \in VaultItem /\ items[i] # Nil /\ job[t] \in Job
      BY <1>1, <1>2, <1>9 DEF Finish, TypeInv, TypeOK
    <2>1. CASE job[t].provider = "telegram"
      <3>1. /\ items'[i].syncState["drive"] = items[i].syncState["drive"]
            /\ items'[i].remoteId["drive"] = items[i].remoteId["drive"]
            /\ items'[i].driveAccountId = items[i].driveAccountId
        BY <1>9, <2>0, <2>1 DEF Finished, VaultItem, AllProviders
      <3> QED  BY <2>0, <3>1, AccountInItems DEF AccountIn
    <2>2. CASE job[t].provider = "drive"
      <3> SUFFICES ASSUME items'[i].syncState["drive"] = "synced"
                   PROVE  copies'[items'[i].remoteId["drive"]].account
                            = items'[i].driveAccountId
        BY DEF AccountIn
      <3>1. /\ job[t].result # Nil
            /\ items'[i].remoteId["drive"] = job[t].result
            /\ items'[i].driveAccountId = items[i].driveAccountId
        BY <1>9, <2>0, <2>2 DEF Finished, VaultItem, AllProviders
      <3>2. copies[job[t].result].account = items[i].driveAccountId
        BY <1>9, <2>0, <2>2, <3>1 DEF AccountInv, JobsAccounted, Accounted
      <3>3. job[t].result \in Handles /\ copies[job[t].result] # Nil
        BY <2>0, <3>1 DEF AccountInv, BackedInv, ResultOK, Job
      <3>4. copies'[job[t].result] = copies[job[t].result]
        BY <1>1, <3>3, CopiesKept
      <3> QED  BY <3>1, <3>2, <3>4
    <2> QED  BY <2>0, <2>1, <2>2 DEF Job, AllProviders
  <1> QED  BY <1>3, <1>4, <1>5, <1>6, <1>7, <1>8, <1>9 DEF ItemMove

(* A command that does not move keeps what it has fixed, as long as its     *)
(* item names the same account.                                             *)
LEMMA AccountedStays ==
  ASSUME AccountInv, [Next]_vars, NEW u \in Tasks, job[u].item \in Items,
         items[job[u].item] # Nil, NEW r, NEW rec,
         rec.driveAccountId = items[job[u].item].driveAccountId,
         r.provider = job[u].provider, r.result = job[u].result,
         r.pc \in {"find", "send", "check"} =>
            job[u].pc \in {"find", "send", "check"} /\ r.account = job[u].account,
         r.pc \in {"check", "finish"} => job[u].pc \in {"check", "finish"}
  PROVE  Accounted(r, rec, copies')
  <1>1. Accounted(job[u], items[job[u].item], copies)
    BY DEF AccountInv, JobsAccounted
  <1>2. job[u].result # Nil => copies'[job[u].result] = copies[job[u].result]
    BY CopiesKept DEF AccountInv, BackedInv, ResultOK, TypeInv, TypeOK, Job
  <1> QED  BY <1>1, <1>2 DEF Accounted

LEMMA AccountNextJobs ==
  ASSUME AccountInv, TypeInv', [Next]_vars,
         NEW u \in Tasks, job'[u].item \in Items, items'[job'[u].item] # Nil
  PROVE  Accounted(job'[u], items'[job'[u].item], copies')
  <1> DEFINE i == job'[u].item
  <1>0. /\ TypeInv /\ UnaskedInv /\ job[u] \in Job /\ i # Nil
        /\ IdleJob.item = Nil /\ IdleJob.pc = "idle"
    BY NilAssumption DEF AccountInv, BackedInv, TypeInv, TypeOK, IdleJob
  <1>1. ~ Restart
    BY <1>0 DEF Restart
  <1>2. CASE job'[u].pc \notin {"find", "send", "check", "finish"}
    BY <1>2 DEF Accounted
  <1>3. CASE job'[u].provider # "drive"
    BY <1>3 DEF Accounted
  <1>4. ASSUME NEW t \in Tasks, NEW r, Advance(t, r)
        PROVE  job'[u] = IF u = t THEN r ELSE job[u]
    BY <1>4, <1>0 DEF Advance, TypeInv, TypeOK
  <1>5. CASE job'[u] = job[u]
    <2>1. i \in born
      BY <1>0, <1>5 DEF UnaskedInv
    <2>2. /\ items[i] # Nil
          /\ items[i].driveAccountId # Nil =>
                 items'[i].driveAccountId = items[i].driveAccountId
      BY <1>0, <1>1, <2>1, OwnerKept
    <2>3. CASE items[i].driveAccountId = Nil
      <3>1. Accounted(job[u], items[i], copies)
        BY <1>5, <2>2 DEF AccountInv, JobsAccounted
      <3> QED  BY <1>2, <1>3, <1>5, <2>3, <3>1 DEF Accounted
    <2>4. CASE items[i].driveAccountId # Nil
      BY <1>5, <2>2, <2>4, AccountedStays
    <2> QED  BY <2>3, <2>4
  <1>6. CASE Command
    <2>1. CASE job' = job
      BY <1>5, <2>1
    <2>2. CASE job' # job
      <3>1. PICK t \in Tasks, j \in Items, p \in AllProviders, q \in Requested \cup {Nil} :
              Begin(t, j, p, q)
        BY <1>6, <2>2 DEF Command, ImportItem, DeleteItem, RescanVault, BeginTelegram,
           BeginDrive, AllProviders
      <3> DEFINE r == [IdleJob EXCEPT !.pc = "prepare", !.provider = p, !.item = j,
                                      !.requested = q]
      <3>2. r.pc = "prepare"
        BY DEF IdleJob
      <3>3. Advance(t, r)
        BY <3>1 DEF Begin
      <3> HIDE DEF r
      <3> QED  BY <1>2, <1>4, <1>5, <3>2, <3>3
    <2> QED  BY <2>1, <2>2
  <1>7. CASE UserEdit
    BY <1>5, <1>7 DEF UserEdit, UserEditsFile
  <1>8. ASSUME NEW t \in Tasks, SyncStep(t), job'[u] # job[u]
        PROVE  Accounted(job'[u], items'[i], copies')
    <2>1. PICK r : Advance(t, r) /\ (r = IdleJob \/ r.item = job[t].item)
      BY <1>0, <1>8, SyncStepMoves
    <2>2. u = t /\ job'[u] = r /\ job[u].item = i
      BY <1>0, <1>4, <1>8, <2>1
    <2>3. i \in born
      BY <1>0, <2>2 DEF UnaskedInv
    <2>4. CASE PrepareSnapshot(t) /\ ~ Return(t)
      <3> DEFINE n == [job[t] EXCEPT !.pc = "start", !.content = disk[job[t].item]]
      <3>1. n.pc = "start"
        BY <1>0, <2>2 DEF Job
      <3>2. Advance(t, n)
        BY <2>4 DEF PrepareSnapshot
      <3> HIDE DEF n
      <3> QED  BY <1>2, <1>4, <2>2, <3>1, <3>2
    <2>5. CASE StartTelegram(t) \/ SendTelegram(t) \/ FinishTelegram(t)
      <3>1. job[t].provider = "telegram"
        BY <2>5 DEF StartTelegram, SendTelegram, FinishTelegram, At
      <3>2. PICK n : /\ Advance(t, n)
                     /\ n = IdleJob \/ n.provider = job[t].provider
        BY <1>0, <1>8, SyncStepMoves
      <3>3. job'[u] = n
        BY <1>4, <2>2, <3>2
      <3> QED  BY <1>0, <1>3, <3>1, <3>2, <3>3
    <2>6. CASE StartDrive(t) /\ ~ Return(t)
      <3>0. items[i] \in VaultItem /\ job[t].pc = "start"
        BY <1>0, <2>2, <2>6 DEF StartDrive, At, TypeInv, TypeOK
      <3>1. PICK a \in SelectAccount(items[i], Nil) :
              /\ Persist([items EXCEPT ![i] = Syncing(@, "drive", job[t].content, a)])
              /\ Advance(t, [job[t] EXCEPT !.pc = "find", !.account = a,
                                           !.requested = Nil])
        BY <1>0, <2>2, <2>6 DEF StartDrive, UnaskedInv
      <3>6. a # Nil
        BY <3>0, <3>1, NilAssumption DEF SelectAccount
      <3> DEFINE n == [job[t] EXCEPT !.pc = "find", !.account = a, !.requested = Nil]
      <3>2. n.pc = "find" /\ n.account = a
        BY <1>0, <2>2 DEF Job
      <3>3. items'[i] = Syncing(items[i], "drive", job[t].content, a)
        BY <1>0, <3>1 DEF Persist, TypeInv, TypeOK
      <3>4. items'[i].driveAccountId = a /\ a # Nil
        BY <3>0, <3>3, <3>6 DEF Syncing, VaultItem
      <3>5. Advance(t, n)
        BY <3>1
      <3> HIDE DEF n
      <3> QED  BY <1>4, <2>2, <3>2, <3>4, <3>5 DEF Accounted
    <2>7. CASE FindDrive(t) \/ SendDrive(t)
      <3>0. /\ items' = items /\ items[i] # Nil
            /\ job[t].pc \in {"find", "send"} /\ job[t].provider = "drive"
            /\ job[t].item \in Items /\ job[t].content \in Contents
        BY <1>0, <2>7 DEF FindDrive, SendDrive, At, TypeInv, JobOK
      <3>1. items[i].driveAccountId = job[t].account /\ job[t].account # Nil
        BY <2>2, <3>0 DEF AccountInv, JobsAccounted, Accounted
      <3>2. ASSUME NEW h, UploadEnds(t, h),
                   h # Nil => copies'[h] = CopyOf(job[t])
            PROVE  Accounted(job'[u], items'[i], copies')
        <4> DEFINE n == [job[t] EXCEPT !.pc = "check", !.sent = 0, !.result = h]
        <4>1. n.account = job[t].account /\ n.result = h
          BY <1>0, <2>2 DEF Job
        <4>2. Advance(t, n)
          BY <3>2 DEF UploadEnds
        <4> HIDE DEF n
        <4> QED  BY <1>4, <2>2, <3>0, <3>1, <3>2, <4>1, <4>2 DEF Accounted, CopyOf
      <3>3. CASE Advance(t, [job[t] EXCEPT !.pc = "send"])
        <4> DEFINE n == [job[t] EXCEPT !.pc = "send"]
        <4>1. n.account = job[t].account /\ n.pc = "send"
          BY <1>0, <2>2 DEF Job
        <4>2. Advance(t, n)
          BY <3>3
        <4> HIDE DEF n
        <4> QED  BY <1>4, <2>2, <3>0, <3>1, <4>1, <4>2 DEF Accounted
      <3>4. ASSUME NEW h \in Handles, Accept(h, job[t])
            PROVE  copies'[h] = CopyOf(job[t])
        BY <1>0, <3>4 DEF Accept, TypeInv, TypeOK
      <3>5. ASSUME copies' = copies, NEW h \in Matching(job[t])
            PROVE  copies'[h] = CopyOf(job[t])
        BY <3>5 DEF Matching
      <3>6. CASE FindDrive(t)
        BY <3>2, <3>3, <3>5, <3>6 DEF FindDrive
      <3>7. CASE SendDrive(t)
        BY <3>2, <3>4, <3>5, <3>7 DEF SendDrive
      <3> QED  BY <2>7, <3>6, <3>7
    <2>8. CASE CheckSource(t)
      <3> DEFINE n == [job[t] EXCEPT !.pc = "finish", !.content = Nil,
                             !.account = Nil,
                             !.unchanged = (disk[job[t].item] = job[t].content)]
      <3>1. /\ n.pc = "finish" /\ n.provider = job[t].provider
            /\ n.result = job[t].result
        BY <1>0, <2>2 DEF Job
      <3>2. Advance(t, n)
        BY <2>8 DEF CheckSource
      <3>3. job[t].pc = "check" /\ items' = items
        BY <2>8 DEF CheckSource
      <3> HIDE DEF n
      <3>4. job'[u] = n
        BY <1>4, <2>2, <3>2
      <3> QED  BY <2>2, <3>1, <3>3, <3>4, AccountedStays
    <2>9. ~ Return(t)
      BY <1>0, <1>4, <2>2 DEF Return
    <2>10. CASE ItemGone(t) \/ SkipDrive(t) \/ FinishDrive(t)
      BY <2>9, <2>10 DEF ItemGone, SkipDrive, FinishDrive, Finish
    <2> QED
      BY <1>8, <2>4, <2>5, <2>6, <2>7, <2>8, <2>9, <2>10 DEF SyncStep
  <1>9. CASE UNCHANGED vars
    BY <1>5, <1>9 DEF vars
  <1> QED  BY <1>1, <1>5, <1>6, <1>7, <1>8, <1>9 DEF Next

(* However many syncs of an item overlap, the account it names is the one   *)
(* that holds its synced copy, also after failed saves and crashes, as long *)
(* as callers leave the choice of the account to the command.               *)
THEOREM AccountCorrect == Requested = {Nil} => (Spec => []AccountHoldsCopy)
  <1> SUFFICES ASSUME Requested = {Nil} PROVE Spec => []AccountHoldsCopy
    OBVIOUS
  <1>1. Init => AccountInv
    <2> SUFFICES ASSUME Init PROVE AccountInv
      OBVIOUS
    <2>1. HistoryInv
      BY TypeInit DEF Init, HistoryInv, Live, Remembers
    <2>2. BackedInv
      BY TypeInit DEF Init, BackedInv, ResultOK, IdleJob, SyncedIsBacked
    <2>3. JobsAccounted
      BY DEF Init, JobsAccounted
    <2> QED  BY <2>1, <2>2, <2>3, UnaskedInit DEF AccountInv, Init
  <1>2. AccountInv /\ [Next]_vars => AccountInv'
    <2> SUFFICES ASSUME AccountInv, [Next]_vars PROVE AccountInv'
      OBVIOUS
    <2>1. TypeInv' /\ BackedInv' /\ HistoryInv' /\ UnaskedInv'
      BY TypeNext, ResultNext, BackedNext, HistoryNext, UnaskedNext
         DEF AccountInv, BackedInv
    <2>2. JobsAccounted'
      BY <2>1, AccountNextJobs DEF JobsAccounted
    <2>3. \A i \in Items :
            /\ items'[i] # Nil => AccountIn(items'[i], copies')
            /\ saved'[i] # Nil => AccountIn(saved'[i], copies')
      BY AccountNextItems, AccountInItems, SavedMoves
    <2> QED  BY <2>1, <2>2, <2>3 DEF AccountInv
  <1>3. AccountInv => AccountHoldsCopy
    BY DEF AccountInv, AccountHoldsCopy, AccountIn
  <1> QED  BY <1>1, <1>2, <1>3, PTL DEF Spec

-----------------------------------------------------------------------------
(* Refinement of ItemLedger.  First the entries: what each change of a      *)
(* record does to what its reader sees.                                     *)

LEMMA EntryIsRecord ==
  ASSUME NEW rec \in VaultItem
  PROVE  /\ EntryOf(rec) = [mark |-> rec.syncState,
                            known |-> {p \in AllProviders : rec.remoteId[p] # Nil}]
         /\ EntryOf(rec) # Nil
         /\ rec.syncState \in [AllProviders -> SyncStates]
         /\ rec.remoteId \in [AllProviders -> Handles \cup {Nil}]
  <1>1. rec # Nil
    BY NilIsNoRecord
  <1>2. EntryOf(rec) = [mark |-> rec.syncState,
                        known |-> {p \in AllProviders : rec.remoteId[p] # Nil}]
    BY <1>1 DEF EntryOf
  <1>3. /\ rec.syncState \in [AllProviders -> SyncStates]
        /\ {p \in AllProviders : rec.remoteId[p] # Nil} \subseteq AllProviders
    BY DEF VaultItem
  <1> QED
    BY <1>2, <1>3, NilIsNoRecord DEF VaultItem, Entry

LEMMA EntryNew ==
  ASSUME NEW c \in Contents
  PROVE  EntryOf(NewItem(c)) = Ledger!Fresh
  <1>1. /\ NewItem(c).syncState = [p \in AllProviders |-> "local"]
        /\ NewItem(c).remoteId = [p \in AllProviders |-> Nil]
    BY DEF NewItem
  <1>2. {p \in AllProviders : NewItem(c).remoteId[p] # Nil} = {}
    BY <1>1
  <1> QED
    BY <1>1, <1>2, NewItemType, EntryIsRecord DEF Ledger!Fresh

\* A record with one other mark, and the remote ids it had or one more.
LEMMA EntryMarked ==
  ASSUME NEW rec \in VaultItem, NEW new \in VaultItem, NEW p \in AllProviders, NEW m,
         new.syncState = [rec.syncState EXCEPT ![p] = m], new.remoteId = rec.remoteId
  PROVE  EntryOf(new) = Ledger!Mark(EntryOf(rec), p, m)
  <1> DEFINE known(r) == {q \in AllProviders : r.remoteId[q] # Nil}
  <1>1. /\ EntryOf(rec) = [mark |-> rec.syncState, known |-> known(rec)]
        /\ EntryOf(new) = [mark |-> new.syncState, known |-> known(rec)]
    BY EntryIsRecord
  <1> HIDE DEF known
  <1> QED
    BY <1>1 DEF Ledger!Mark

LEMMA EntryLearned ==
  ASSUME NEW rec \in VaultItem, NEW new \in VaultItem, NEW p \in AllProviders, NEW m,
         NEW h \in Handles, new.syncState = [rec.syncState EXCEPT ![p] = m],
         new.remoteId = [rec.remoteId EXCEPT ![p] = h]
  PROVE  EntryOf(new) = Ledger!Learn(EntryOf(rec), p, m)
  <1> DEFINE known(r) == {q \in AllProviders : r.remoteId[q] # Nil}
  <1>1. /\ EntryOf(rec) = [mark |-> rec.syncState, known |-> known(rec)]
        /\ EntryOf(new) = [mark |-> new.syncState, known |-> known(new)]
    BY EntryIsRecord
  <1>2. known(new) = known(rec) \cup {p}
    <2>1. rec.remoteId \in [AllProviders -> Handles \cup {Nil}] /\ h # Nil
      BY EntryIsRecord, NilAssumption
    <2> QED
      BY <2>1
  <1> HIDE DEF known
  <1> QED
    BY <1>1, <1>2 DEF Ledger!Learn

LEMMA EntrySyncing ==
  ASSUME NEW rec \in VaultItem, NEW p \in AllProviders, NEW c \in Contents,
         NEW a \in Accounts \cup {Nil}
  PROVE  EntryOf(Syncing(rec, p, c, a)) = Ledger!Mark(EntryOf(rec), p, "syncing")
  <1>1. /\ Syncing(rec, p, c, a).syncState = [rec.syncState EXCEPT ![p] = "syncing"]
        /\ Syncing(rec, p, c, a).remoteId = rec.remoteId
    BY DEF Syncing, VaultItem
  <1> QED
    BY <1>1, SyncingType, EntryMarked

LEMMA EntryMissing ==
  ASSUME NEW rec \in VaultItem
  PROVE  EntryOf([rec EXCEPT !.syncState["telegram"] = "failed"])
           = Ledger!Mark(EntryOf(rec), "telegram", "failed")
  <1> DEFINE new == [rec EXCEPT !.syncState["telegram"] = "failed"]
  <1>1. new.syncState = [rec.syncState EXCEPT !["telegram"] = "failed"]
        /\ new.remoteId = rec.remoteId
    BY DEF VaultItem
  <1>2. new \in VaultItem /\ "telegram" \in AllProviders
    BY DEF VaultItem, SyncStates, AllProviders
  <1> HIDE DEF new
  <1>3. EntryOf(new) = Ledger!Mark(EntryOf(rec), "telegram", "failed")
    BY <1>1, <1>2, EntryMarked
  <1> QED
    BY <1>3 DEF new

LEMMA EntryFinished ==
  ASSUME NEW rec \in VaultItem, NEW r \in Job
  PROVE  \E m \in {"synced", "failed"} :
           IF r.result = Nil
           THEN m = "failed" /\ EntryOf(Finished(rec, r)) = Ledger!Mark(EntryOf(rec), r.provider, m)
           ELSE EntryOf(Finished(rec, r)) = Ledger!Learn(EntryOf(rec), r.provider, m)
  <1> DEFINE m == IF r.result # Nil /\ r.unchanged THEN "synced" ELSE "failed"
             new == Finished(rec, r)
  <1>1. /\ new.syncState = [rec.syncState EXCEPT ![r.provider] = m]
        /\ new.remoteId = [rec.remoteId EXCEPT ![r.provider] =
                             IF r.result # Nil THEN r.result ELSE @]
    BY DEF Finished, VaultItem
  <1>2. r.provider \in AllProviders /\ r.result \in Handles \cup {Nil}
    BY DEF Job
  <1>3. new \in VaultItem
    BY FinishedType
  <1>4. m \in {"synced", "failed"} /\ (r.result = Nil => m = "failed")
    OBVIOUS
  <1>5. rec.remoteId \in [AllProviders -> Handles \cup {Nil}]
    BY EntryIsRecord
  <1> HIDE DEF m, new
  <1>6. CASE r.result = Nil
    <2>1. new.remoteId = rec.remoteId
      BY <1>1, <1>2, <1>5, <1>6
    <2>2. EntryOf(new) = Ledger!Mark(EntryOf(rec), r.provider, m)
      BY <1>1, <1>2, <1>3, <2>1, EntryMarked
    <2> QED
      BY <1>4, <1>6, <2>2 DEF new
  <1>7. CASE r.result # Nil
    <2>1. new.remoteId = [rec.remoteId EXCEPT ![r.provider] = r.result] /\ r.result \in Handles
      BY <1>1, <1>2, <1>7
    <2>2. EntryOf(new) = Ledger!Learn(EntryOf(rec), r.provider, m)
      BY <1>1, <1>2, <1>3, <2>1, EntryLearned
    <2> QED
      BY <1>4, <1>7, <2>2 DEF new
  <1> QED
    BY <1>6, <1>7

\* A save of a list in which one record was replaced.
LEMMA SaveOne ==
  ASSUME TypeInv, NEW i \in Items, NEW rec, Persist([items EXCEPT ![i] = rec])
  PROVE  /\ Ledger!Save([Entries(items) EXCEPT ![i] = EntryOf(rec)])
         /\ lastSave' = "ok" => Entries(saved)' = Entries(items)'
  <1> DEFINE list == [items EXCEPT ![i] = rec]
             entries == [Entries(items) EXCEPT ![i] = EntryOf(rec)]
  <1>1. items' = list /\ saved' \in {saved, list} /\ (lastSave' = "ok" => saved' = items')
    BY DEF Persist, SaveFails
  <1>2. \A j \in Items : list[j] = IF j = i THEN rec ELSE items[j]
    BY DEF TypeInv, TypeOK
  <1>3. Entries(list) = entries
    <2> HIDE DEF list
    <2>1. \A j \in Items : EntryOf(list[j]) = IF j = i THEN EntryOf(rec) ELSE EntryOf(items[j])
      BY <1>2
    <2> QED
      BY <2>1 DEF Entries
  <1>4. Entries(items)' = Entries(items') /\ Entries(saved)' = Entries(saved')
    BY DEF Entries
  <1> HIDE DEF list, entries
  <1>5. Entries(items)' = entries /\ Entries(saved)' \in {Entries(saved), entries}
    BY <1>1, <1>3, <1>4
  <1> QED
    BY <1>1, <1>4, <1>5 DEF Ledger!Save, entries

LEMMA SameLists ==
  ASSUME UNCHANGED <<items, saved>>
  PROVE  Entries(items)' = Entries(items) /\ Entries(saved)' = Entries(saved)
  BY DEF Entries

LEMMA HeldGrows ==
  ASSUME TypeInv, NEW h \in Handles, NEW r \in Job, Accept(h, r),
         r.item \in Items, r.content \in Contents
  PROVE  Held' = Held \cup {<<r.item, r.provider>>}
  <1>1. CopyOf(r) # Nil /\ CopyOf(r).item = r.item /\ CopyOf(r).provider = r.provider
    BY CopyOfNotNil DEF CopyOf
  <1>2. \A k \in Handles : copies'[k] = IF k = h THEN CopyOf(r) ELSE copies[k]
    BY DEF Accept, TypeInv, TypeOK
  <1>3. copies[h] = Nil
    BY DEF Accept, Fresh
  <1> QED
    BY <1>1, <1>2, <1>3 DEF Held

LEMMA HeldSame == UNCHANGED copies => Held' = Held
  BY DEF Held

\* What a move of one command does to the set of those that run.
LEMMA RunningMoves ==
  ASSUME TypeInv, NEW t \in Tasks, NEW r, Advance(t, r)
  PROVE  LET x == <<job[t].item, job[t].provider>> IN
         /\ Sends(job[t]) => x \in Running
         /\ ~ Sends(job[t]) /\ ~ Sends(r) => Running' = Running
         /\ Sends(job[t]) /\ ~ Sends(r) => Running' \in {Running, Running \ {x}}
         /\ Sends(r) /\ <<r.item, r.provider>> = x => Running' = Running \cup {x}
  <1> DEFINE x == <<job[t].item, job[t].provider>>
             of(u) == <<job[u].item, job[u].provider>>
             others == {of(u) : u \in {v \in Tasks : v # t /\ Sends(job[v])}}
  <1>1. \A u \in Tasks : job'[u] = IF u = t THEN r ELSE job[u]
    BY DEF Advance, TypeInv, TypeOK
  <1>2. Running = others \cup IF Sends(job[t]) THEN {x} ELSE {}
    BY DEF Running
  <1>3. Running' = others \cup IF Sends(r) THEN {<<r.item, r.provider>>} ELSE {}
    <2>1. ASSUME NEW y \in Running'
          PROVE  y \in others \cup IF Sends(r) THEN {<<r.item, r.provider>>} ELSE {}
      <3>1. PICK u \in Tasks : Sends(job'[u]) /\ y = <<job'[u].item, job'[u].provider>>
        BY <2>1 DEF Running, Sends
      <3> QED
        BY <1>1, <3>1
    <2>2. ASSUME NEW y \in others \cup IF Sends(r) THEN {<<r.item, r.provider>>} ELSE {}
          PROVE  y \in Running'
      <3>1. CASE y \in others
        <4>1. PICK u \in Tasks : u # t /\ Sends(job[u]) /\ y = of(u)
          BY <3>1
        <4> QED
          BY <1>1, <4>1 DEF Running, Sends
      <3>2. CASE Sends(r) /\ y = <<r.item, r.provider>>
        BY <1>1, <3>2 DEF Running, Sends
      <3> QED
        BY <2>2, <3>1, <3>2
    <2> QED
      BY <2>1, <2>2
  <1> HIDE DEF others
  <1>4. \/ others = others \cup {x}
        \/ others = (others \cup {x}) \ {x}
    OBVIOUS
  <1> QED
    BY <1>2, <1>3, <1>4

LedgerStep == Ledger!Next \/ UNCHANGED Ledger!ledger

LEMMA LedgerStutter ==
  ASSUME UNCHANGED <<items, saved, born>>, Running' = Running, Held' = Held
  PROVE  LedgerStep
  BY SameLists DEF LedgerStep, Ledger!ledger

\* What the commands of the vault do to the ledger.
LEMMA LedgerVault ==
  ASSUME TypeInv, Command
  PROVE  LedgerStep
  <1> USE DEF TypeInv
  <1>1. ASSUME UNCHANGED job PROVE Running' = Running
    BY <1>1 DEF Running
  <1>2. ASSUME NEW i \in Items, NEW c \in Contents, ImportItem(i, c) PROVE LedgerStep
    <2>1. Ledger!Save([Entries(items) EXCEPT ![i] = Ledger!Fresh])
      BY <1>2, SaveOne, EntryNew DEF ImportItem
    <2>2. Running' = Running /\ Held' = Held
      BY <1>1, <1>2, HeldSame DEF ImportItem
    <2>3. Ledger!Add(i)
      BY <1>2, <2>1, <2>2 DEF ImportItem, Ledger!Add
    <2> QED
      BY <2>3 DEF LedgerStep, Ledger!Next
  <1>3. ASSUME NEW i \in Items, DeleteItem(i) PROVE LedgerStep
    <2>1. Ledger!Save([Entries(items) EXCEPT ![i] = Nil])
      BY <1>3, SaveOne DEF DeleteItem, EntryOf
    <2>2. Running' = Running /\ Held' = Held
      BY <1>1, <1>3, HeldSame DEF DeleteItem
    <2>3. Entries(items)[i] # Nil
      BY <1>3, EntryIsRecord DEF DeleteItem, TypeOK, Entries
    <2>4. Ledger!Remove(i)
      BY <1>3, <2>1, <2>2, <2>3 DEF DeleteItem, Ledger!Remove
    <2> QED
      BY <2>4 DEF LedgerStep, Ledger!Next
  <1>4. CASE RescanVault
    <2> DEFINE S == {i \in Items : items[i] # Nil /\ disk[i] = Nil}
               list == [i \in Items |-> MarkMissing(i)]
               entries == [i \in Items |->
                             IF i \in S THEN Ledger!Mark(Entries(items)[i], "telegram", "failed")
                                        ELSE Entries(items)[i]]
    <2>1. \A i \in S : items[i] \in VaultItem
      BY DEF TypeOK
    <2>2. \A i \in S : Entries(items)[i] # Nil
      BY <2>1, EntryIsRecord DEF Entries
    <2>3. Entries(list) = entries
      <3>1. ASSUME NEW i \in Items PROVE EntryOf(MarkMissing(i)) = entries[i]
        <4>1. CASE i \in S
          BY <2>1, <4>1, EntryMissing DEF MarkMissing, Entries
        <4>2. CASE i \notin S
          BY <4>2 DEF MarkMissing, Entries
        <4> QED
          BY <4>1, <4>2
      <3> HIDE DEF entries
      <3>2. Entries(list) = [i \in Items |-> entries[i]]
        BY <3>1 DEF Entries
      <3> QED
        BY <3>2 DEF entries
    <2>4. items' = list /\ saved' \in {saved, list}
      BY <1>4 DEF RescanVault, Persist, SaveFails
    <2>5. Entries(items)' = Entries(items') /\ Entries(saved)' = Entries(saved')
      BY DEF Entries
    <2>6. Entries(items)' = entries /\ Entries(saved)' \in {Entries(saved), entries}
      <3> HIDE DEF list, entries
      <3> QED
        BY <2>3, <2>4, <2>5
    <2>7. Running' = Running /\ Held' = Held /\ born' = born
      BY <1>1, <1>4, HeldSame DEF RescanVault
    <2>8. Ledger!Demote(S, "telegram")
      BY <2>2, <2>6, <2>7 DEF Ledger!Demote, Ledger!Save
    <2>9. S \in SUBSET Items /\ "telegram" \in AllProviders
      BY DEF AllProviders
    <2> HIDE DEF S
    <2> QED
      BY <2>8, <2>9 DEF LedgerStep, Ledger!Next
  <1>5. ASSUME NEW t \in Tasks, NEW i \in Items, NEW p, NEW q, Begin(t, i, p, q)
        PROVE  LedgerStep
    <2> DEFINE r == [IdleJob EXCEPT !.pc = "prepare", !.provider = p, !.item = i,
                                    !.requested = q]
    <2>1. ~ Sends(job[t]) /\ ~ Sends(r)
      BY <1>5 DEF Begin, Sends, IdleJob
    <2>2. Advance(t, r) /\ UNCHANGED <<items, saved, born, copies>>
      BY <1>5 DEF Begin
    <2> HIDE DEF r
    <2> QED
      BY <2>1, <2>2, RunningMoves, HeldSame, LedgerStutter
  <1> QED
    BY <1>2, <1>3, <1>4, <1>5 DEF Command, BeginTelegram, BeginDrive

LEMMA SyncJob ==
  ASSUME TypeInv, NEW t \in Tasks
  PROVE  /\ job[t] \in Job
         /\ job[t].pc # "idle" => job[t].item \in Items /\ job[t].provider \in AllProviders
         /\ job[t].pc \in {"find", "send", "check"} => job[t].content \in Contents
         /\ ~ Sends(IdleJob)
  BY DEF TypeInv, TypeOK, JobOK, Job, Sends, IdleJob

\* A command that goes on sending leaves the set of those that run as it is.
LEMMA RunningStays ==
  ASSUME TypeInv, NEW t \in Tasks, NEW r, Advance(t, r), Sends(job[t]), Sends(r),
         r.item = job[t].item, r.provider = job[t].provider
  PROVE  /\ Running' = Running
         /\ <<job[t].item, job[t].provider>> \in Running
  <1>1. Running' = Running \cup {<<job[t].item, job[t].provider>>}
    BY RunningMoves
  <1>2. <<job[t].item, job[t].provider>> \in Running
    BY RunningMoves
  <1> QED
    BY <1>1, <1>2

LEMMA RunningUploads ==
  ASSUME TypeInv, NEW t \in Tasks, NEW h, UploadEnds(t, h), Sends(job[t])
  PROVE  /\ Running' = Running
         /\ <<job[t].item, job[t].provider>> \in Running
  <1> DEFINE r == [job[t] EXCEPT !.pc = "check", !.sent = 0, !.result = h]
  <1>1. r.pc = "check" /\ r.item = job[t].item /\ r.provider = job[t].provider
    BY SyncJob DEF Job
  <1>2. Advance(t, r)
    BY DEF UploadEnds
  <1> HIDE DEF r
  <1> QED
    BY <1>1, <1>2, RunningStays DEF Sends

\* The steps of a command that change neither the items nor the copies.
LEMMA LedgerQuiet ==
  ASSUME TypeInv, NEW t \in Tasks,
         PrepareSnapshot(t) \/ SkipDrive(t) \/ FindDrive(t) \/ CheckSource(t)
  PROVE  LedgerStep
  <1>1. UNCHANGED <<items, saved, born, copies>>
    BY DEF PrepareSnapshot, SkipDrive, FindDrive, CheckSource
  <1>2. job[t] \in Job /\ ~ Sends(IdleJob)
    BY SyncJob
  <1>3. CASE PrepareSnapshot(t)
    <2> DEFINE r == [job[t] EXCEPT !.pc = "start", !.content = disk[job[t].item]]
    <2>1. ~ Sends(job[t]) /\ ~ Sends(r)
      BY <1>2, <1>3 DEF PrepareSnapshot, Sends, Job
    <2>2. Advance(t, r) \/ Advance(t, IdleJob)
      BY <1>3 DEF PrepareSnapshot, Return
    <2> HIDE DEF r
    <2>3. Running' = Running
      BY <1>2, <2>1, <2>2, RunningMoves
    <2> QED
      BY <1>1, <2>3, HeldSame, LedgerStutter
  <1>4. CASE SkipDrive(t)
    <2>1. ~ Sends(job[t]) /\ Advance(t, IdleJob)
      BY <1>4 DEF SkipDrive, At, Sends, Return
    <2>2. Running' = Running
      BY <1>2, <2>1, RunningMoves
    <2> QED
      BY <1>1, <2>2, HeldSame, LedgerStutter
  <1>5. CASE FindDrive(t)
    <2> DEFINE r == [job[t] EXCEPT !.pc = "send"]
    <2>1. Sends(job[t])
      BY <1>5 DEF FindDrive, At, Sends
    <2>2. r.pc = "send" /\ r.item = job[t].item /\ r.provider = job[t].provider
      BY <1>2 DEF Job
    <2>3. Advance(t, r) \/ \E h : UploadEnds(t, h)
      BY <1>5 DEF FindDrive
    <2> HIDE DEF r
    <2>4. Running' = Running
      BY <2>1, <2>2, <2>3, RunningStays, RunningUploads DEF Sends
    <2> QED
      BY <1>1, <2>4, HeldSame, LedgerStutter
  <1>6. CASE CheckSource(t)
    <2> DEFINE r == [job[t] EXCEPT !.pc = "finish", !.content = Nil, !.account = Nil,
                                   !.unchanged = (disk[job[t].item] = job[t].content)]
    <2>1. Sends(job[t])
      BY <1>6 DEF CheckSource, Sends
    <2>2. r.pc = "finish" /\ r.item = job[t].item /\ r.provider = job[t].provider
      BY <1>2 DEF Job
    <2>3. Advance(t, r)
      BY <1>6 DEF CheckSource
    <2> HIDE DEF r
    <2>4. Running' = Running
      BY <2>1, <2>2, <2>3, RunningStays DEF Sends
    <2> QED
      BY <1>1, <2>4, HeldSame, LedgerStutter
  <1> QED
    BY <1>3, <1>4, <1>5, <1>6

\* An attempt to send, stored or not, answered or not.
LEMMA LedgerSend ==
  ASSUME TypeInv, NEW t \in Tasks, SendTelegram(t) \/ SendDrive(t)
  PROVE  LedgerStep
  <1> DEFINE i == job[t].item  p == job[t].provider
             r == [job[t] EXCEPT !.sent = @ + 1]
  <1>1. /\ job[t].pc = "send" /\ UNCHANGED <<items, saved, born>>
        /\ UNCHANGED copies \/ \E h \in Handles : Accept(h, job[t])
        /\ Advance(t, r) \/ \E h : UploadEnds(t, h)
    BY DEF SendTelegram, SendDrive, At
  <1>2. Sends(job[t]) /\ job[t] \in Job /\ i \in Items /\ p \in AllProviders
        /\ job[t].content \in Contents
    BY <1>1, SyncJob DEF Sends
  <1>3. r.pc = "send" /\ r.item = i /\ r.provider = p
    BY <1>1, <1>2 DEF Job
  <1> HIDE DEF r
  <1>4. Running' = Running /\ <<i, p>> \in Running
    BY <1>1, <1>2, <1>3, RunningStays, RunningUploads DEF Sends
  <1>5. CASE UNCHANGED copies
    BY <1>1, <1>4, <1>5, HeldSame, LedgerStutter
  <1>6. CASE \E h \in Handles : Accept(h, job[t])
    <2>1. Held' = Held \cup {<<i, p>>}
      BY <1>2, <1>6, HeldGrows
    <2>2. Ledger!Accept(i, p)
      BY <1>1, <1>4, <2>1, SameLists DEF Ledger!Accept
    <2> HIDE DEF i, p
    <2> QED
      BY <1>2, <2>2 DEF LedgerStep, Ledger!Next
  <1> QED
    BY <1>1, <1>5, <1>6

LEMMA LedgerGone ==
  ASSUME TypeInv, NEW t \in Tasks, ItemGone(t)
  PROVE  LedgerStep
  <1> DEFINE i == job[t].item  p == job[t].provider
  <1>1. /\ job[t].pc \in {"start", "finish"} /\ items[i] = Nil
        /\ Advance(t, IdleJob) /\ UNCHANGED <<items, saved, born, copies>>
    BY DEF ItemGone, Return
  <1>2. i \in Items /\ p \in AllProviders /\ ~ Sends(IdleJob)
    BY <1>1, SyncJob
  <1>3. CASE job[t].pc = "start"
    <2>1. Running' = Running
      BY <1>1, <1>2, <1>3, RunningMoves DEF Sends
    <2> QED
      BY <1>1, <2>1, HeldSame, LedgerStutter
  <1>4. CASE job[t].pc = "finish"
    <2>1. Sends(job[t])
      BY <1>4 DEF Sends
    <2>2. <<i, p>> \in Running /\ Running' \in {Running, Running \ {<<i, p>>}}
      BY <1>1, <1>2, <2>1, RunningMoves
    <2>3. Entries(items)[i] = Nil
      BY <1>1, <1>2 DEF Entries, EntryOf
    <2>4. Ledger!Abandon(i, p)
      BY <1>1, <2>2, <2>3, SameLists, HeldSame DEF Ledger!Abandon, Ledger!Ends
    <2> HIDE DEF i, p
    <2> QED
      BY <1>2, <2>4 DEF LedgerStep, Ledger!Next
  <1> QED
    BY <1>1, <1>3, <1>4

\* The section that marks the item: what it writes, and when it goes on.
LEMMA LedgerMarks ==
  ASSUME TypeInv, NEW t \in Tasks, job[t].pc = "start", items[job[t].item] # Nil,
         NEW a \in Accounts \cup {Nil}, NEW r,
         Persist([items EXCEPT ![job[t].item] =
                    Syncing(items[job[t].item], job[t].provider, job[t].content, a)]),
         IF lastSave' = "ok" THEN Advance(t, r) ELSE Return(t),
         Sends(r), r.item = job[t].item, r.provider = job[t].provider,
         UNCHANGED <<copies, born>>
  PROVE  LedgerStep
  <1> DEFINE i == job[t].item  p == job[t].provider
  <1>1. i \in Items /\ p \in AllProviders /\ job[t].content \in Contents
        /\ ~ Sends(IdleJob) /\ ~ Sends(job[t])
    BY SyncJob DEF TypeInv, JobOK, Sends
  <1>2. items[i] \in VaultItem
    BY <1>1 DEF TypeInv, TypeOK
  <1>3. EntryOf(Syncing(items[i], p, job[t].content, a))
          = Ledger!Mark(EntryOf(items[i]), p, "syncing")
    BY <1>1, <1>2, EntrySyncing
  <1>4. Entries(items)[i] = EntryOf(items[i]) /\ EntryOf(items[i]) # Nil
    BY <1>1, <1>2, EntryIsRecord DEF Entries
  <1>5. /\ Ledger!Save([Entries(items) EXCEPT ![i] = EntryOf(Syncing(items[i], p, job[t].content, a))])
        /\ lastSave' = "ok" => Entries(saved)' = Entries(items)'
    BY <1>1, SaveOne
  <1>6. Ledger!Save([Entries(items) EXCEPT ![i] = Ledger!Mark(@, p, "syncing")])
    BY <1>1, <1>3, <1>4, <1>5
  <1>7. \/ Running' = Running
        \/ Running' = Running \cup {<<i, p>>} /\ Entries(saved)' = Entries(items)'
    <2>1. CASE lastSave' = "ok"
      BY <1>5, <2>1, RunningMoves
    <2>2. CASE lastSave' # "ok"
      BY <1>1, <2>2, RunningMoves DEF Return
    <2> QED
      BY <2>1, <2>2
  <1>8. Ledger!Start(i, p)
    BY <1>4, <1>6, <1>7, HeldSame DEF Ledger!Start
  <1> HIDE DEF i, p
  <1> QED
    BY <1>1, <1>8 DEF LedgerStep, Ledger!Next

LEMMA LedgerStart ==
  ASSUME TypeInv, NEW t \in Tasks, StartTelegram(t) \/ StartDrive(t)
  PROVE  LedgerStep
  <1> DEFINE i == job[t].item
  <1>1. job[t].pc = "start" /\ items[i] # Nil /\ UNCHANGED <<copies, born>>
    BY DEF StartTelegram, StartDrive, At
  <1>2. job[t] \in Job /\ i \in Items /\ items[i] \in VaultItem
    BY <1>1, SyncJob DEF TypeInv, TypeOK
  <1>3. CASE StartTelegram(t)
    <2> DEFINE r == [job[t] EXCEPT !.pc = "send"]
    <2>1. Sends(r) /\ r.item = i /\ r.provider = job[t].provider
      BY <1>2 DEF Job, Sends
    <2>2. /\ job[t].provider = "telegram" /\ items[i].driveAccountId \in Accounts \cup {Nil}
          /\ Persist([items EXCEPT ![i] = Syncing(items[i], "telegram", job[t].content,
                                                  items[i].driveAccountId)])
          /\ IF lastSave' = "ok" THEN Advance(t, r) ELSE Return(t)
      BY <1>2, <1>3 DEF StartTelegram, At, VaultItem, TypeInv, TypeOK
    <2> HIDE DEF r
    <2> QED
      BY <1>1, <2>1, <2>2, LedgerMarks
  <1>4. CASE StartDrive(t)
    <2>1. PICK a \in SelectAccount(items[i], job[t].requested) :
            /\ Persist([items EXCEPT ![i] = Syncing(items[i], "drive", job[t].content, a)])
            /\ IF lastSave' = "ok"
               THEN Advance(t, [job[t] EXCEPT !.pc = "find", !.account = a, !.requested = Nil])
               ELSE Return(t)
      BY <1>2, <1>4 DEF StartDrive, TypeInv, TypeOK
    <2> DEFINE r == [job[t] EXCEPT !.pc = "find", !.account = a, !.requested = Nil]
    <2>2. Sends(r) /\ r.item = i /\ r.provider = job[t].provider
      BY <1>2 DEF Job, Sends
    <2>3. job[t].provider = "drive" /\ a \in Accounts
      BY <1>2, <1>4 DEF StartDrive, At, SelectAccount, Job, VaultItem
    <2> HIDE DEF r
    <2>4. IF lastSave' = "ok" THEN Advance(t, r) ELSE Return(t)
      BY <2>1 DEF r
    <2> QED
      BY <1>1, <2>1, <2>2, <2>3, <2>4, LedgerMarks
  <1> QED
    BY <1>3, <1>4

\* The section that records the outcome of an upload.
LEMMA LedgerFinish ==
  ASSUME BackedInv, NEW t \in Tasks, FinishTelegram(t) \/ FinishDrive(t)
  PROVE  LedgerStep
  <1> DEFINE i == job[t].item  p == job[t].provider
             new == Finished(items[i], job[t])
  <1>0. TypeInv
    BY DEF BackedInv
  <1>1. /\ job[t].pc = "finish" /\ items[i] # Nil /\ Advance(t, IdleJob)
        /\ Persist([items EXCEPT ![i] = Finished(@, job[t])])
        /\ UNCHANGED <<copies, born>>
    BY DEF FinishTelegram, FinishDrive, At, Finish, Return
  <1>2. /\ job[t] \in Job /\ i \in Items /\ p \in AllProviders
        /\ Sends(job[t]) /\ ~ Sends(IdleJob)
    BY <1>0, <1>1, SyncJob DEF Sends
  <1>3. items[i] \in VaultItem
    BY <1>0, <1>1, <1>2 DEF TypeInv, TypeOK
  <1>4. Persist([items EXCEPT ![i] = new])
    BY <1>0, <1>1, <1>2 DEF TypeInv, TypeOK
  <1>5. Ledger!Save([Entries(items) EXCEPT ![i] = EntryOf(new)])
    BY <1>0, <1>2, <1>4, SaveOne
  <1>6. Entries(items)[i] = EntryOf(items[i]) /\ EntryOf(items[i]) # Nil
    BY <1>2, <1>3, EntryIsRecord DEF Entries
  <1>7. job[t].result # Nil => <<i, p>> \in Held
    <2>1. ASSUME job[t].result # Nil
          PROVE  /\ job[t].result \in Handles /\ copies[job[t].result] # Nil
                 /\ copies[job[t].result].item = i /\ copies[job[t].result].provider = p
      BY <1>2, <2>1 DEF BackedInv, ResultOK, Job
    <2> QED
      BY <2>1 DEF Held
  <1>8. EntryOf(new) \in Ledger!Outcomes(i, p)
    <2>1. PICK m \in {"synced", "failed"} :
            IF job[t].result = Nil
            THEN m = "failed" /\ EntryOf(new) = Ledger!Mark(EntryOf(items[i]), p, m)
            ELSE EntryOf(new) = Ledger!Learn(EntryOf(items[i]), p, m)
      BY <1>2, <1>3, EntryFinished
    <2> HIDE DEF new, i, p
    <2> QED
      BY <1>6, <1>7, <2>1 DEF Ledger!Outcomes
  <1>9. <<i, p>> \in Running /\ Running' \in {Running, Running \ {<<i, p>>}}
    BY <1>0, <1>1, <1>2, RunningMoves
  <1>10. Ledger!Resolve(i, p)
    BY <1>1, <1>5, <1>6, <1>8, <1>9, HeldSame DEF Ledger!Resolve, Ledger!Ends
  <1> HIDE DEF i, p
  <1> QED
    BY <1>2, <1>10 DEF LedgerStep, Ledger!Next

LEMMA LedgerRestart ==
  ASSUME TypeInv, Restart
  PROVE  LedgerStep
  <1>1. Running' = {}
    BY DEF Restart, Running, Sends, IdleJob
  <1>2. Entries(items)' = Entries(saved) /\ Entries(saved)' = Entries(saved)
    BY DEF Restart, Entries
  <1>3. Held' = Held /\ born' = born
    BY HeldSame DEF Restart
  <1>4. Ledger!Reload
    BY <1>1, <1>2, <1>3 DEF Ledger!Reload
  <1> QED
    BY <1>4 DEF LedgerStep, Ledger!Next

(* The list of items in memory, its file and the sync commands implement    *)
(* ItemLedger (lib.rs and drive.rs, the sections of both sync commands).    *)
THEOREM LedgerCorrect == Spec => LedgerSpec
  <1>1. Init => Ledger!Init
    <2> SUFFICES ASSUME Init PROVE Ledger!Init
      OBVIOUS
    <2>1. Entries(items) = [i \in Items |-> Nil] /\ Entries(saved) = Entries(items)
      BY DEF Init, Entries, EntryOf
    <2>2. Running = {} /\ Held = {}
      BY DEF Init, Running, Held, Sends, IdleJob
    <2> QED
      BY <2>1, <2>2 DEF Init, Ledger!Init
  <1>2. BackedInv /\ [Next]_vars => [Ledger!Next]_(Ledger!ledger)
    <2> SUFFICES ASSUME BackedInv, [Next]_vars PROVE LedgerStep
      BY DEF LedgerStep
    <2>0. TypeInv
      BY DEF BackedInv
    <2>1. CASE Command
      BY <2>0, <2>1, LedgerVault
    <2>2. CASE UserEdit \/ UNCHANGED vars
      <3>1. UNCHANGED <<items, saved, born, job, copies>>
        BY <2>2 DEF UserEdit, UserEditsFile, vars
      <3>2. Running' = Running
        BY <3>1 DEF Running
      <3> QED
        BY <3>1, <3>2, HeldSame, LedgerStutter
    <2>3. ASSUME NEW t \in Tasks, SyncStep(t) PROVE LedgerStep
      BY <2>0, <2>3, LedgerQuiet, LedgerSend, LedgerGone, LedgerStart, LedgerFinish
      DEF SyncStep
    <2>4. CASE Restart
      BY <2>0, <2>4, LedgerRestart
    <2> QED
      BY <2>1, <2>2, <2>3, <2>4 DEF Next
  <1> QED
    BY <1>1, <1>2, BackedInvariant, PTL DEF Spec, LedgerSpec, Ledger!Spec
=============================================================================
