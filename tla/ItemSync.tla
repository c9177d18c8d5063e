------------------------------ MODULE ItemSync ------------------------------
(***************************************************************************)
(* The life of a vault item across the two sync commands of the desktop     *)
(* application: sync_item_telegram (lib.rs) and sync_item_google_drive      *)
(* (drive.rs).  Both commands hold the state mutex only in short sections   *)
(* and await in between, so commands on the same item interleave with each  *)
(* other, with delete_item, with rescan_vault, with edits the user makes    *)
(* in the vault folder and with the end of the process.                     *)
(*                                                                         *)
(* The contents of a file stand for its bytes, its size and its SHA-256 all *)
(* at once.  What the providers hold is the set of copies they accepted;    *)
(* one upload is a few atomic exchanges here (DriveUpload details the        *)
(* resumable one), and persist_state is atomic (StatePersistence details    *)
(* its files and its crashes).                                              *)
(***************************************************************************)
EXTENDS Naturals

CONSTANTS
    Items,            \* item ids (UUIDs); one vault file per item
    Contents,         \* what a file can contain
    Accounts,         \* Google Drive accounts
    Requested,        \* the accounts callers ask for, Nil for none (App.tsx: only Nil)
    Handles,          \* remote ids the providers can still hand out (bound)
    Tasks,            \* sync commands that can be in flight at once (bound)
    Providers,        \* the providers the user has connected
    MaxAttempts,      \* TELEGRAM_UPLOAD_ATTEMPTS
    OneSyncPerItem,   \* TRUE when the window lets one sync of an item run
    Failures,         \* subset of {"persist", "crash"}: what may go wrong
    Nil

AllProviders == {"telegram", "drive"}

ASSUME ProvidersAssumption == Providers \subseteq AllProviders
ASSUME AttemptsAssumption == MaxAttempts \in Nat \ {0}
ASSUME RequestedAssumption == Requested \subseteq Accounts \cup {Nil}
ASSUME NilAssumption == Nil \notin Items \cup Contents \cup Accounts \cup Handles

VARIABLES
    disk,      \* content of the file behind each item, Nil when there is none
    items,     \* RuntimeState.persisted.items, by id
    saved,     \* the items in vault-state.json
    lastSave,  \* what the last persist_state returned: "ok" or "failed"
    copies,    \* what the providers hold, by remote id
    job,       \* the sync commands in flight
    born,      \* ids ever generated
    deleted,   \* ids whose delete_item returned Ok
    acked      \* <<item, provider>> where a sync got a remote id and saved its result

vars == <<disk, items, saved, lastSave, copies, job, born, deleted, acked>>

SyncStates == {"local", "syncing", "synced", "failed"}

VaultItem ==
    [checksum: Contents,
     syncState: [AllProviders -> SyncStates],
     remoteId: [AllProviders -> Handles \cup {Nil}],
     driveAccountId: Accounts \cup {Nil}]

Copy ==
    [provider: AllProviders, item: Items, account: Accounts \cup {Nil},
     content: Contents]

(* What ItemLedger keeps of an item.                                        *)
Entry == [mark: [AllProviders -> SyncStates], known: SUBSET AllProviders]

ASSUME NilIsNoRecord == Nil \notin VaultItem \cup Copy \cup Entry

PCs == {"idle", "prepare", "start", "find", "send", "check", "finish"}

Job ==
    [pc: PCs, provider: AllProviders, item: Items \cup {Nil},
     requested: Accounts \cup {Nil}, content: Contents \cup {Nil},
     account: Accounts \cup {Nil}, sent: 0 .. MaxAttempts,
     result: Handles \cup {Nil}, unchanged: BOOLEAN]

IdleJob ==
    [pc |-> "idle", provider |-> "drive", item |-> Nil, requested |-> Nil,
     content |-> Nil, account |-> Nil, sent |-> 0, result |-> Nil,
     unchanged |-> FALSE]

NewItem(c) ==
    [checksum |-> c,
     syncState |-> [p \in AllProviders |-> "local"],
     remoteId |-> [p \in AllProviders |-> Nil],
     driveAccountId |-> Nil]

Init ==
    /\ disk = [i \in Items |-> Nil]
    /\ items = [i \in Items |-> Nil]
    /\ saved = [i \in Items |-> Nil]
    /\ lastSave = "ok"
    /\ copies = [h \in Handles |-> Nil]
    /\ job = [t \in Tasks |-> IdleJob]
    /\ born = {}
    /\ deleted = {}
    /\ acked = {}

-----------------------------------------------------------------------------
(* Saving.  Memory is changed first; a failed save leaves it changed.       *)

SaveFails == "persist" \in Failures /\ saved' = saved /\ lastSave' = "failed"

Persist(list) ==
    /\ items' = list
    /\ \/ saved' = list /\ lastSave' = "ok"
       \/ SaveFails

(* The vault: intake, deletion, rescan, and what the user does in Explorer. *)

ImportItem(i, c) ==
    /\ i \notin born
    /\ born' = born \cup {i}
    /\ disk' = [disk EXCEPT ![i] = c]
    /\ Persist([items EXCEPT ![i] = NewItem(c)])
    /\ UNCHANGED <<copies, job, deleted, acked>>

DeleteItem(i) ==
    /\ items[i] # Nil
    /\ disk' = [disk EXCEPT ![i] = Nil]
    /\ Persist([items EXCEPT ![i] = Nil])
    /\ deleted' = IF lastSave' = "ok" THEN deleted \cup {i} ELSE deleted
    /\ UNCHANGED <<copies, job, born, acked>>

MarkMissing(i) ==
    IF items[i] # Nil /\ disk[i] = Nil
    THEN [items[i] EXCEPT !.syncState["telegram"] = "failed"]
    ELSE items[i]

RescanVault ==
    /\ Persist([i \in Items |-> MarkMissing(i)])
    /\ UNCHANGED <<disk, copies, job, born, deleted, acked>>

UserEditsFile(i, c) ==
    /\ items[i] # Nil
    /\ disk[i] # c
    /\ disk' = [disk EXCEPT ![i] = c]
    /\ UNCHANGED <<items, saved, lastSave, copies, job, born, deleted, acked>>

-----------------------------------------------------------------------------
(* The sync commands, one step per section between two awaits.  A local is  *)
(* reset after its last use.                                                *)

At(t, pc, p) == job[t].pc = pc /\ job[t].provider = p

Advance(t, record) == job' = [job EXCEPT ![t] = record]

Return(t) == Advance(t, IdleJob)

Begin(t, i, p, requested) ==
    /\ job[t].pc = "idle"
    /\ p \in Providers
    /\ items[i] # Nil
    /\ OneSyncPerItem => \A u \in Tasks : job[u].item # i
    /\ Advance(t, [IdleJob EXCEPT !.pc = "prepare", !.provider = p, !.item = i,
                                  !.requested = requested])
    /\ UNCHANGED <<disk, items, saved, lastSave, copies, born, deleted, acked>>

BeginTelegram(t, i) == Begin(t, i, "telegram", Nil)

BeginDrive(t, i, requested) == Begin(t, i, "drive", requested)

PrepareSnapshot(t) ==
    /\ job[t].pc = "prepare"
    /\ \/ /\ disk[job[t].item] # Nil
          /\ Advance(t, [job[t] EXCEPT !.pc = "start", !.content = disk[job[t].item]])
       \/ Return(t)
    /\ UNCHANGED <<disk, items, saved, lastSave, copies, born, deleted, acked>>

(* Both locked sections look the item up again and give up without it.      *)
ItemGone(t) ==
    /\ job[t].pc \in {"start", "finish"}
    /\ items[job[t].item] = Nil
    /\ Return(t)
    /\ UNCHANGED <<disk, items, saved, lastSave, copies, born, deleted, acked>>

(* Mutant: a new sync starts by forgetting the previous remote id.          *)
SyncingForgetsRemote(rec, p, c, a) ==
    [rec EXCEPT !.checksum = c, !.syncState[p] = "syncing", !.driveAccountId = a,
                !.remoteId[p] = Nil]

Syncing(rec, p, c, a) ==
    [rec EXCEPT !.checksum = c, !.syncState[p] = "syncing", !.driveAccountId = a]

(* Mutant: the upload goes on although the item could not be saved.         *)
StartTelegramUnsaved(t) ==
    LET i == job[t].item IN
    /\ At(t, "start", "telegram")
    /\ items[i] # Nil
    /\ Persist([items EXCEPT ![i] =
                   Syncing(@, "telegram", job[t].content, @.driveAccountId)])
    /\ Advance(t, [job[t] EXCEPT !.pc = "send"])
    /\ UNCHANGED <<disk, copies, born, deleted, acked>>

StartTelegram(t) ==
    LET i == job[t].item IN
    /\ At(t, "start", "telegram")
    /\ items[i] # Nil
    /\ Persist([items EXCEPT ![i] =
                   Syncing(@, "telegram", job[t].content, @.driveAccountId)])
    /\ IF lastSave' = "ok" THEN Advance(t, [job[t] EXCEPT !.pc = "send"])
                           ELSE Return(t)
    /\ UNCHANGED <<disk, copies, born, deleted, acked>>

(* The drive command's early return: this very snapshot is uploaded.        *)
AlreadyUploaded(rec, r) ==
    /\ rec.syncState["drive"] = "synced"
    /\ rec.remoteId["drive"] # Nil
    /\ rec.checksum = r.content
    /\ r.requested # Nil => rec.driveAccountId = r.requested

(* Mutant: the choice ignores the account the item already has.             *)
SelectAccountAnew(rec, requested) ==
    IF requested # Nil THEN {requested} ELSE Accounts

(* The requested account, else the item's, else any; or none is usable.     *)
SelectAccount(rec, requested) ==
    IF requested # Nil THEN {requested}
    ELSE IF rec.driveAccountId # Nil THEN {rec.driveAccountId}
    ELSE Accounts

(* The command leaves early, with Ok when the snapshot is already uploaded  *)
(* (whatever the last save did) and with an error when no account is usable.*)
SkipDrive(t) ==
    LET i == job[t].item IN
    /\ At(t, "start", "drive")
    /\ items[i] # Nil
    /\ Return(t)
    /\ UNCHANGED <<disk, items, saved, lastSave, copies, born, deleted, acked>>

StartDrive(t) ==
    LET i == job[t].item IN
    /\ At(t, "start", "drive")
    /\ items[i] # Nil
    /\ ~ AlreadyUploaded(items[i], job[t])
    /\ \E a \in SelectAccount(items[i], job[t].requested) :
          /\ Persist([items EXCEPT ![i] = Syncing(@, "drive", job[t].content, a)])
          /\ IF lastSave' = "ok"
             THEN Advance(t, [job[t] EXCEPT !.pc = "find", !.account = a,
                                            !.requested = Nil])
             ELSE Return(t)
    /\ UNCHANGED <<disk, copies, born, deleted, acked>>

-----------------------------------------------------------------------------
(* The uploads.  A copy is accepted when the provider stores it, whether or *)
(* not the command ever hears of it.                                        *)

CopyOf(r) ==
    [provider |-> r.provider, item |-> r.item, account |-> r.account,
     content |-> r.content]

Fresh == {h \in Handles : copies[h] = Nil}

Accept(h, r) == h \in Fresh /\ copies' = [copies EXCEPT ![h] = CopyOf(r)]

UploadEnds(t, result) ==
    Advance(t, [job[t] EXCEPT !.pc = "check", !.sent = 0, !.result = result])

(* Mutant: the attempts are not counted against TELEGRAM_UPLOAD_ATTEMPTS.   *)
SendTelegramUnbounded(t) ==
    /\ At(t, "send", "telegram")
    /\ \/ \E h \in Handles : Accept(h, job[t]) /\ UploadEnds(t, h)
       \/ copies' = copies /\ Advance(t, [job[t] EXCEPT !.sent = @ + 1])
    /\ UNCHANGED <<disk, items, saved, lastSave, born, deleted, acked>>

(* One attempt of the loop; a retried attempt may already have been stored. *)
SendTelegram(t) ==
    /\ At(t, "send", "telegram")
    /\ \/ \E h \in Handles : Accept(h, job[t]) /\ UploadEnds(t, h)
       \/ /\ copies' = copies \/ \E h \in Handles : Accept(h, job[t])
          /\ \/ UploadEnds(t, Nil)
             \/ /\ job[t].sent + 1 < MaxAttempts
                /\ Advance(t, [job[t] EXCEPT !.sent = @ + 1])
    /\ UNCHANGED <<disk, items, saved, lastSave, born, deleted, acked>>

Matching(r) == {h \in Handles : copies[h] = CopyOf(r)}

(* Mutant: the upload starts without looking for an earlier one.            *)
FindDriveSkipped(t) ==
    /\ At(t, "find", "drive")
    /\ Advance(t, [job[t] EXCEPT !.pc = "send"])
    /\ UNCHANGED <<disk, items, saved, lastSave, copies, born, deleted, acked>>

FindDrive(t) ==
    /\ At(t, "find", "drive")
    /\ \/ \E h \in Matching(job[t]) : UploadEnds(t, h)
       \/ /\ Matching(job[t]) = {}
          /\ Advance(t, [job[t] EXCEPT !.pc = "send"])
       \/ UploadEnds(t, Nil)
    /\ UNCHANGED <<disk, items, saved, lastSave, copies, born, deleted, acked>>

SendDrive(t) ==
    /\ At(t, "send", "drive")
    /\ \/ \E h \in Handles : /\ Accept(h, job[t])
                             /\ UploadEnds(t, h) \/ UploadEnds(t, Nil)
       \/ /\ copies' = copies
          /\ \E h \in Matching(job[t]) \cup {Nil} : UploadEnds(t, h)
    /\ UNCHANGED <<disk, items, saved, lastSave, born, deleted, acked>>

CheckSource(t) ==
    /\ job[t].pc = "check"
    /\ Advance(t, [job[t] EXCEPT !.pc = "finish", !.content = Nil, !.account = Nil,
                                 !.unchanged = (disk[job[t].item] = job[t].content)])
    /\ UNCHANGED <<disk, items, saved, lastSave, copies, born, deleted, acked>>

(* Mutant: only the source check decides, not the upload's result.          *)
FinishedUnverified(rec, r) ==
    [rec EXCEPT
        !.syncState[r.provider] = IF r.unchanged THEN "synced" ELSE "failed",
        !.remoteId[r.provider] = IF r.result # Nil THEN r.result ELSE @]

(* Mutant: a sync that is reported as failed drops the id of its copy.      *)
FinishedDropsId(rec, r) ==
    [rec EXCEPT
        !.syncState[r.provider] =
            IF r.result # Nil /\ r.unchanged THEN "synced" ELSE "failed",
        !.remoteId[r.provider] =
            IF r.result = Nil THEN @ ELSE IF r.unchanged THEN r.result ELSE Nil]

(* Mutant: a failed upload leaves the item marked as syncing.               *)
FinishedOnlyOnOk(rec, r) ==
    [rec EXCEPT
        !.syncState[r.provider] =
            IF r.result # Nil /\ r.unchanged THEN "synced" ELSE @,
        !.remoteId[r.provider] = IF r.result # Nil THEN r.result ELSE @]

Finished(rec, r) ==
    [rec EXCEPT
        !.syncState[r.provider] =
            IF r.result # Nil /\ r.unchanged THEN "synced" ELSE "failed",
        !.remoteId[r.provider] = IF r.result # Nil THEN r.result ELSE @]

(* Mutant: the result is stored even when the item was deleted meanwhile.   *)
FinishUpsert(t) ==
    LET i == job[t].item IN
    /\ \E c \in Contents :
          Persist([items EXCEPT ![i] =
                       Finished(IF @ = Nil THEN NewItem(c) ELSE @, job[t])])
    /\ Return(t)
    /\ UNCHANGED <<disk, copies, born, deleted, acked>>

Finish(t) ==
    LET i == job[t].item IN
    /\ items[i] # Nil
    /\ Persist([items EXCEPT ![i] = Finished(@, job[t])])
    /\ acked' = IF lastSave' = "ok" /\ job[t].result # Nil
                THEN acked \cup {<<i, job[t].provider>>} ELSE acked
    /\ Return(t)
    /\ UNCHANGED <<disk, copies, born, deleted>>

FinishTelegram(t) == At(t, "finish", "telegram") /\ Finish(t)

FinishDrive(t) == At(t, "finish", "drive") /\ Finish(t)

(* The process ends; load_state reads vault-state.json back.                *)
Restart ==
    /\ "crash" \in Failures
    /\ items' = saved
    /\ lastSave' = "ok"
    /\ job' = [t \in Tasks |-> IdleJob]
    /\ UNCHANGED <<disk, saved, copies, born, deleted, acked>>

-----------------------------------------------------------------------------
SyncStep(t) ==
    \/ PrepareSnapshot(t) \/ ItemGone(t)
    \/ StartTelegram(t) \/ SkipDrive(t) \/ StartDrive(t)
    \/ SendTelegram(t) \/ FindDrive(t) \/ SendDrive(t)
    \/ CheckSource(t) \/ FinishTelegram(t) \/ FinishDrive(t)

Command ==
    \/ \E i \in Items, c \in Contents : ImportItem(i, c)
    \/ \E i \in Items : DeleteItem(i)
    \/ RescanVault
    \/ \E t \in Tasks, i \in Items : BeginTelegram(t, i)
    \/ \E t \in Tasks, i \in Items, r \in Requested : BeginDrive(t, i, r)

UserEdit == \E i \in Items, c \in Contents \cup {Nil} : UserEditsFile(i, c)

Next ==
    \/ Command
    \/ UserEdit
    \/ \E t \in Tasks : SyncStep(t)
    \/ Restart

Spec == Init /\ [][Next]_vars

(* The runtime keeps polling a started command, and every request is        *)
(* answered or breaks: a section between two awaits eventually runs.        *)
Fairness == \A t \in Tasks : WF_vars(SyncStep(t))

FairSpec == Spec /\ Fairness

-----------------------------------------------------------------------------
(* Every variable stays within its type.                                    *)
TypeOK ==
    /\ disk \in [Items -> Contents \cup {Nil}]
    /\ items \in [Items -> VaultItem \cup {Nil}]
    /\ saved \in [Items -> VaultItem \cup {Nil}]
    /\ lastSave \in {"ok", "failed"}
    /\ copies \in [Handles -> Copy \cup {Nil}]
    /\ job \in [Tasks -> Job]
    /\ born \subseteq Items
    /\ deleted \subseteq Items
    /\ acked \subseteq Items \X AllProviders

Backed(i, rec, p) ==
    rec.syncState[p] = "synced" =>
        /\ rec.remoteId[p] # Nil
        /\ copies[rec.remoteId[p]] # Nil
        /\ copies[rec.remoteId[p]].item = i
        /\ copies[rec.remoteId[p]].provider = p

(* An item shown as synced names a copy that its provider accepted for that *)
(* very item: in memory and in vault-state.json, so also after a crash, a   *)
(* failed save, a lost reply or a concurrent sync (the finishing sections   *)
(* of both commands).                                                       *)
SyncedIsBacked ==
    \A i \in Items, p \in AllProviders :
        /\ items[i] # Nil => Backed(i, items[i], p)
        /\ saved[i] # Nil => Backed(i, saved[i], p)

(* Between two locked sections vault-state.json equals memory, unless the   *)
(* last save failed: no handler leaves a change unsaved, not even on the    *)
(* error paths of the sync commands.                                        *)
SavedUnlessFailed == lastSave = "ok" => saved = items

(* A deletion that was reported done is final: no sync that was in flight   *)
(* brings the item back, nor does a restart (delete_item against the        *)
(* sections that look the item up again).                                   *)
DeletedStaysDeleted == \A i \in deleted : items[i] = Nil /\ saved[i] = Nil

(* Once a provider has answered a sync with a remote id and the result was  *)
(* saved, reported as Ok or as failed because the file has changed, no later*)
(* sync and no crash makes the application forget that the provider holds a *)
(* copy of the item (the finishing sections, the start of the next sync).   *)
AckedSurvives ==
    \A i \in Items, p \in AllProviders :
        <<i, p>> \in acked /\ saved[i] # Nil => saved[i].remoteId[p] # Nil

(* drive_account_id of a synced item is the account that holds the copy,    *)
(* the one that retries, open links and disconnect go by: two syncs that    *)
(* each choose an account for the item agree, as long as callers leave the  *)
(* choice to the command (select_account under the lock that marks the item)*)
AccountHoldsCopy ==
    \A i \in Items :
        items[i] # Nil /\ items[i].syncState["drive"] = "synced" =>
            copies[items[i].remoteId["drive"]].account = items[i].driveAccountId

(* Reconciliation works: retries of a Drive upload, after lost replies and  *)
(* after crashes, never store the same snapshot twice in one account.       *)
DriveCopiesUnique ==
    \A h, k \in Handles :
        copies[h] # Nil /\ copies[h].provider = "drive" /\ copies[k] = copies[h]
            => h = k

(* A sync that marked its item as syncing ends: the mark goes away, unless  *)
(* saving or the process fails.                                             *)
SyncingResolves ==
    \A i \in Items, p \in AllProviders :
        (items[i] # Nil /\ items[i].syncState[p] = "syncing") ~>
            (items[i] = Nil \/ items[i].syncState[p] # "syncing")

EntryOf(rec) ==
    IF rec = Nil THEN Nil
    ELSE [mark |-> rec.syncState,
          known |-> {p \in AllProviders : rec.remoteId[p] # Nil}]

Entries(list) == [i \in Items |-> EntryOf(list[i])]

(* A command that has passed its start section, until it returns.           *)
Sends(r) == r.pc \in {"find", "send", "check", "finish"}

Running == {<<job[t].item, job[t].provider>> : t \in {u \in Tasks : Sends(job[u])}}

Held == {<<copies[h].item, copies[h].provider>> :
            h \in {k \in Handles : copies[k] # Nil}}

(* The items, their file and the sync commands implement ItemLedger: however*)
(* the commands interleave, fail, lose replies and are cut off, the list is *)
(* only changed as its reader was promised.                                 *)
Ledger == INSTANCE ItemLedger
    WITH Providers <- AllProviders, memory <- Entries(items), stored <- Entries(saved),
         running <- Running, held <- Held, ever <- born
LedgerSpec == Ledger!Spec
=============================================================================
