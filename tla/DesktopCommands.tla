--------------------------- MODULE DesktopCommands ---------------------------
(***************************************************************************)
(* The Tauri commands of the desktop application as its window sees them:  *)
(* what each does to the state in memory (lib.rs, drive.rs), cut where     *)
(* other commands can come in between, and the answer it gives, a snapshot *)
(* of the state or an error.  ItemSync, VaultIndex and DriveUpload have the*)
(* files, the copies and the saves; here an item is its two sync states.   *)
(* A provider is linked or not: one Google Drive account stands for all.   *)
(* The build has no Google OAuth client of its own: the user enters one.   *)
(***************************************************************************)
EXTENDS Sequences, FiniteSets, Naturals

CONSTANTS
  Items,
  Tasks,      \* async functions of the window that run at a time
  MaxFaults,  \* bound: failures of the disk, the network and the keyring
  Nil

ASSUME ItemsAssumption == IsFiniteSet(Items)

VARIABLES
  core,    \* RuntimeState.persisted: the items, the links, the auto-sync switches;
           \* and whether Credential Manager has an OAuth client (configured)
  token,   \* providers with a token in Credential Manager
  task,    \* the functions of the window, each with the command it waits for
  line,    \* answers with a snapshot on their way, in the order they were taken
  missed,  \* history: a command failed after it had changed the state
  gone,    \* history: providers disconnected with success and not connected since,
           \* with no sign-in on its way
  faults

coreVars == <<core, token, task, line, missed, gone, faults>>

Provider == {"drive", "telegram"}
SyncState == {"local", "syncing", "synced", "failed"}
Item == [Provider -> SyncState]
Core == [items : [Items -> Item \cup {Nil}], linked : SUBSET Provider, auto : SUBSET Provider,
         client : BOOLEAN]

NewItem == [p \in Provider |-> "local"]
Present(c) == {i \in Items : c.items[i] # Nil}

Linking == {"connect", "check", "disconnect", "toggle", "clear"}
Call == {"import", "rescan", "delete", "sync", "snapshot"} \cup Linking

Fault == faults < MaxFaults /\ faults' = faults + 1
At(t, call, at) == task[t].call = call /\ task[t].at = at
Goto(t, at) == task' = [task EXCEPT ![t].at = at]

-----------------------------------------------------------------------------
Refuse(t) ==
  /\ task' = [task EXCEPT ![t].at = "answered", ![t].ok = FALSE]
  /\ UNCHANGED <<core, line, missed>>

Reply(t, c, new) ==
  /\ task' = [task EXCEPT ![t].at = "answered", ![t].ok = TRUE, ![t].snap = c, ![t].new = new]
  /\ line' = Append(line, t)
  /\ UNCHANGED missed

\* The last locked section of a command: the state changes, is saved, and its
\* snapshot is the answer; when the save fails the change stays in memory.
Store(t, c, new) ==
  /\ core' = c
  /\ \/ Reply(t, c, new) /\ UNCHANGED faults
     \/ /\ Fault
        /\ task' = [task EXCEPT ![t].at = "answered", ![t].ok = FALSE]
        /\ missed' = (missed \/ (c # core /\ task[t].call # "sync")
                                 \/ (task[t].call = "connect" /\ task[t].on))
        /\ UNCHANGED line

Snapshot(t) ==
  /\ At(t, "snapshot", "sent")
  /\ Reply(t, core, {})
  /\ UNCHANGED <<core, token, gone, faults>>

\* import_paths and rescan_vault: some of the files become items.
AddItems(t) ==
  /\ At(t, "import", "sent") \/ At(t, "rescan", "sent")
  /\ \/ \E new \in SUBSET (Items \ Present(core)) :
          Store(t, [core EXCEPT !.items = [i \in Items |-> IF i \in new THEN NewItem ELSE @[i]]],
                new)
     \/ Fault /\ Refuse(t)
  /\ UNCHANGED <<token, gone>>

DeleteItem(t) ==
  /\ At(t, "delete", "sent")
  /\ \/ task[t].item \in Present(core) /\ Store(t, [core EXCEPT !.items[task[t].item] = Nil], {})
     \/ task[t].item \notin Present(core) /\ Refuse(t) /\ UNCHANGED faults
     \/ Fault /\ Refuse(t)
  /\ UNCHANGED <<token, gone>>

-----------------------------------------------------------------------------
(* sync_item_telegram and sync_item_google_drive.                           *)

Marked(t, state) == [core EXCEPT !.items[task[t].item][task[t].provider] = state]

\* What a command on a provider asks of the keyring.
HasToken(p) == p \in token /\ (p = "drive" => core.client)

Syncable(t) ==
  task[t].item \in Present(core) /\ task[t].provider \in core.linked /\ HasToken(task[t].provider)

\* The early return of an item that is in Google Drive already.  It is not taken
\* when the user has changed the file since: its SHA-256 is another, and it is
\* uploaded again.
AlreadyUploaded(t) ==
  task[t].provider = "drive" /\ core.items[task[t].item]["drive"] = "synced"

\* The first sections: the item is marked, or the command is refused.
BeginSync(t) ==
  /\ At(t, "sync", "sent")
  /\ \/ ~Syncable(t) /\ Refuse(t) /\ UNCHANGED faults
     \/ Syncable(t) /\ AlreadyUploaded(t) /\ Reply(t, core, {}) /\ UNCHANGED <<core, faults>>
     \/ /\ Syncable(t)
        /\ core' = Marked(t, "syncing") /\ UNCHANGED <<line, missed>>
        /\ \/ Goto(t, "upload") /\ UNCHANGED faults
           \/ Fault /\ task' = [task EXCEPT ![t].at = "answered", ![t].ok = FALSE]
  /\ UNCHANGED <<token, gone>>

\* The last section, after the upload has succeeded or failed.
EndSync(t) ==
  /\ At(t, "sync", "upload")
  /\ IF task[t].item \in Present(core)
     THEN \/ Store(t, Marked(t, "synced"), {})
          \/ /\ Fault /\ core' = Marked(t, "failed") /\ UNCHANGED <<line, missed>>
             /\ task' = [task EXCEPT ![t].at = "answered", ![t].ok = FALSE]
     ELSE Refuse(t) /\ UNCHANGED faults
  /\ UNCHANGED <<token, gone>>

-----------------------------------------------------------------------------
(* The commands of the connection cards.                                    *)

Unlinked(p) == [core EXCEPT !.linked = @ \ {p}, !.auto = @ \ {p}]

\* A sign-in or a first check that has begun and not ended.
Connecting(p) ==
  \E t \in Tasks : task[t].provider = p /\ \E at \in {"network", "store"} : At(t, "connect", at)

\* OAUTH_IN_PROGRESS lets one sign-in to Google run, with a client that was
\* entered with it (on) or before.
BeginConnect(t) ==
  /\ At(t, "connect", "sent")
  /\ IF task[t].provider = "drive" /\ (Connecting("drive") \/ ~(task[t].on \/ core.client))
     THEN Refuse(t) ELSE Goto(t, "network") /\ UNCHANGED <<core, line, missed>>
  /\ gone' = gone \ {task[t].provider}
  /\ UNCHANGED <<token, faults>>

\* The sign-in or the check has succeeded: the client goes to the keyring, then
\* the token.
SaveToken(t) ==
  LET saved == [core EXCEPT !.client = @ \/ (task[t].provider = "drive" /\ task[t].on)] IN
  /\ At(t, "connect", "network")
  /\ \/ /\ token' = token \cup {task[t].provider} /\ core' = saved /\ Goto(t, "store")
        /\ UNCHANGED <<missed, faults>>
     \/ /\ Fault /\ core' \in {core, saved}
        /\ task' = [task EXCEPT ![t].at = "answered", ![t].ok = FALSE]
        /\ missed' = (missed \/ core' # core) /\ UNCHANGED token
  /\ UNCHANGED <<line, gone>>

\* The Telegram form has a switch of its own.
Connected(t) ==
  LET p == task[t].provider IN
  /\ At(t, "connect", "store")
  /\ \E auto \in BOOLEAN :
       Store(t, [core EXCEPT !.linked = @ \cup {p},
                             !.auto = IF p = "drive" THEN @ ELSE IF auto THEN @ \cup {p} ELSE @ \ {p}],
             {})
  /\ UNCHANGED <<token, gone>>

\* test_telegram and refresh_google_drive read the token, the first the chat too,
\* then ask the provider.
BeginCheck(t) ==
  LET p == task[t].provider IN
  /\ At(t, "check", "sent")
  /\ IF HasToken(p) /\ (p = "telegram" => p \in core.linked)
     THEN Goto(t, "network") /\ UNCHANGED <<core, line, missed>> ELSE Refuse(t)
  /\ UNCHANGED <<token, gone, faults>>

(* Mutant: no check looks the account up again.                             *)
EndCheckUnasked(t) ==
  /\ At(t, "check", "network")
  /\ \/ Store(t, [core EXCEPT !.linked = @ \cup {task[t].provider}], {})
     \/ Fault /\ Refuse(t)
  /\ UNCHANGED <<token, gone>>

\* test_telegram sets connected; refresh_google_drive looks the account up again.
EndCheck(t) ==
  LET p == task[t].provider IN
  /\ At(t, "check", "network")
  /\ \/ IF p = "telegram" \/ p \in core.linked
        THEN Store(t, [core EXCEPT !.linked = @ \cup {p}], {})
        ELSE Refuse(t) /\ UNCHANGED faults
     \/ Fault /\ Refuse(t)
  /\ UNCHANGED <<token, gone>>

DeleteToken(t) ==
  /\ At(t, "disconnect", "sent")
  /\ \/ /\ token' = token \ {task[t].provider} /\ Goto(t, "store")
        /\ UNCHANGED <<core, line, missed, faults>>
     \/ Fault /\ Refuse(t) /\ UNCHANGED token
  /\ UNCHANGED gone

Disconnected(t) ==
  /\ At(t, "disconnect", "store")
  /\ Store(t, Unlinked(task[t].provider), {})
  /\ LET p == task[t].provider IN
     gone' = IF task'[t].ok /\ ~Connecting(p) THEN gone \cup {p} ELSE gone
  /\ UNCHANGED token

\* set_telegram_auto_sync and set_google_drive_auto_sync.
SetAutoSync(t) ==
  LET p == task[t].provider IN
  /\ At(t, "toggle", "sent")
  /\ IF p \in core.linked \/ (p = "drive" /\ ~task[t].on)
     THEN Store(t, [core EXCEPT !.auto = IF task[t].on THEN @ \cup {p} ELSE @ \ {p}], {})
     ELSE Refuse(t) /\ UNCHANGED faults
  /\ UNCHANGED <<token, gone>>

\* clear_google_drive_client: two entries of the keyring, the first is decisive.
ClearClient(t) ==
  /\ At(t, "clear", "sent")
  /\ IF "drive" \in core.linked THEN Refuse(t) /\ UNCHANGED faults
     ELSE LET c == [core EXCEPT !.client = FALSE] IN
          \/ core' = c /\ Reply(t, c, {}) /\ UNCHANGED faults
          \/ /\ Fault /\ core' \in {core, c} /\ UNCHANGED line
             /\ task' = [task EXCEPT ![t].at = "answered", ![t].ok = FALSE]
             /\ missed' = (missed \/ core' # core)
  /\ UNCHANGED <<token, gone>>

Execute(t) ==
  \/ Snapshot(t) \/ AddItems(t) \/ DeleteItem(t)
  \/ BeginSync(t) \/ EndSync(t)
  \/ BeginConnect(t) \/ SaveToken(t) \/ Connected(t)
  \/ BeginCheck(t) \/ EndCheck(t)
  \/ DeleteToken(t) \/ Disconnected(t) \/ SetAutoSync(t) \/ ClearClient(t)
=============================================================================
