# StoragePK in TLA+

Specifications of the parts of StoragePK whose correctness depends on the order
in which things happen. The desktop application: the vault and its index, the
state file, the two sync commands, the resumable upload to Google Drive, the
connections and the window. The hosted foundation: sign-in, provider accounts,
pools and routing, and an upload from the page through the API and the queue to
the worker. TLC checks them on small instances, TLAPS proves the central
invariants for every value of the constants. `PROJECT.json` lists the
components, the runs, the source lines behind every definition, the hazards and
the theorems.

To check a run or a proof:

    tlc -config ItemSyncFaults.cfg MCItemSync
    tlapm ItemSyncProofs.tla

## 1. Inventory

### The desktop application

A React window (`App.tsx`) calls commands of a Rust core. The core keeps one
`Mutex<RuntimeState>`; a command locks it in short sections and does its
copying, hashing and network requests between them, without it. Nothing else
orders the commands: whatever the window lets the user start at the same time
interleaves at the granularity of those sections.

| Part | State | Operations | Where it is hard |
| --- | --- | --- | --- |
| Vault and index (`lib.rs` 326-716, 874-1045) | files below `vault_path`; `items` (path, SHA-256, category) | `import_paths`, `rescan_vault`, `delete_item`; the user in Explorer | both long commands compare with a picture of the index taken before they work; a path is chosen before it is written; deletion goes by path |
| State file (`lib.rs` 178-295) | `vault-state.json`, its `.backup.json`, a `.tmp-<uuid>`, `.corrupt-<time>` files | `persist_state`, `load_state` | the process may end between any two file system calls; damaged or newer files |
| Sync commands (`lib.rs` 1141-1233, `drive.rs` 1203-1326) | per item and provider: sync state, remote id, `drive_account_id`; one shared SHA-256 and size | `sync_item_telegram`, `sync_item_google_drive` | minutes of upload between two locked sections on the same item; failed saves; crashes |
| Snapshots (`lib.rs` 396-510) | a private copy of the file, removed when dropped | `prepare_upload_snapshot`, `source_matches_snapshot` | the source changes during or after the copy |
| Drive upload (`drive.rs` 611-955) | session URL in Credential Manager; sessions and files of Google Drive | `upload_file` with search, inspect, start, chunks, verification | lost, late and partly stored chunks; lost replies; expiry; two uploads on one session |
| Telegram upload (`lib.rs` 778-861) | messages of the chat | `upload_to_telegram` | a retry after a lost reply sends the document again |
| Connections (`lib.rs` 1047-1139, `drive.rs` 352-609, 957-1201) | tokens and the user's OAuth client in Credential Manager; connection records in the state | connect, test or refresh, disconnect, auto-sync, clear the client | keyring and state are written separately, around awaits |
| Account selection (`drive.rs` 564-609) | accounts with quota | `select_account` | pinned and disconnected accounts, quota edges |
| Window (`App.tsx`) | the snapshot shown; `busy`, `busyItem`, a flag per card | starts commands, shows their answers, syncs what an import added | answers of overlapping commands overtake each other; a flag is reset by whichever function ends first, and lost with its card; a drop asks for no flag |

### The hosted foundation

Three processes: the page in the browser, the API (NestJS) and the worker
(BullMQ). They share PostgreSQL, Redis and the directory of staged files. Each
is single-threaded JavaScript: a handler interleaves with others at its awaits.

| Part | State | Operations | Where it is hard |
| --- | --- | --- | --- |
| Authentication (`apps/api/src/auth`) | refresh sessions, in memory or database; tokens in the browser | login, refresh, logout; the page's start | a refresh reads, then revokes, then issues; tokens are told apart by user and second |
| Upload pipeline (`apps/api/src/uploads`) | sessions in a map and in the database, staged files, queue | create session, add file, route, enqueue | several writes that can fail one by one; the controller removes the file on any error |
| Worker (`apps/worker`) | attempts and storage objects in the database | execute a job | at-least-once jobs whose record is reset at each execution |
| Providers and pools (`apps/api/src/providers`, `packages/providers`) | accounts, pools, link intents | link, create pool, list, route | an intent is looked up before and removed after an await; quota edges and ties |
| Page (`apps/web`) | where it is in its loop over the files | log in, upload files | an error or a lost answer anywhere in the loop |
| Contracts, schema, build | none that changes at run time | | |

### What must be true

* Vault: a SHA-256 is indexed once; an item's file holds what the item records;
  no item is dropped by another command; a rescan covers the folder.
* State file: what was reported as saved is what the next start loads; a damaged
  file leaves something to start from; a newer release's file survives.
* Sync: an item shown as synced names a copy its provider accepted for it; an
  acknowledged upload is never forgotten; a deleted item stays deleted; a retry
  makes no second copy in Drive; the mark "syncing" goes away.
* Drive upload: an acknowledged file is complete with every byte at its place;
  one copy; sessions are resumed and not dropped; every call returns.
* Connections and window: a Drive account has its token and a token its account;
  a disconnected account stays disconnected; the window ends up showing the
  state; no flag stays set; an import tries every sync it announced.
* Sign-in: no two clients share a token; nobody is signed out by what others do;
  a spent token stays refused; the page gets past its loading message.
* Routing: within the workspace, by room where the mode says so, undisturbed by
  members that are refused; a link intent is spent once.
* Hosted upload: "queued" is said of complete uploads only; their files stay;
  they arrive; records stand for copies, and every extra copy for a failure.

## 2. Modules

    DurableState                 what saving and loading promise
      ^ refined by
    StatePersistence             the files behind it, call by call
    ItemLedger                   what the list of items promises its reader
      ^ refined by
    ItemSync                     items across the two sync commands
      |- its atomic Persist      is detailed by StatePersistence
      |- its SendDrive/FindDrive is detailed by DriveUpload
    DriveUpload                  one resumable upload and Google Drive's sessions
    VaultIndex                   the files of the vault and the items naming them
    DesktopCommands              every command as the window sees it
      ^ extended by
    DesktopWindow                the window's functions, flags and answers

    AuthSessions                 refresh sessions and the page's sign-in
    PoolRouting                  simulateRoute as an operator, what callers rely on
      ^ extended by
    ProviderPools                accounts, intents, pools and routing requests
    UploadPipeline               page and API up to the queue
    UploadWorker                 the worker and the providers' copies
      both instantiated by
    HostedUpload                 the two over one queue and one directory

    MC<Module>                   instances for TLC
    <Module>Proofs               theorems and proofs

`StatePersistence` needs no MC module: its constants are numbers and switches.
Definitions whose comment begins with "Mutant" are deliberate errors in the
definition after them; `PROJECT.json` names the property each one breaks. They
are not part of any specification.

### ItemSync and ItemLedger

One task of `Tasks` is one call of a sync command; `job[t].pc` names the next
section: `prepare` (snapshot) - `start` (second locked section, marks the item
as syncing and saves) - `find`/`send` (upload) - `check` (source still the same)
- `finish` (last locked section). A content stands for a file's bytes, its size
and its SHA-256 together. `copies` is what the providers hold by remote id,
whether or not the application knows. `items` is memory, `saved` is
`vault-state.json`; `Persist` changes memory first and may then fail, as
`persist_state(..)?` after the mutation does. `born` and `deleted` record what the
user was told, `acked` for which item and provider a remote id was saved, also by
a sync that was then reported as failed because the file had changed.
`Requested` is what callers pass as `account_id`: the window only ever passes
null. `OneSyncPerItem` states what the window's button usually ensures; it is
FALSE where two syncs of an item matter, because `syncDrive` and `syncTelegram`
reset the busy item in `finally` whichever item it is by then.

Abstracted: an attempt of an upload is one exchange; the account that
`select_account` picks automatically is any account; `MarkMissing` is the part
of a rescan that touches existing items.

`ItemLedger` keeps of an item only its marks and for which providers it has a
remote id, in memory and in the file, and of the world only which items a
provider holds and which syncs may be sending. It has no sections, snapshots,
accounts, attempts or replies. Its steps say what may ever happen to an entry: a
sync's outcome is recorded once it was started; "synced" and a new remote id
need an item that the provider holds; a remote id goes only with the item; a sync
sends only once the file shows it; a restart returns to the file.
`ItemSync!Ledger` maps `items` and `saved` to entries, the tasks past their start
section to the syncs that may be sending, and `copies` to what is held; sections that
only read, edits by the user and lost requests stutter.

### StatePersistence and DurableState

Every `fs` call of `persist_state`, `replace_file` and `load_state` is a step;
the state is a version number; a file is absent, torn, written by a newer schema,
or holds a version. `ReplaceFile` is atomic (MoveFileExW or rename, both on one
volume) and `WriteTmp` includes `sync_all`. With `IOErrors` any of these calls may
fail, reading and asking for existence included: a failed read of a good target
takes the path of a damaged one (`LoadBackup`), and an `exists()` that answers
FALSE on an error that of a missing one (`LoadFresh`, `CopyBackup`). `misread`
records that a start took a good file for damaged or missing. `DurableState`
promises two things of the version the next start loads and the version the
user was told is saved, until the file is `touched`: written by something else,
or misread. The refinement maps the first to `target.version`.

### DriveUpload

A client of `Clients` is one `upload_file` call. A file is `Size` granules, a
chunk `Chunk` of them. A chunk request carries the offset it is labelled with and
the position in the snapshot it was read from; a session stays `intact` while
both agree for every granule it keeps. That is what makes the difference between
"the sizes and the recorded SHA-256 agree", which `verify_remote_file` sees, and
"the bytes are right" visible. `failures`, chosen at the start among `FailureSets`
and fixed from then on, says what goes wrong besides lost requests and replies,
which always may: crashes, Credential Manager refusing, a `files.list` that lags,
chunks stored in part, requests that arrive after their sender timed out. Each
property names the failures it does not withstand.

The Google Drive side (`StoreChunk`, `RefuseGap`, `AnswerDone`, `AnswerExpired`,
`SessionExpires`) is external and modelled from what `upload_file` and
`inspect_upload_session` handle. A completed session does not expire while a call
is under way: sessions last a week, calls minutes.

### VaultIndex

A task is one `import_paths` or `rescan_vault` call with its locals: the
checksums it knows, the sources or files left, what it found. A vault path is a
name and the number `unique_target` appends. `Verbatim` says whether
`fs::canonicalize` spells a path differently from `vault_path.join`, as it does
on Windows (`\\?\`). `touched` records the paths of which the user, or a deletion
that the state file does not know of, took the file away, so that properties can
speak about the others. A copy that failed or that the process did not finish
may hold `Torn`, a content like any other for a rescan. Both sync commands give
an item the SHA-256 of the file as they read it (`lib.rs:1191`, `drive.rs:1267`):
`TakeSnapshot` reads, `RecordSnapshot` writes under the lock whatever the item has
become, and `rewritten` marks the items whose SHA-256 a sync has changed. The rest
of a sync is in `ItemSync`. Deletion is one step, as it holds the lock
from its lookup to its save; the crash inside it is `CrashInDelete`.

### DesktopCommands and DesktopWindow

`DesktopCommands` has the commands at a coarser grain than the three modules
above: an item is its two sync states, a provider is linked or not, and a command
is cut where it awaits the network or a chooser. `task[t]` is one async function
of the window together with the command it waits for; `line` is the order in
which answers with a snapshot were taken, so that an answer shown after a later
one is noticed (`overtaken`). `Store` changes memory, saves and answers; when the
save fails the change stays and the answer is an error (`missed`).

`DesktopWindow` adds the state of `App` and of the two cards: `shown` is the
snapshot of `setSnapshot`, `busy` and `busyItem` are its flags, `cardBusy` the flags
of the cards. Each action of `Click` is a handler with the condition under which
its button is there and enabled. `Answer` and `AnswerError` are the code after an
`await`: the try branch and the catch with its finally. `ChangeView` unmounts the
cards: their functions go on, their flags are gone. A drop on the window asks for
no flag (`App.tsx:315`).

Abstracted: one Google Drive account stands for all; the build has no OAuth
client of its own, so the user enters one; the Telegram switch that the card
keeps a copy of may be either value (`TelegramToggle`).

### AuthSessions

A request is in `find`, `rotate`, `create`, `revoke` or `reply`, the awaits of
`AuthService`. A signed token is its user and its second, because `sign` covers
nothing else that differs: two tokens of a user in one second are one string and
have one hash. A row is keyed by that hash; with a database it is unique, in
memory `Map.set` replaces. In memory no handler has an await, so a step does it
all. `holds` is what a client saved (`localStorage`), `ended` records the tokens
whose exchange or logout was answered, `failed` the clients of which a request
failed. `page` is `authState` of `dashboard.tsx`.

### PoolRouting and ProviderPools

`SimulateRoute(f, p, view)` is `simulateRoute`: the members that accept the file,
the first of them by priority or the best by score, the copies, the status.
Scores are integers with `Math.round`'s half up. `ProviderPools` is what leads to
its arguments: intents and the callback in its two awaits, linking with the
quota and health that the check told, pools whose members need only exist, and a
routing request that reads the pool and then the accounts of the workspace.
It models the deployment with a database.

### UploadPipeline, UploadWorker and HostedUpload

In `UploadPipeline` `post[i]` is the handler of one posted file: `check` (the
session) - `record` (the item's row) - `route` - `resource` - `decide` - `enqueue`,
one job after the other; any of its statements may fail before or after taking
effect, and then the controller removes the staged file. `config` says whether a
database and Redis are configured. `page` is `handleFiles`.

In `UploadWorker` `run[w]` is one execution: `upload`/`open`/`send` (the adapter's
requests) - `object` - `finish`, or `fail`. `job[j]` is BullMQ's side: the state,
the worker that owns the lock, failed executions and stalls. `Stall` takes the
job from a worker that may still be at it. `remote` counts the copies at the
provider, `objects` the storage objects. BullMQ is external.

`HostedUpload` instantiates both over `job`, `staged` and `faults`.

## 3. Runs

| Run | Instance | Question |
| --- | --- | --- |
| `item_sync_concurrent` | 1 item, 2 tasks, both providers, 2 accounts and none asked for, nothing fails, fair | does a sync undo what another finished, do two agree on the account, and does every "syncing" mark go away |
| `item_sync_faults` | 1 item, 2 contents, 2 accounts of which any may be asked for, 1 task, failing saves, crashes | is the list of items the one `ItemLedger` promises, in memory and on disk, through every failure, and which copies are there |
| `persist` | 3 changes, 2 damages, crashes, failing calls, a newer release | is the state file a durable register, and what does recovery promise |
| `persist_recovery_crash` | 3 changes, 1 damage, crashes | violated: see below |
| `drive_upload` | 1 call, 4 granules in chunks of 2, fair; partly stored chunks, lagging search and failing keyring; late requests with whole or partly stored chunks | right bytes, one copy, no dropped session, and every call returns |
| `drive_upload_two` | 2 calls, 3 granules, nothing fails | violated: see below |
| `vault_one_command` | 1 task, 1 name, 2 contents and a torn one, 2 chosen files, 2 paths, 3 ids, 1 sync at a time | everything the vault promises, one import or rescan at a time |
| `desktop_window` | 1 item, 2 functions at a time, 3 clicks, 1 failure, 4 states to start from | window, flags and connections under every overlap the window lets through |
| `auth_sessions` | 2 clients of one user, 2 requests, 3 seconds, 1 fault, memory and database | whose token is whose, and what ends it |
| `auth_page` | 1 client, 1 request, no fault, fair | violated: see below |
| `provider_pools` | 2 workspaces, 2 accounts, 1 intent, 2 links, 1 pool of 2, files of 0, 4 and 5 units, 3 modes | who gets a file, and who may link |
| `hosted_upload` | 2 files, 2 accounts (one Drive, one Telegram), 2 workers, 3 configurations, 2 attempts, 1 stall, 1 fault, 1 revocation, fair | is "queued" true, and does it arrive |

Why the bounds are enough.

* *Sync.* The interesting cases need one item contended by two commands (an item
  shares nothing with another but the account and the save); two contents to
  tell an old SHA-256 from a new one; two accounts to tell the recorded from the
  actual; two remote ids so that a retry can store a second copy.
* *State file.* Three versions let a save, its backup and one more change differ;
  two damages let the second hit what recovery wrote.
* *Drive.* Four granules in chunks of two give a first and a last chunk, and with
  a part stored also a chunk that begins inside another and a short last one; two
  attempts a first and a last; two sessions one that is lost and its successor.
* *Vault.* Two paths of one name give the first and the numbered target, and two
  contents with a torn one let all three be on disk and in the index at once.
  One snapshot not yet recorded, or one item rewritten, is what it takes to
  record a SHA-256 that an import or a rescan under way does not know
  (`MaxSyncs`); the theorems have any number. Ids are reused once nothing holds
  them; a step that would need a fourth at a time waits, which cuts behaviours
  short and adds none. A save
  may fail, and no second one before a save has succeeded (`"saves"` would
  allow it): the file is then that of one command ago.
* *Window.* Two functions give every pair of overlapping commands, three clicks a
  command whose answer is overtaken by two others. The four states are a linked
  empty vault, a linked one with a file, and two without links, one of which
  lacks the OAuth client.
* *Sign-in.* Two clients of one user are what can share a token; with tokens
  valid for one and two seconds, three seconds have every order of issue, expiry
  of either token and refresh.
* *Routing.* The quotas are unknown, tight, and roomy; two members of different
  priority, threshold and rules, with files at, below and above the boundaries
  (a limit of 3 for Telegram, 4 left of 16 in Drive, a minimum of 3 and maximum
  of 4 by rule, 75 % used at a threshold of 75).
* *Hosted upload.* One file may go to two accounts, so that a job exists before
  its post fails; two workers are at one job after a stall; one fault and two
  attempts are what `QueuedArrives` is about. `Expire` is left out when no post
  is left to notice it.

### What the violated runs show

* `persist_recovery_crash` - `load_state` renames the damaged file away before it
  saves what it read from the backup. A process that ends in between leaves no
  `vault-state.json`, and the next start begins empty over a readable backup.
* `drive_upload_two` - the chunk loop sets
  `offset = uploaded_offset(..).max(end + 1)` without seeking the file. With two
  uploads of one snapshot on one stored session, the 308 can be further than the
  chunk just sent; the following bytes come from the wrong place, and the
  verification by size and recorded metadata accepts them.
* `auth_page` - where authentication is required the page starts with "Loading
  your workspace...". Its effect leaves that only when `localStorage` has no
  token, and the sign-in form is the only other place that does. A page that is
  loaded again after a sign-in stays there.

### Further limits of the code

Met while modelling; each follows from the definitions or by changing a constant
of a run.

Desktop:

* both sync commands overwrite the item's one `checksum_sha256` and `size_bytes`
  (`lib.rs:1192`): sync to Telegram, edit, sync to Drive, and the recorded SHA-256
  is not that of the Telegram copy;
* a file of the vault that the user changes to the content of another one and
  then syncs gives its item the SHA-256 of the other (`lib.rs:1191`,
  `drive.rs:1267`), and one whose new content is being imported meanwhile likewise:
  the index has that SHA-256 twice, which is why `NoDuplicates` leaves out the
  items a sync has rewritten;
* two overlapping imports or rescans index one SHA-256 twice (`lib.rs:906`), and two
  imports of files of one name may choose one target (`lib.rs:518`);
* the user removes a vault file, an import of another file of that name gets its
  path, and deleting the stale item deletes the new one's file (`lib.rs:1038`);
  where `fs::canonicalize` spells paths differently, an imported file the user
  edited is indexed again, and deleting either item removes the file of both;
* with late requests and partly stored chunks together, the one case
  `VerifiedContent` leaves out, a single call is enough for misplaced bytes: a late
  chunk can push the session ahead of the sender;
* when `files.list` lags behind, a completed upload whose reply was lost, and
  whose key is gone or unreadable, is repeated;
* the backup is overwritten in place: a copy that fails half-way, or a damaged
  file copied over it, and then further damage leave no readable file, which is
  why `StartsAgain` speaks about one damage;
* a start that cannot read a good `vault-state.json` goes back to the backup, sets
  the good file aside under a `corrupt-<time>` name and saves the older state
  (`lib.rs:255-260`, `289`); one that is told that there is none (`exists()` is FALSE
  on any error) begins empty and replaces it;
* two overlapping syncs of one item that ask for different accounts would leave
  it naming one and its copy in the other; no caller asks for one today;
* `test_telegram` writes `connected` after its await without looking again
  (`lib.rs:1098`): it revives a chat that was disconnected meanwhile;
* the window shows whichever answer arrives last, also one that was taken
  earlier; the drop and the button of an empty vault ask for no flag; the toast
  after an import says that auto-sync is complete when its syncs failed
  (`App.tsx:304`); a card's flag may be reset before its command ends; a chat id being typed is replaced by each new snapshot.

Hosted:

* two refreshes of one token that overlap are both accepted (`auth.service.ts:102`),
  and a second sign-in of a user in the same second fails with a database and
  shares a token without one; logout is refused once the access token ran out;
* quota and health are those of the time of linking; role and the capability to
  upload decide nothing in routing;
* two callbacks that overlap both get past the intent (`providers.controller.ts:47`);
  `IntentSpent` is about those that begin after the exchange;
* a post that fails after its first job was enqueued removes the file of that job
  (`uploads.controller.ts:40`), which then fails in all its attempts; `JobsKeepFile`
  is that nothing else removes it; the page's "added to your upload queue"
  (`dashboard.tsx:91`) is also said of files that were blocked or only staged; a handler
  that is cut off by the end of the API leaves its staged file for good;
* retries may leave several copies, because the idempotency key is written into
  the copy and never looked for; a second execution sets a synced attempt back to
  processing and may leave it failed; a failure that the adapter calls final is
  retried like any other;
* a session in memory and its row may differ after a failed write
  (`upload.store.ts:71`); an item's own state stays "queued";
* a refreshed Drive token is known to one adapter only, and the upload session
  of the worker is never resumed.

## 4. Fairness

`item_sync_concurrent` and `drive_upload` assume weak fairness of each task's
steps and nothing about the user, the window, crashes or the choice among
outcomes. The code justifies it: a started command is a future that the Tauri
runtime polls until it returns; the mutex sections contain no await; the retry
sleeps are finite; the upload client of `upload_file` has a timeout of 180 s, so
each of its requests is answered or fails. `upload_to_telegram` and
`refresh_access_token` use `Client::new()` without a timeout; for them the
assumption is that a connection is answered or breaks.

`hosted_upload` and `auth_page` assume weak fairness of each handler of the API and
of each execution of the worker: Node.js runs every continuation, PostgreSQL and
the providers answer or fail, and BullMQ gives a waiting job to a free worker.
Nothing is assumed of users and pages. Restarts and stalls need no fairness;
their number is bounded by `MaxFaults`. A worker whose process ends is a stall
after which it rests.

The other runs have no fairness and no liveness property.

## 5. Proofs

All theorems hold for every value of the constants that satisfies the named
assumptions (finite bounds on numbers, `Nil` outside the data, finitely many
workers, finitely many files in the window, which starts with a state of the
right shape that has an OAuth client if it has a Google Drive account).

| Module | Theorem | Statement |
| --- | --- | --- |
| `ItemSyncProofs` | `TypeCorrect` | `Spec => []TypeOK` |
| | `SavedCorrect` | `Spec => []SavedUnlessFailed` |
| | `BackedCorrect` | `Spec => []SyncedIsBacked` |
| | `DeletedCorrect` | `Spec => []DeletedStaysDeleted` |
| | `AckedCorrect` | `Spec => []AckedSurvives` |
| | `CopiesUnique` | one sync per item: `Spec => []DriveCopiesUnique` |
| | `AccountCorrect` | no caller asks for an account, any number of overlapping syncs: `Spec => []AccountHoldsCopy` |
| | `LedgerCorrect` | `Spec => LedgerSpec` |
| `StatePersistenceProofs` | `TypeCorrect` | `Spec => []TypeOK` |
| | `NeverTorn` | `Spec => []TargetNeverTorn` |
| | `FilesAreDurable` | `Spec => DurableSpec` |
| | `NothingReportedIsLost` | what was reported is durable, until the file is touched |
| | `NewerFileKept` | `Spec => KeepsNewerFile` |
| | `DamageIsRecovered` | `Spec => []StartsAgain` |
| | `BackupIsUsed` | `Spec => RecoveryUsesBackup` |
| `DriveUploadProofs` | `TypeCorrect` | `Spec => []TypeOK` |
| | `ContentCorrect` | one call at a time: `Spec => []VerifiedContent` |
| | `OneCopyCorrect` | one call at a time: `Spec => []OneCopy` |
| | `SessionKept` | one call at a time: `Spec => KeepsSession` |
| `VaultIndexProofs` | `TypeCorrect` | `Spec => []TypeOK` |
| | `DistinctCorrect` | one command at a time: `Spec => []NoDuplicates` |
| | `IntactCorrect` | one command at a time: `Spec => []IntactItems` |
| | `ItemsKept` | `Spec => NoLostItems` |
| | `CoversCorrect` | one command at a time, readable files, a folder the user leaves alone meanwhile: `Spec => RescanCovers` |
| `AuthSessionsProofs` | `TypeCorrect` | `Spec => []TypeInv` |
| | `HoldersDistinct` | `Spec => []OneHolder` |
| | `HeldLives` | `Spec => []HeldIsLive` |
| | `SpentRefused` | `Spec => EndedStaysEnded` |
| `ProviderPoolsProofs` | `SmallerIsTaken` | `Monotone(f, g, p, view)` for all files, pools and views |
| | `RoutesCorrect` | `Spec => []RoutesWithinWorkspace` |
| | `RefusedCorrect` | `Spec => []RefusedIsInert` |
| | `RoomCorrect` | `Spec => []RoomDecides` |
| | `IntentCorrect` | `Spec => IntentSpent` |
| `HostedUploadProofs` | `TypeCorrect` | `Spec => []TypeInv` |
| | `QueuedComplete` | `Spec => []QueuedIsComplete` |
| | `FileKept` | `Spec => []JobsKeepFile` |
| | `StagedMessage` | `Spec => []StagedMessageIsTrue` |
| | `SyncedStored` | `Spec => []SyncedIsStored` |
| | `CopiesCounted` | `Spec => []CopiesAccountedFor` |
| `DesktopWindowProofs` | `FlagsCorrect` | `Spec => []FlagsReset` |
| | `DisconnectCorrect` | `Spec => []DriveDisconnectHolds` |
| | `TokenCorrect` | `Spec => []DriveTokenMatches` |
| | `ShownCorrect` | `Spec => []ShowsCurrent` |
| | `TriesCorrect` | `Spec => []ImportTriesAll` |

The arguments:

* *Backed.* `SyncedIsBacked` is not inductive: a task in `check` or `finish` carries
  a remote id that will be written into the item. The invariant adds that this
  id names a copy of the task's provider and item, and that copies are never
  overwritten.
* *Deleted.* An id is born once, a deleted id is in neither list, and a finishing
  section writes only to an id it finds.
* *Acked.* A remote id that a sync wrote and saved is never replaced by `Nil`:
  `Syncing` keeps it, `Finished` replaces it only by another copy, and `saved` is
  always a value `items` had since.
* *Copies unique.* The command at work on an item must be the only one that names
  it (`SoleInv`). `SendDrive` then knows what `FindDrive` found: no copy of that
  content in that account, since nobody else stores one.
* *Account.* Any number of syncs may be at work on the item. The first start
  section that finds it without an account chooses one; every later one finds
  that account under the lock and keeps it, since none is asked for, and nothing
  ever takes it away but the item's end. So an item keeps the account it once had
  (`OwnerKept`), each sync past its start section carries the account of its item
  if the item is still there, and its copy, if it gets one, lies in that account
  (`UnaskedInv`). A crash returns to a saved list, but then no sync is at work.
* *Ledger.* One lemma per group of sections says which step of `ItemLedger` it is, or
  that it stutters, from what it does to one entry (`EntrySyncing`, `EntryFinished`,
  `EntryMissing`), to the lists (`SaveOne`), to the syncs that may be sending
  (`RunningMoves`: another task of the same item and provider may remain) and to
  what is held (`HeldGrows`). That an outcome with a remote id is of an item the
  provider holds is the invariant of *Backed*.
* *Durable.* While nothing was damaged, no newer release wrote and no start has
  misread the file, the target is
  absent or whole, `tmp` is the memory's version at `replace`, and memory is never
  older than the target; so `ReplaceFile` is a `Save`, `Return` a `Report`, and
  all else stutters. The properties are stated up to the first damage or misread
  file.
* *Content.* For the one call: the read position equals the offset it labels its
  chunks with, and the session has received no more than the end of the chunk the
  call is at, so that the offset `NextChunk` computes is that end and never the
  reply's. Two arguments keep the session there: when chunks are stored whole it
  has received at least what every request under way begins with; when no request
  is late the only one under way is the one the call waits for (`PromptInv`).
* *One copy, session kept.* While search shows every file and the URL is kept,
  only the session whose URL is kept gets chunks, and while it accepts them no
  file is stored; a session is begun only with no URL and no file. So a chunk
  completes the first file or none, and the URL is removed only when its session
  has completed or expired.
* *Recovery.* While no call failed the backup is a whole copy of an older state,
  until the save after a damage copies the damaged file over it; whenever the
  process is not saving, one of the two files can be read. A readable backup is
  never ahead of a readable state file nor of the memory that is about to replace
  it (`BackupInv`), and no file is ahead of the newest state, so what recovery
  loads is at least what the backup holds.
* *Distinct.* What a command has found is distinct and differs from every item,
  because all of it is among the checksums the command knows; the checksum under
  copy is not known. All of this is about the items no sync has rewritten: a
  rewritten one may hold any SHA-256 from then on, and never loses the mark.
* *Intact.* Beyond `Distinct`: an item still in the file but not in memory has a
  touched path, and the target of a copy belongs to no item whose file is in
  place. Deletion harms no other item because two items on one intact path would
  have one SHA-256. A sync's snapshot holds what the item records unless the path
  is touched, so that only items of touched paths are rewritten (`SyncInv`).
* *Covers.* A rescan works without the lock. Every file is still to be looked at,
  or has an item in the index or among what was found, or holds a content that
  the rescan knows; and a path that it takes for indexed still is, or its file is
  gone (`CoverInv`). At the end nothing is left to be looked at.
* *Holders, held and spent tokens.* The unique hash lets one `Create` succeed for
  a token, so a token has one place: an answer on its way or a client. Its row is
  live unless a request of its own client that is not answered yet revoked it.
  A token in `ended` has a row that is not live, and only memory, in the second
  of the token itself, makes such a row live again, and then it is no longer
  in `ended`.
* *Routing.* Priority and position order the entries of a pool strictly, so the
  first and the best entry of a set exist (a set of naturals has a least element,
  by the library's well-foundedness of the order). Removing a refused entry
  changes neither the accepted ones nor their order. The score grows with room
  by at least one point between accounts that are `Roomier`, and no priority
  makes up for it since the roomier one has no worse.
* *Workspace, intent.* The decision is made from a view of rows of the pool's
  workspace, and a row never changes its workspace. An exchanged intent is
  absent from the map and no fresh one has its identifier.
* *Queued, file, staged.* `EntryInv` and `PostInv` say what a post has, by its
  place: which rows, which jobs (those chosen and no longer `left`), and that
  only a refused post has lost its file. `PageInv` says that each accepted file
  of the page is one of those.
* *Stored, counted.* `CopyInv` counts: the copies of a job and the executions
  that may still make one were each given the job, and it was given once per
  failure and stall, and once more while it is active or done; the objects and
  the executions about to store one are together at most the copies. Each step moves an execution from one of these sets to another or
  adds to a count (cardinalities of finite sets).
* *Flags.* Each flag that is set has a function under way that will reset it:
  `busy` an import, `busyItem` a sync or the snapshot after a failed one, the flag
  of a card a command of that card whose card is still there. That a failed sync
  goes on, and that an import hands its flags from one sync to the next, keeps such
  a function; leaving the view takes the flags of the cards with them. A function
  that is mounted has no sync to go on with (`CardInv`), which is why the next sync
  of a loop never strands a card's flag.
* *Disconnected.* While the account counts as disconnected no sign-in is past its
  start, and nothing else links it: `EndCheck` looks the account up again.
* *Tokens.* While the cards were not left, the flag of the Drive card lets one of its
  commands run (`AloneInv`); only a connect or a disconnect at its last section may
  have written one of token and account without the other, and what it has written
  is known (`TokenInv`). A sync, a check or a toggle writes neither; the client is
  removed only without an account, and no sign-in relies on it meanwhile.
* *Shown.* Each answer with a snapshot is on its way once (`LineInv`). The last one
  on its way, or what is shown when there is none, is the state, or a function
  still owes a snapshot: a sync that has changed the item, the snapshot after a
  failed one, a sign-in that has saved its client (`CurrentInv`). An answer that
  comes in order leaves the last one in its place.
* *Tried.* A sync that is due is in the list of a function that goes on with it
  (`DueInv`); each continuation takes the head from both. It rests on `Plan` being a
  sequence at all: the order it chooses exists for every finite set of new files
  (`OrderExists`).

Only model-checked: liveness (`SyncingResolves`, `UploadReturns`, `QueuedArrives`,
`LoadingEnds`; the proof system has no rules for fairness and ENABLED that its
backends can use here). Every safety property that a passing run checks is also
proved.
No module uses RECURSIVE operators.

## 6. Not modelled

* Wording, sizes of fields, categories, file nesting and links; what window and
  page draw.
* OAuth (PKCE, loopback listener), token refresh inside the chunk loop, the
  numbers of a Drive quota in the desktop application: network input and output
  whose failures are error outcomes here.
* Empty files in `DriveUpload`, and remote files the user trashes or edits.
* Two instances of the desktop application: nothing in the code expects a second
  one. Several Drive accounts in the window: one stands for all, `ItemSync` has
  two.
* The deployment that keeps provider accounts and pools in memory; passwords,
  workspace access and the development bypass of `AccessTokenGuard`, which only
  refuse a request; the encryption of credentials; the health endpoints.
* Downloading and deleting provider objects, which nothing calls.
* BullMQ's and PostgreSQL's insides; the identity of jobs is as `upload.queue.ts`
  asks for it. A reply of Telegram without a document (`telegram-adapter.ts:108`).
* Build and release.

## 7. Plan

Done: state file, ledger, Drive upload, vault, connections and window, sign-in,
routing, hosted upload. What is left, in order:

1. Abstract specifications that `DriveUpload` ("a copy appears at most once") and
   `HostedUpload` ("a routed file is uploaded to each chosen account") implement,
   as `ItemSync` does `ItemLedger`.
2. `select_account` by remaining quota against a reference definition; empty and
   trashed files in `DriveUpload`.

The suite stays at a dozen runs that finish in a few minutes, so further modules
share the runs of finished ones where one instance can answer both questions.
