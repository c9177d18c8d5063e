---------------------------- MODULE DesktopWindow ----------------------------
(***************************************************************************)
(* The window of the desktop application (App.tsx): the snapshot it shows, *)
(* the flags that disable its buttons, and its async functions, cut at     *)
(* their awaits.  An import goes on to sync its new files, one provider of *)
(* one file after the other.  Commands run concurrently and the answers of *)
(* two of them may arrive in either order.  A connection card keeps its own*)
(* busy flag, which is lost when the user leaves the view.                 *)
(***************************************************************************)
EXTENDS DesktopCommands

CONSTANTS
  Starts,   \* states the application starts with: what load_state returned,
            \* with the tokens and the client that an earlier run left to them
  MaxCalls  \* bound: clicks and drops

ASSUME StartsAssumption == Starts \subseteq {c \in Core : "drive" \in c.linked => c.client}

VARIABLES
  shown,      \* the snapshot that is shown, Nil on the loading screen
  busy,       \* an import runs
  busyItem,   \* the item being synced
  view,       \* "cards" is the view of the connections
  cardBusy,   \* providers whose card is connecting or saving
  due,        \* history: syncs that an import has still to try
  overtaken,  \* history: an answer was shown after one that was taken later
  left,       \* history: the cards were left while one of their commands ran
  calls

windowVars == <<shown, busy, busyItem, view, cardBusy, due, overtaken, left, calls>>
vars == <<coreVars, windowVars>>

Idle == [fn |-> "idle", call |-> Nil, at |-> "idle", item |-> Nil, provider |-> Nil,
         ok |-> TRUE, snap |-> Nil, new |-> {}, todo |-> <<>>, on |-> FALSE, mounted |-> FALSE]

\* useEffect: the window calls refresh when it opens.
Init ==
  /\ core \in Starts /\ token = core.linked
  /\ \E t \in Tasks :
       task = [[s \in Tasks |-> Idle] EXCEPT
                 ![t] = [Idle EXCEPT !.fn = "refresh", !.call = "snapshot", !.at = "sent"]]
  /\ line = <<>> /\ missed = FALSE /\ gone = {} /\ faults = 0
  /\ shown = Nil /\ busy = FALSE /\ busyItem = Nil /\ view = "files" /\ cardBusy = {}
  /\ due = {} /\ overtaken = FALSE /\ left = FALSE /\ calls = 0

-----------------------------------------------------------------------------
(* What the user does, and where the window lets it.                        *)

\* The loading screen gives way to the views once there is a snapshot.
Opened == shown # Nil
FilesShown == Opened /\ view = "files"
CardsShown == Opened /\ view = "cards"

\* Disabled by the flag, but for the button of an empty vault.
ImportButton == FilesShown /\ (busy => Present(shown) = {})

RowButton(i, p) ==
  FilesShown /\ i \in Present(shown) /\ busyItem # i /\ shown.items[i][p] # "synced"

\* One flag disables what the Drive card has for its accounts and its client,
\* and hides the sign-in while it is set.
DriveButton == CardsShown /\ "drive" \notin cardBusy
DriveAccountRow == CardsShown /\ "drive" \in shown.linked

\* The Telegram card has a form until it is linked, and its panel then.
TelegramForm == CardsShown /\ "telegram" \notin shown.linked /\ "telegram" \notin cardBusy
TelegramPanel == CardsShown /\ "telegram" \in shown.linked

Start(t, fn, i, p, on, mounted) ==
  /\ task[t].at = "idle" /\ calls < MaxCalls /\ calls' = calls + 1
  /\ task' = [task EXCEPT ![t] = [Idle EXCEPT !.fn = fn, !.call = fn, !.at = "sent",
                 !.item = i, !.provider = p, !.on = on, !.mounted = mounted]]
  /\ UNCHANGED <<core, token, line, missed, gone, faults, shown, view, due, overtaken, left>>

\* A function of the files view, and one of a card without and with its flag.
StartOnFile(t, fn, i, p) ==
  Start(t, fn, i, p, FALSE, FALSE) /\ UNCHANGED <<busy, cardBusy>>

StartPlain(t, fn, p, on) ==
  Start(t, fn, Nil, p, on, FALSE) /\ UNCHANGED <<busy, busyItem, cardBusy>>

StartFlagged(t, fn, p, on) ==
  /\ Start(t, fn, Nil, p, on, TRUE)
  /\ cardBusy' = cardBusy \cup {p} /\ UNCHANGED <<busy, busyItem>>

\* importSelectedPaths, by the button or by a drop; a drop asks for no flag.
Import(t) ==
  Start(t, "import", Nil, Nil, FALSE, FALSE) /\ busy' = TRUE /\ UNCHANGED <<busyItem, cardBusy>>

PickFiles(t) == ImportButton /\ Import(t)
DropFiles(t) == Import(t)

ClickSync(t, i, p) ==
  /\ RowButton(i, p) /\ p \in shown.linked
  /\ StartOnFile(t, "sync", i, p) /\ busyItem' = i

ClickDelete(t, i) ==
  /\ FilesShown /\ i \in Present(shown)
  /\ StartOnFile(t, "delete", i, Nil) /\ UNCHANGED busyItem

ClickRescan(t) == CardsShown /\ StartPlain(t, "rescan", Nil, FALSE)

\* The form with the OAuth client is there until one is known; the other button
\* to add an account sends none.
DriveConnect(t) ==
  /\ DriveButton
  /\ \/ ~shown.client /\ StartFlagged(t, "connect", "drive", TRUE)
     \/ (shown.client \/ DriveAccountRow) /\ StartFlagged(t, "connect", "drive", FALSE)

DriveRefresh(t) == DriveButton /\ DriveAccountRow /\ StartFlagged(t, "check", "drive", FALSE)

(* Mutant: the button asks for no flag.                                     *)
DriveDisconnectUnguarded(t) ==
  DriveAccountRow /\ StartFlagged(t, "disconnect", "drive", FALSE)

DriveDisconnect(t) ==
  DriveButton /\ DriveAccountRow /\ StartFlagged(t, "disconnect", "drive", FALSE)

DriveToggle(t) == DriveAccountRow /\ StartPlain(t, "toggle", "drive", "drive" \notin shown.auto)

DriveClear(t) == DriveButton /\ shown.client /\ StartFlagged(t, "clear", "drive", FALSE)

TelegramConnect(t) == TelegramForm /\ StartFlagged(t, "connect", "telegram", FALSE)

TelegramTest(t) ==
  /\ TelegramPanel /\ "telegram" \notin cardBusy
  /\ StartFlagged(t, "check", "telegram", FALSE)

\* This button is neither disabled nor sets the flag.
TelegramDisconnect(t) == TelegramPanel /\ StartPlain(t, "disconnect", "telegram", FALSE)

\* The card keeps a copy of the switch, set ahead of the answer: while two
\* toggles overlap it may be either.
TelegramToggle(t) ==
  TelegramPanel /\ \E on \in BOOLEAN : StartPlain(t, "toggle", "telegram", on)

(* Mutant: the flags outlive the cards that would reset them.               *)
ChangeViewKeepsFlags ==
  /\ shown # Nil
  /\ view' = (IF view = "cards" THEN "files" ELSE "cards")
  /\ task' = [t \in Tasks |-> [task[t] EXCEPT !.mounted = FALSE]]
  /\ left' = (left \/ \E t \in Tasks : task[t].call \in Linking)
  /\ UNCHANGED <<core, token, line, missed, gone, faults, shown, busy, busyItem, cardBusy, due,
                 overtaken, calls>>

\* By the sidebar, or by a sync button of a provider that is not linked.  Leaving
\* the view unmounts its cards: what they wait for goes on without them.
ChangeView ==
  /\ shown # Nil
  /\ view' = (IF view = "cards" THEN "files" ELSE "cards")
  /\ cardBusy' = {}
  /\ task' = [t \in Tasks |-> [task[t] EXCEPT !.mounted = FALSE]]
  /\ left' = (left \/ \E t \in Tasks : task[t].call \in Linking)
  /\ UNCHANGED <<core, token, line, missed, gone, faults, shown, busy, busyItem, due,
                 overtaken, calls>>

-----------------------------------------------------------------------------
(* The continuations.                                                       *)

\* Drive first, for each new file whose provider the snapshot has linked and on.
Plan(snap, new) ==
  LET on(p) == p \in snap.linked \cap snap.auto
      pairs(S) == {<<i, p>> : i \in S, p \in Provider}
      before(x, y) == x[1] = y[1] /\ x[2] = "drive" /\ y[2] = "telegram"
      wanted == {x \in pairs(new) : on(x[2])} IN
  CHOOSE s \in [1 .. Cardinality(wanted) -> wanted] :
    /\ \A m, n \in DOMAIN s : m # n => s[m] # s[n]
    /\ \A m, n \in DOMAIN s : before(s[m], s[n]) => n = m + 1

\* The next sync of the loop, or the end of the function and its flags.
Continue(t, todo) ==
  IF todo = <<>>
  THEN /\ task' = [task EXCEPT ![t] = Idle]
       /\ busyItem' = (IF task[t].call \in {"sync", "snapshot"} /\ task[t].fn # "refresh"
                      THEN Nil ELSE busyItem)
       /\ busy' = (IF task[t].fn = "import" THEN FALSE ELSE busy)
       /\ cardBusy' = (IF task[t].mounted THEN cardBusy \ {task[t].provider} ELSE cardBusy)
  ELSE /\ task' = [task EXCEPT ![t] =
                     [Idle EXCEPT !.fn = "import", !.call = "sync", !.at = "sent",
                        !.item = Head(todo)[1], !.provider = Head(todo)[2], !.todo = Tail(todo)]]
       /\ busyItem' = Head(todo)[1]
       /\ UNCHANGED <<busy, cardBusy>>

\* An answer with a snapshot: it is shown, whatever was shown since it was taken.
Show(t) ==
  /\ shown' = task[t].snap
  /\ \E n \in DOMAIN line :
       /\ line[n] = t
       /\ line' = SubSeq(line, 1, n - 1) \o SubSeq(line, n + 1, Len(line))
       /\ overtaken' = (overtaken \/ n # 1)

Answer(t) ==
  LET plan == Plan(task[t].snap, task[t].new)
      todo == IF task[t].call = "import" THEN plan ELSE task[t].todo IN
  /\ task[t].at = "answered" /\ task[t].ok
  /\ Show(t)
  /\ Continue(t, todo)
  /\ due' = (IF task[t].call = "import" THEN due \cup {plan[n] : n \in DOMAIN plan} ELSE due)
               \ (IF todo = <<>> THEN {} ELSE {Head(todo)})
  /\ UNCHANGED <<core, token, missed, gone, faults, view, left, calls>>

(* Mutant: a failed sync ends its function like any other error.            *)
AnswerErrorEnds(t) ==
  /\ task[t].at = "answered" /\ ~task[t].ok
  /\ Continue(t, <<>>)
  /\ UNCHANGED <<core, token, line, missed, gone, faults, shown, view, due, overtaken, left, calls>>

(* Mutant: the first sync that fails breaks off the loop of the import.      *)
AnswerErrorBreaks(t) ==
  /\ task[t].at = "answered" /\ ~task[t].ok
  /\ IF task[t].call = "sync"
     THEN /\ task' = [task EXCEPT ![t] =
                        [@ EXCEPT !.call = "snapshot", !.at = "sent", !.todo = <<>>]]
          /\ UNCHANGED <<busy, busyItem, cardBusy>>
     ELSE Continue(t, <<>>)
  /\ UNCHANGED <<core, token, line, missed, gone, faults, shown, view, due, overtaken, left, calls>>

\* The catch of a sync takes a new snapshot; every other only shows the error.
AnswerError(t) ==
  /\ task[t].at = "answered" /\ ~task[t].ok
  /\ IF task[t].call = "sync"
     THEN /\ task' = [task EXCEPT ![t].call = "snapshot", ![t].at = "sent"]
          /\ UNCHANGED <<busy, busyItem, cardBusy>>
     ELSE Continue(t, <<>>)
  /\ UNCHANGED <<core, token, line, missed, gone, faults, shown, view, due, overtaken, left, calls>>

Click(t) ==
  \/ PickFiles(t) \/ DropFiles(t) \/ ClickRescan(t)
  \/ \E i \in Items : ClickDelete(t, i) \/ \E p \in Provider : ClickSync(t, i, p)
  \/ DriveConnect(t) \/ DriveRefresh(t) \/ DriveDisconnect(t) \/ DriveToggle(t) \/ DriveClear(t)
  \/ TelegramConnect(t) \/ TelegramTest(t) \/ TelegramDisconnect(t) \/ TelegramToggle(t)

Step(t) == (Execute(t) /\ UNCHANGED windowVars) \/ Answer(t) \/ AnswerError(t)

Next == ChangeView \/ \E t \in Tasks : Click(t) \/ Step(t)

Spec == Init /\ [][Next]_vars

-----------------------------------------------------------------------------
Task ==
  [fn : {"idle", "refresh"} \cup Call, call : Call \cup {Nil},
   at : {"idle", "sent", "upload", "network", "store", "answered"},
   item : Items \cup {Nil}, provider : Provider \cup {Nil}, ok : BOOLEAN,
   snap : Core \cup {Nil}, new : SUBSET Items, todo : Seq(Items \X Provider), on : BOOLEAN,
   mounted : BOOLEAN]

TypeOK ==
  /\ core \in Core /\ shown \in Core \cup {Nil}
  /\ task \in [Tasks -> Task] /\ line \in Seq(Tasks)
  /\ token \subseteq Provider /\ gone \subseteq Provider /\ cardBusy \subseteq Provider
  /\ due \subseteq Items \X Provider
  /\ {missed, busy, overtaken, left} \subseteq BOOLEAN
  /\ busyItem \in Items \cup {Nil} /\ view \in {"files", "cards"}
  /\ faults \in Nat /\ calls \in Nat

Quiet == \A t \in Tasks : task[t].at = "idle"

(* When nothing runs any more the window shows the state as it is, whatever *)
(* overlapped: a failed sync, too, brings a new snapshot.  The exceptions   *)
(* are an answer that arrived after one that was taken later, and a failed  *)
(* save of another command, whose change nobody asks for.                   *)
ShowsCurrent == Quiet /\ ~overtaken /\ ~missed => shown = core

(* As long as the cards are not left meanwhile their flag keeps the commands*)
(* on Google Drive apart, so that an account has its token and its OAuth    *)
(* client, and a token an account, although connect and disconnect write the*)
(* two in the same order, token first (drive.rs:1040).                      *)
DriveTokenMatches ==
  ~left /\ Quiet =>
    /\ "drive" \in core.linked <=> "drive" \in token
    /\ "drive" \in core.linked => core.client

(* An import has tried every sync that the settings of its answer asked for,*)
(* whatever became of the syncs before it and of the items meanwhile.       *)
ImportTriesAll == Quiet => due = {}

(* No failure, no overlap and no unmounted card leaves a flag set: what it  *)
(* disables would stay disabled.                                            *)
FlagsReset == Quiet => ~busy /\ busyItem = Nil /\ cardBusy = {}

(* A Google Drive account that was disconnected stays so until the user     *)
(* connects again, whatever was on its way, even for a card that is gone    *)
(* (PRIVACY.md:36); a Telegram chat does not: test_telegram asks nothing    *)
(* again before it sets connected (lib.rs:1098).                            *)
DriveDisconnectHolds == "drive" \in gone => "drive" \notin core.linked
=============================================================================
