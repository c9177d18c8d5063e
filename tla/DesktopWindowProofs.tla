------------------------- MODULE DesktopWindowProofs -------------------------
(***************************************************************************)
(* A Google Drive account that was disconnected stays disconnected and has *)
(* its token and client or none; no flag of the window outlives the        *)
(* functions that set it; what is shown in the end is the state as it is;  *)
(* and an import tries all it planned: for any finite set of files, and any*)
(* number of overlapping functions, clicks and failures.                   *)
(***************************************************************************)
EXTENDS DesktopWindow, FiniteSetTheorems, TLAPS

Fields == {"fn", "call", "at", "item", "provider", "ok", "snap", "new", "todo", "on", "mounted"}

\* What the steps need of the types: the fields that they change are there.
CoreShape == \E a, b, c, d : core = [items |-> a, linked |-> b, auto |-> c, client |-> d]
TaskShape ==
  /\ task = [t \in Tasks |-> task[t]]
  /\ \A t \in Tasks : task[t] = [f \in Fields |-> task[t][f]]

\* A sign-in of this function has begun and may still link the account.
SigningIn(r) == r.call = "connect" /\ r.provider = "drive" /\ r.at \in {"network", "store"}

DisconnectInv ==
  "drive" \in gone =>
    "drive" \notin core.linked /\ \A t \in Tasks : ~SigningIn(task[t])

\* Each flag has a function that will reset it.
Importing(r) == r.at # "idle" /\ r.fn = "import"
Syncing(r) == r.at # "idle" /\ r.call \in {"sync", "snapshot"} /\ r.fn # "refresh"
Waiting(r, p) == r.at # "idle" /\ r.mounted /\ r.provider = p

\* Only a command of a card has one, and no card has more to do than that.
CardInv == \A t \in Tasks : task[t].mounted => task[t].call \in Linking /\ task[t].todo = <<>>

FlagInv ==
  /\ busy => \E t \in Tasks : Importing(task[t])
  /\ busyItem # Nil => \E t \in Tasks : Syncing(task[t])
  /\ \A p \in cardBusy : \E t \in Tasks : Waiting(task[t], p)

Inv == CoreShape /\ TaskShape /\ DisconnectInv /\ CardInv /\ FlagInv

-----------------------------------------------------------------------------
(* The commands.                                                            *)

\* A command of t moves on: nothing of it but its place and its answer changes.
Moved(t) ==
  /\ TaskShape'
  /\ \A s \in Tasks \ {t} : task'[s] = task[s]
  /\ task'[t].at # "idle"
  /\ \A f \in {"fn", "call", "item", "provider", "todo", "on", "mounted"} : task'[t][f] = task[t][f]

\* Placing t elsewhere, with or without an answer.
Places(t, at, ok, snap, new) ==
  {[task EXCEPT ![t].at = at],
   [task EXCEPT ![t].at = at, ![t].ok = ok],
   [task EXCEPT ![t].at = at, ![t].ok = ok, ![t].snap = snap, ![t].new = new]}

LEMMA Placed ==
  ASSUME TaskShape, NEW t \in Tasks, NEW at, at # "idle", NEW ok, NEW snap, NEW new,
         task' \in Places(t, at, ok, snap, new)
  PROVE  Moved(t) /\ task'[t].at = at
<1>1. task[t] = [f \in Fields |-> task[t][f]] /\ task = [s \in Tasks |-> task[s]]
  BY DEF TaskShape
<1> DEFINE r == task[t]
           new1 == [r EXCEPT !.at = at]
           new2 == [new1 EXCEPT !.ok = ok]
           new3 == [[new2 EXCEPT !.snap = snap] EXCEPT !.new = new]
<1>2. \E q \in {new1, new2, new3} : task' = [s \in Tasks |-> IF s = t THEN q ELSE task[s]]
  BY <1>1 DEF Places
<1> DEFINE Kept(q) ==
             /\ q = [f \in Fields |-> q[f]] /\ q.at = at
             /\ \A f \in {"fn", "call", "item", "provider", "todo", "on", "mounted"} : q[f] = r[f]
<1>3. \A q \in {new1, new2, new3} : Kept(q)
  <2>1. Kept(new1)
    BY <1>1 DEF Fields
  <2>2. \A q, f, v : Kept(q) /\ f \in {"ok", "snap", "new"} => Kept([q EXCEPT ![f] = v])
    <3> SUFFICES ASSUME NEW q, NEW f \in {"ok", "snap", "new"}, NEW v, Kept(q)
                 PROVE Kept([q EXCEPT ![f] = v])
      OBVIOUS
    <3> HIDE DEF r
    <3> QED
      BY DEF Fields
  <2> HIDE DEF Kept, new1
  <2>3. Kept(new2)
    BY <2>1, <2>2
  <2>4. Kept(new3)
    <3> HIDE DEF new2
    <3>1. Kept([new2 EXCEPT !.snap = snap])
      BY <2>2, <2>3
    <3> QED
      BY <2>2, <3>1
  <2> QED
    BY <2>1, <2>3, <2>4
<1>4. PICK q : /\ task' = [s \in Tasks |-> IF s = t THEN q ELSE task[s]]
               /\ q = [f \in Fields |-> q[f]] /\ q.at = at
               /\ \A f \in {"fn", "call", "item", "provider", "todo", "on", "mounted"} : q[f] = r[f]
  BY <1>2, <1>3
<1>5. task'[t] = q /\ \A s \in Tasks \ {t} : task'[s] = task[s]
  BY <1>4
<1>6. TaskShape'
  <2>1. task' = [s \in Tasks |-> task'[s]]
    BY <1>4
  <2>2. ASSUME NEW s \in Tasks PROVE task'[s] = [f \in Fields |-> task'[s][f]]
    BY <1>4, <1>5 DEF TaskShape
  <2> QED
    BY <2>1, <2>2 DEF TaskShape
<1> QED
  BY <1>4, <1>5, <1>6 DEF Moved

LEMMA Answered ==
  ASSUME TaskShape, NEW t \in Tasks, NEW c, NEW new,
         Refuse(t) \/ Reply(t, c, new) \/ Store(t, c, new)
         \/ task' = [task EXCEPT ![t].at = "answered", ![t].ok = FALSE]
  PROVE  Moved(t) /\ task'[t].at = "answered"
<1>1. \/ task' \in Places(t, "answered", FALSE, c, new)
      \/ task' \in Places(t, "answered", TRUE, c, new)
  BY DEF Refuse, Reply, Store, Places
<1> QED
  BY <1>1, Placed

LEMMA Went ==
  ASSUME TaskShape, NEW t \in Tasks, NEW at, at # "idle", Goto(t, at)
  PROVE  Moved(t) /\ task'[t].at = at
<1>1. task' \in Places(t, at, TRUE, Nil, {})
  BY DEF Goto, Places
<1> QED
  BY <1>1, Placed

\* Where the commands lead: those that link an account go on to do so.
LEMMA CommandMoves ==
  ASSUME TaskShape, NEW t \in Tasks, Execute(t)
  PROVE  /\ Moved(t)
         /\ task[t].call = "connect" /\ task'[t].at \in {"network", "store"}
              => BeginConnect(t) \/ SaveToken(t)
<1>1. CASE Snapshot(t)
  BY <1>1, Answered DEF Snapshot
<1>2. CASE AddItems(t)
  BY <1>2, Answered DEF AddItems
<1>3. CASE DeleteItem(t)
  BY <1>3, Answered DEF DeleteItem
<1>4. CASE BeginSync(t)
  BY <1>4, Answered, Went DEF BeginSync, At
<1>5. CASE EndSync(t)
  BY <1>5, Answered DEF EndSync
<1>6. CASE BeginConnect(t)
  BY <1>6, Answered, Went DEF BeginConnect
<1>7. CASE SaveToken(t)
  BY <1>7, Answered, Went DEF SaveToken
<1>8. CASE Connected(t)
  BY <1>8, Answered DEF Connected
<1>9. CASE BeginCheck(t)
  BY <1>9, Answered, Went DEF BeginCheck, At
<1>10. CASE EndCheck(t)
  BY <1>10, Answered DEF EndCheck
<1>11. CASE DeleteToken(t)
  BY <1>11, Answered, Went DEF DeleteToken, At
<1>12. CASE Disconnected(t)
  BY <1>12, Answered DEF Disconnected
<1>13. CASE SetAutoSync(t)
  BY <1>13, Answered DEF SetAutoSync
<1>14. CASE ClearClient(t)
  BY <1>14, Answered DEF ClearClient
<1> QED
  BY <1>1, <1>2, <1>3, <1>4, <1>5, <1>6, <1>7, <1>8, <1>9, <1>10, <1>11, <1>12, <1>13, <1>14
  DEF Execute

\* A saved state is the one given to Store, whatever becomes of the answer.
LEMMA Stored ==
  ASSUME NEW t, NEW c, NEW new, Store(t, c, new)
  PROVE  core' = c
BY DEF Store

\* Only a sign-in that comes to its end links an account.
LEMMA CommandLinks ==
  ASSUME CoreShape, TaskShape, NEW t \in Tasks, Execute(t)
  PROVE  /\ CoreShape'
         /\ "drive" \in core'.linked => "drive" \in core.linked \/ SigningIn(task[t])
<1>1. CASE Snapshot(t)
  BY <1>1 DEF Snapshot, CoreShape
<1>2. CASE AddItems(t)
  <2>1. core' = core \/ \E new : core' = [core EXCEPT !.items = [i \in Items |-> IF i \in new THEN NewItem ELSE @[i]]]
    BY <1>2, Stored DEF AddItems, Refuse
  <2> QED
    BY <2>1 DEF CoreShape
<1>3. CASE DeleteItem(t)
  <2>1. core' = core \/ core' = [core EXCEPT !.items[task[t].item] = Nil]
    BY <1>3, Stored DEF DeleteItem, Refuse
  <2> QED
    BY <2>1 DEF CoreShape
<1>4. CASE BeginSync(t)
  <2>1. core' = core \/ core' = Marked(t, "syncing")
    BY <1>4 DEF BeginSync, Refuse
  <2> QED
    BY <2>1 DEF CoreShape, Marked
<1>5. CASE EndSync(t)
  <2>1. core' = core \/ \E state : core' = Marked(t, state)
    BY <1>5, Stored DEF EndSync, Refuse
  <2> QED
    BY <2>1 DEF CoreShape, Marked
<1>6. CASE BeginConnect(t)
  BY <1>6 DEF BeginConnect, Refuse, CoreShape
<1>7. CASE SaveToken(t)
  <2>1. core' = core \/ core' = [core EXCEPT !.client = @ \/ (task[t].provider = "drive" /\ task[t].on)]
    BY <1>7 DEF SaveToken
  <2> QED
    BY <2>1 DEF CoreShape
<1>8. CASE Connected(t)
  <2> DEFINE p == task[t].provider
  <2>1. \E a : core' = [core EXCEPT !.linked = @ \cup {p}, !.auto = a]
    BY <1>8, Stored DEF Connected
  <2>2. task[t].call = "connect" /\ task[t].at = "store"
    BY <1>8 DEF Connected, At
  <2>3. CoreShape' /\ core'.linked = core.linked \cup {p}
    BY <2>1 DEF CoreShape
  <2>4. "drive" \in core'.linked => "drive" \in core.linked \/ p = "drive"
    BY <2>3
  <2>5. p = "drive" => SigningIn(task[t])
    BY <2>2 DEF SigningIn
  <2> QED
    BY <2>3, <2>4, <2>5
<1>9. CASE BeginCheck(t)
  BY <1>9 DEF BeginCheck, Refuse, CoreShape
<1>10. CASE EndCheck(t)
  <2> DEFINE p == task[t].provider
  <2>1. \/ core' = core
        \/ (p = "telegram" \/ p \in core.linked) /\ core' = [core EXCEPT !.linked = @ \cup {p}]
    BY <1>10, Stored DEF EndCheck, Refuse
  <2> QED
    BY <2>1 DEF CoreShape
<1>11. CASE DeleteToken(t)
  BY <1>11 DEF DeleteToken, Refuse, CoreShape
<1>12. CASE Disconnected(t)
  <2>1. core' = Unlinked(task[t].provider)
    BY <1>12, Stored DEF Disconnected
  <2> QED
    BY <2>1 DEF CoreShape, Unlinked
<1>13. CASE SetAutoSync(t)
  <2>1. core' = core \/ \E a : core' = [core EXCEPT !.auto = a]
    BY <1>13, Stored DEF SetAutoSync, Refuse
  <2> QED
    BY <2>1 DEF CoreShape
<1>14. CASE ClearClient(t)
  <2>1. core' = core \/ core' = [core EXCEPT !.client = FALSE]
    BY <1>14 DEF ClearClient, Refuse
  <2> QED
    BY <2>1 DEF CoreShape
<1> QED
  BY <1>1, <1>2, <1>3, <1>4, <1>5, <1>6, <1>7, <1>8, <1>9, <1>10, <1>11, <1>12, <1>13, <1>14
  DEF Execute

LEMMA CommandKeeps ==
  ASSUME Inv, NEW t \in Tasks, Execute(t), UNCHANGED windowVars
  PROVE  Inv'
<1>1. Moved(t) /\ CoreShape'
  BY CommandMoves, CommandLinks DEF Inv
<1>2. ASSUME "drive" \in gone'
      PROVE  "drive" \notin core'.linked /\ \A s \in Tasks : ~SigningIn(task'[s])
  <2>1. CASE "drive" \in gone
    <3>1. "drive" \notin core.linked /\ \A s \in Tasks : ~SigningIn(task[s])
      BY <2>1 DEF Inv, DisconnectInv
    <3>2. ~SigningIn(task'[t])
      <4>1. SUFFICES ASSUME SigningIn(task'[t]) PROVE FALSE
        OBVIOUS
      <4>2. /\ task[t].call = "connect" /\ task[t].provider = "drive"
            /\ task'[t].at \in {"network", "store"}
        BY <1>1, <4>1 DEF Moved, SigningIn
      <4>3. CASE BeginConnect(t)
        BY <1>2, <4>2, <4>3 DEF BeginConnect
      <4>4. CASE SaveToken(t)
        BY <3>1, <4>2, <4>4 DEF SaveToken, At, SigningIn
      <4> QED
        BY <4>2, <4>3, <4>4, CommandMoves DEF Inv
    <3> QED
      BY <1>1, <3>1, <3>2, CommandLinks DEF Inv, Moved
  <2>2. CASE "drive" \notin gone
    <3>1. Disconnected(t)
      BY <1>2, <2>2 DEF Execute, Snapshot, AddItems, DeleteItem, BeginSync, EndSync, BeginConnect,
         SaveToken, Connected, BeginCheck, EndCheck, DeleteToken, SetAutoSync, ClearClient
    <3>2. task[t].provider = "drive" /\ ~Connecting("drive")
      BY <1>2, <2>2, <3>1 DEF Disconnected
    <3>3. \A s \in Tasks : ~SigningIn(task[s])
      BY <3>2 DEF Connecting, At, SigningIn
    <3>4. "drive" \notin core'.linked
      <4>1. core' = Unlinked("drive")
        BY <3>1, <3>2, Stored DEF Disconnected
      <4> QED
        BY <4>1 DEF Unlinked, CoreShape, Inv
    <3>5. ~SigningIn(task'[t])
      BY <1>1, <3>1 DEF Moved, SigningIn, Disconnected, At
    <3> QED
      BY <1>1, <3>3, <3>4, <3>5 DEF Moved
  <2> QED
    BY <2>1, <2>2
<1>3. DisconnectInv'
  BY <1>2 DEF DisconnectInv
<1>4. \A s \in Tasks :
        /\ Importing(task[s]) => Importing(task'[s])
        /\ Syncing(task[s]) => Syncing(task'[s])
        /\ \A p : Waiting(task[s], p) => Waiting(task'[s], p)
        /\ task'[s].mounted = task[s].mounted /\ task'[s].call = task[s].call
        /\ task'[s].todo = task[s].todo
  <2> SUFFICES ASSUME NEW s \in Tasks
               PROVE  /\ Importing(task[s]) => Importing(task'[s])
                      /\ Syncing(task[s]) => Syncing(task'[s])
                      /\ \A p : Waiting(task[s], p) => Waiting(task'[s], p)
                      /\ task'[s].mounted = task[s].mounted /\ task'[s].call = task[s].call
                      /\ task'[s].todo = task[s].todo
    OBVIOUS
  <2>1. CASE s = t
    BY <1>1, <2>1 DEF Moved, Importing, Syncing, Waiting
  <2>2. CASE s # t
    BY <1>1, <2>2 DEF Moved
  <2> QED
    BY <2>1, <2>2
<1>5. CardInv'
  BY <1>4 DEF Inv, CardInv
<1>6. FlagInv'
  BY <1>4 DEF Inv, FlagInv, windowVars
<1> QED
  BY <1>1, <1>3, <1>5, <1>6 DEF Inv, Moved

-----------------------------------------------------------------------------
(* The window.                                                              *)

LEMMA Replaced ==
  ASSUME TaskShape, NEW t \in Tasks, NEW r, r = [f \in Fields |-> r[f]],
         task' = [task EXCEPT ![t] = r]
  PROVE  TaskShape' /\ task'[t] = r /\ \A s \in Tasks \ {t} : task'[s] = task[s]
<1>1. task' = [s \in Tasks |-> IF s = t THEN r ELSE task[s]]
  BY DEF TaskShape
<1>2. task' = [s \in Tasks |-> task'[s]]
  BY <1>1
<1>3. ASSUME NEW s \in Tasks PROVE task'[s] = [f \in Fields |-> task'[s][f]]
  BY <1>1 DEF TaskShape
<1> QED
  BY <1>1, <1>2, <1>3 DEF TaskShape

LEMMA Started ==
  ASSUME TaskShape, NEW t \in Tasks, NEW fn, NEW i, NEW p, NEW on, NEW mounted,
         Start(t, fn, i, p, on, mounted)
  PROVE  /\ TaskShape' /\ \A s \in Tasks \ {t} : task'[s] = task[s]
         /\ task[t].at = "idle" /\ task'[t].at = "sent"
         /\ task'[t].fn = fn /\ task'[t].call = fn /\ task'[t].provider = p
         /\ task'[t].mounted = mounted /\ task'[t].todo = <<>>
         /\ task'[t].ok = TRUE /\ task'[t].new = {}
         /\ UNCHANGED <<core, token, line, missed, gone, faults, shown, view, due, overtaken, left>>
<1> DEFINE r == [Idle EXCEPT !.fn = fn, !.call = fn, !.at = "sent",
                   !.item = i, !.provider = p, !.on = on, !.mounted = mounted]
<1>1. r = [f \in Fields |-> r[f]] /\ r.at = "sent" /\ r.fn = fn /\ r.call = fn
      /\ r.provider = p /\ r.mounted = mounted /\ r.todo = <<>> /\ r.ok = TRUE /\ r.new = {}
  BY DEF Idle, Fields
<1>2. task' = [task EXCEPT ![t] = r]
  BY DEF Start
<1> HIDE DEF r
<1>3. TaskShape' /\ task'[t] = r /\ \A s \in Tasks \ {t} : task'[s] = task[s]
  BY <1>1, <1>2, Replaced
<1> QED
  BY <1>1, <1>3 DEF Start

\* A function that raises a flag is the one that will reset it.
LEMMA StartKeeps ==
  ASSUME Inv, NEW t \in Tasks, NEW fn, NEW i, NEW p, NEW on, NEW mounted \in BOOLEAN,
         Start(t, fn, i, p, on, mounted), mounted => fn \in Linking,
         busy' => busy \/ fn = "import",
         busyItem' # Nil => busyItem # Nil \/ fn = "sync",
         \A q \in cardBusy' : q \in cardBusy \/ (mounted /\ q = p)
  PROVE  Inv'
<1>1. /\ TaskShape' /\ \A s \in Tasks \ {t} : task'[s] = task[s]
      /\ task[t].at = "idle" /\ task'[t].at = "sent"
      /\ task'[t].fn = fn /\ task'[t].call = fn /\ task'[t].provider = p
      /\ task'[t].mounted = mounted /\ task'[t].todo = <<>>
      /\ core' = core /\ gone' = gone
  BY Started DEF Inv
<1>2. DisconnectInv'
  <2>1. ASSUME NEW s \in Tasks, SigningIn(task'[s]) PROVE SigningIn(task[s])
    BY <1>1, <2>1 DEF SigningIn
  <2> QED
    BY <1>1, <2>1 DEF Inv, DisconnectInv
<1>3. CardInv'
  <2>1. ASSUME NEW s \in Tasks, task'[s].mounted
        PROVE  task'[s].call \in Linking /\ task'[s].todo = <<>>
    BY <1>1, <2>1 DEF Inv, CardInv
  <2> QED
    BY <2>1 DEF CardInv
<1>4. FlagInv'
  <2>1. ASSUME busy' PROVE \E s \in Tasks : Importing(task'[s])
    BY <1>1, <2>1 DEF Inv, FlagInv, Importing
  <2>2. ASSUME busyItem' # Nil PROVE \E s \in Tasks : Syncing(task'[s])
    BY <1>1, <2>2 DEF Inv, FlagInv, Syncing
  <2>3. ASSUME NEW q \in cardBusy' PROVE \E s \in Tasks : Waiting(task'[s], q)
    <3>1. CASE q \in cardBusy
      <4>1. PICK s \in Tasks : Waiting(task[s], q)
        BY <3>1 DEF Inv, FlagInv
      <4>2. s # t
        BY <1>1, <4>1 DEF Waiting
      <4> QED
        BY <1>1, <4>1, <4>2
    <3>2. CASE mounted /\ q = p
      BY <1>1, <3>2 DEF Waiting
    <3> QED
      BY <3>1, <3>2
  <2> QED
    BY <2>1, <2>2, <2>3 DEF FlagInv
<1>5. CoreShape'
  BY <1>1 DEF Inv, CoreShape
<1> QED
  BY <1>1, <1>2, <1>3, <1>4, <1>5 DEF Inv

LEMMA PlainKeeps ==
  ASSUME Inv, NEW t \in Tasks, NEW fn, NEW p, NEW on, StartPlain(t, fn, p, on)
  PROVE  Inv'
BY StartKeeps DEF StartPlain

LEMMA FlaggedKeeps ==
  ASSUME Inv, NEW t \in Tasks, NEW fn \in Linking, NEW p, NEW on, StartFlagged(t, fn, p, on)
  PROVE  Inv'
BY StartKeeps DEF StartFlagged

LEMMA ClickKeeps ==
  ASSUME Inv, NEW t \in Tasks, Click(t)
  PROVE  Inv'
<1>1. CASE PickFiles(t) \/ DropFiles(t)
  BY <1>1, StartKeeps DEF PickFiles, DropFiles, Import
<1>2. CASE ClickRescan(t)
  BY <1>2, PlainKeeps DEF ClickRescan
<1>3. ASSUME NEW i \in Items, ClickDelete(t, i) PROVE Inv'
  BY <1>3, StartKeeps DEF ClickDelete, StartOnFile
<1>4. ASSUME NEW i \in Items, NEW p \in Provider, ClickSync(t, i, p) PROVE Inv'
  BY <1>4, StartKeeps DEF ClickSync, StartOnFile
<1>5. CASE DriveConnect(t)
  BY <1>5, FlaggedKeeps DEF DriveConnect, Linking
<1>6. CASE DriveRefresh(t) \/ DriveDisconnect(t) \/ DriveClear(t)
  BY <1>6, FlaggedKeeps DEF DriveRefresh, DriveDisconnect, DriveClear, Linking
<1>7. CASE DriveToggle(t)
  BY <1>7, PlainKeeps DEF DriveToggle
<1>8. CASE TelegramConnect(t) \/ TelegramTest(t)
  BY <1>8, FlaggedKeeps DEF TelegramConnect, TelegramTest, Linking
<1>9. CASE TelegramDisconnect(t) \/ TelegramToggle(t)
  BY <1>9, PlainKeeps DEF TelegramDisconnect, TelegramToggle
<1> QED
  BY <1>1, <1>2, <1>3, <1>4, <1>5, <1>6, <1>7, <1>8, <1>9 DEF Click

\* The next sync of an import carries its flags on; the end of a function resets its own.
LEMMA ContinueKeeps ==
  ASSUME Inv, NEW t \in Tasks, task[t].at # "idle", NEW todo, Continue(t, todo),
         task[t].mounted => todo = <<>>, UNCHANGED <<core, gone>>
  PROVE  Inv'
<1>1. CoreShape'
  BY DEF Inv, CoreShape
<1>2. CASE todo = <<>>
  <2>1. /\ task' = [task EXCEPT ![t] = Idle]
        /\ Syncing(task[t]) => busyItem' = Nil
        /\ Importing(task[t]) => ~busy'
        /\ task[t].mounted => cardBusy' = cardBusy \ {task[t].provider}
        /\ cardBusy' \subseteq cardBusy /\ (busy' => busy)
        /\ (busyItem' # Nil => busyItem # Nil)
    BY <1>2 DEF Continue, Syncing, Importing
  <2>2. Idle = [f \in Fields |-> Idle[f]] /\ Idle.at = "idle" /\ ~Idle.mounted
    BY DEF Idle, Fields
  <2>3. TaskShape' /\ task'[t] = Idle /\ \A s \in Tasks \ {t} : task'[s] = task[s]
    BY <2>1, <2>2, Replaced DEF Inv
  <2>4. DisconnectInv'
    <3>1. ASSUME NEW s \in Tasks, SigningIn(task'[s]) PROVE SigningIn(task[s])
      BY <2>2, <2>3, <3>1 DEF SigningIn
    <3> QED
      BY <3>1 DEF Inv, DisconnectInv
  <2>5. CardInv'
    <3>1. ASSUME NEW s \in Tasks, task'[s].mounted
          PROVE  task'[s].call \in Linking /\ task'[s].todo = <<>>
      BY <2>2, <2>3, <3>1 DEF Inv, CardInv
    <3> QED
      BY <3>1 DEF CardInv
  <2>6. FlagInv'
    <3>1. ASSUME busy' PROVE \E s \in Tasks : Importing(task'[s])
      BY <2>1, <2>3, <3>1 DEF Inv, FlagInv
    <3>2. ASSUME busyItem' # Nil PROVE \E s \in Tasks : Syncing(task'[s])
      BY <2>1, <2>3, <3>2 DEF Inv, FlagInv
    <3>3. ASSUME NEW q \in cardBusy' PROVE \E s \in Tasks : Waiting(task'[s], q)
      <4>1. PICK s \in Tasks : Waiting(task[s], q)
        BY <2>1, <3>3 DEF Inv, FlagInv
      <4>2. s # t
        BY <2>1, <3>3, <4>1 DEF Waiting
      <4> QED
        BY <2>3, <4>1, <4>2
    <3> QED
      BY <3>1, <3>2, <3>3 DEF FlagInv
  <2> QED
    BY <1>1, <2>3, <2>4, <2>5, <2>6 DEF Inv
<1>3. CASE todo # <<>>
  <2> DEFINE r == [Idle EXCEPT !.fn = "import", !.call = "sync", !.at = "sent",
                     !.item = Head(todo)[1], !.provider = Head(todo)[2], !.todo = Tail(todo)]
  <2>1. task' = [task EXCEPT ![t] = r] /\ UNCHANGED <<busy, cardBusy>>
    BY <1>3 DEF Continue
  <2>2. /\ r = [f \in Fields |-> r[f]] /\ ~r.mounted
        /\ r.fn = "import" /\ r.call = "sync" /\ r.at = "sent"
    BY DEF Idle, Fields
  <2> HIDE DEF r
  <2>3. TaskShape' /\ task'[t] = r /\ \A s \in Tasks \ {t} : task'[s] = task[s]
    BY <2>1, <2>2, Replaced DEF Inv
  <2>4. DisconnectInv'
    <3>1. ASSUME NEW s \in Tasks, SigningIn(task'[s]) PROVE SigningIn(task[s])
      BY <2>2, <2>3, <3>1 DEF SigningIn
    <3> QED
      BY <3>1 DEF Inv, DisconnectInv
  <2>5. CardInv'
    <3>1. ASSUME NEW s \in Tasks, task'[s].mounted
          PROVE  task'[s].call \in Linking /\ task'[s].todo = <<>>
      BY <2>2, <2>3, <3>1 DEF Inv, CardInv
    <3> QED
      BY <3>1 DEF CardInv
  <2>6. FlagInv'
    <3>1. Importing(task'[t]) /\ Syncing(task'[t])
      BY <2>2, <2>3 DEF Importing, Syncing
    <3>2. ASSUME NEW q \in cardBusy' PROVE \E s \in Tasks : Waiting(task'[s], q)
      <4>1. PICK s \in Tasks : Waiting(task[s], q)
        BY <2>1, <3>2 DEF Inv, FlagInv
      <4>2. s # t
        BY <1>3, <4>1 DEF Waiting
      <4> QED
        BY <2>3, <4>1, <4>2
    <3> QED
      BY <3>1, <3>2 DEF FlagInv
  <2> QED
    BY <1>1, <2>3, <2>4, <2>5, <2>6 DEF Inv
<1> QED
  BY <1>2, <1>3

LEMMA AnswerKeeps ==
  ASSUME Inv, NEW t \in Tasks, Answer(t)
  PROVE  Inv'
<1> DEFINE todo == IF task[t].call = "import" THEN Plan(task[t].snap, task[t].new)
                   ELSE task[t].todo
<1>1. task[t].at # "idle" /\ Continue(t, todo) /\ UNCHANGED <<core, gone>>
  BY DEF Answer
<1>2. task[t].mounted => todo = <<>>
  BY DEF Inv, CardInv, Linking
<1> HIDE DEF todo
<1> QED
  BY <1>1, <1>2, ContinueKeeps

\* The snapshot after a failed sync is still that sync, for the flags.
LEMMA AnswerErrorKeeps ==
  ASSUME Inv, NEW t \in Tasks, AnswerError(t)
  PROVE  Inv'
<1>1. task[t].at # "idle" /\ UNCHANGED <<core, gone>>
  BY DEF AnswerError
<1>2. CASE task[t].call # "sync"
  BY <1>1, <1>2, ContinueKeeps DEF AnswerError
<1>3. CASE task[t].call = "sync"
  <2> DEFINE r == [task[t] EXCEPT !.call = "snapshot", !.at = "sent"]
  <2>1. task' = [task EXCEPT ![t] = r] /\ UNCHANGED <<busy, busyItem, cardBusy>>
    BY <1>3 DEF AnswerError, Inv, TaskShape
  <2>2. task[t] = [f \in Fields |-> task[t][f]] /\ ~task[t].mounted
    BY <1>3 DEF Inv, TaskShape, CardInv, Linking
  <2>3. /\ r = [f \in Fields |-> r[f]] /\ ~r.mounted
        /\ r.fn = task[t].fn /\ r.call = "snapshot" /\ r.at = "sent"
    BY <2>2 DEF Fields
  <2> HIDE DEF r
  <2>4. TaskShape' /\ task'[t] = r /\ \A s \in Tasks \ {t} : task'[s] = task[s]
    BY <2>1, <2>3, Replaced DEF Inv
  <2>5. CoreShape'
    BY <1>1 DEF Inv, CoreShape
  <2>6. DisconnectInv'
    <3>1. ASSUME NEW s \in Tasks, SigningIn(task'[s]) PROVE SigningIn(task[s])
      BY <2>3, <2>4, <3>1 DEF SigningIn
    <3> QED
      BY <1>1, <3>1 DEF Inv, DisconnectInv
  <2>7. CardInv'
    <3>1. ASSUME NEW s \in Tasks, task'[s].mounted
          PROVE  task'[s].call \in Linking /\ task'[s].todo = <<>>
      BY <2>3, <2>4, <3>1 DEF Inv, CardInv
    <3> QED
      BY <3>1 DEF CardInv
  <2>8. FlagInv'
    <3>1. ASSUME NEW s \in Tasks
          PROVE  /\ Importing(task[s]) => Importing(task'[s])
                 /\ Syncing(task[s]) => Syncing(task'[s])
                 /\ \A q : Waiting(task[s], q) => Waiting(task'[s], q)
      <4>1. CASE s = t
        BY <1>3, <2>2, <2>3, <2>4, <4>1 DEF Importing, Syncing, Waiting
      <4>2. CASE s # t
        BY <2>4, <4>2
      <4> QED
        BY <4>1, <4>2
    <3> QED
      BY <2>1, <3>1 DEF Inv, FlagInv
  <2> QED
    BY <2>4, <2>5, <2>6, <2>7, <2>8 DEF Inv
<1> QED
  BY <1>2, <1>3

\* The cards that go take their flags with them.
LEMMA ChangeViewKeeps ==
  ASSUME Inv, ChangeView
  PROVE  Inv'
<1> DEFINE r(t) == [task[t] EXCEPT !.mounted = FALSE]
<1>1. ASSUME NEW t \in Tasks
      PROVE  /\ r(t) = [f \in Fields |-> r(t)[f]] /\ ~r(t).mounted
             /\ r(t).fn = task[t].fn /\ r(t).call = task[t].call /\ r(t).at = task[t].at
             /\ r(t).provider = task[t].provider
  <2>1. task[t] = [f \in Fields |-> task[t][f]]
    BY DEF Inv, TaskShape
  <2> QED
    BY <2>1 DEF Fields
<1>2. task' = [t \in Tasks |-> r(t)] /\ cardBusy' = {} /\ UNCHANGED <<core, gone, busy, busyItem>>
  BY DEF ChangeView
<1> HIDE DEF r
<1>3. \A t \in Tasks : task'[t] = r(t)
  BY <1>2
<1>4. TaskShape'
  BY <1>1, <1>2, <1>3 DEF TaskShape
<1>5. CoreShape'
  BY <1>2 DEF Inv, CoreShape
<1>6. DisconnectInv'
  <2>1. ASSUME NEW s \in Tasks, SigningIn(task'[s]) PROVE SigningIn(task[s])
    BY <1>1, <1>3, <2>1 DEF SigningIn
  <2> QED
    BY <1>2, <2>1 DEF Inv, DisconnectInv
<1>7. CardInv'
  BY <1>1, <1>3 DEF CardInv
<1>8. FlagInv'
  <2>1. ASSUME NEW s \in Tasks
        PROVE  /\ Importing(task[s]) => Importing(task'[s])
               /\ Syncing(task[s]) => Syncing(task'[s])
    BY <1>1, <1>3 DEF Importing, Syncing
  <2> QED
    BY <1>2, <2>1 DEF Inv, FlagInv
<1> QED
  BY <1>4, <1>5, <1>6, <1>7, <1>8 DEF Inv

LEMMA InvInit == Init => Inv
<1> SUFFICES ASSUME Init PROVE Inv
  OBVIOUS
<1>1. CoreShape
  <2>1. core \in Core
    BY StartsAssumption DEF Init
  <2> QED
    BY <2>1 DEF Core, CoreShape
<1> DEFINE first == [Idle EXCEPT !.fn = "refresh", !.call = "snapshot", !.at = "sent"]
<1>2. PICK t \in Tasks : task = [[s \in Tasks |-> Idle] EXCEPT ![t] = first]
  BY DEF Init
<1>3. \A r \in {Idle, first} :
        r = [f \in Fields |-> r[f]] /\ ~r.mounted
  <2>1. Idle = [f \in Fields |-> Idle[f]] /\ ~Idle.mounted
    BY DEF Idle, Fields
  <2>2. first = [f \in Fields |-> first[f]] /\ ~first.mounted
    BY DEF Idle, Fields
  <2> HIDE DEF first
  <2> QED
    BY <2>1, <2>2
<1> HIDE DEF first
<1>4. task = [s \in Tasks |-> IF s = t THEN first ELSE Idle]
  BY <1>2
<1>5. \A s \in Tasks : task[s] \in {Idle, first}
  BY <1>4
<1>6. TaskShape
  <2>1. task = [s \in Tasks |-> task[s]]
    BY <1>4
  <2> QED
    BY <1>3, <1>5, <2>1 DEF TaskShape
<1>7. CardInv
  BY <1>3, <1>5 DEF CardInv
<1>8. DisconnectInv /\ FlagInv
  BY DEF Init, DisconnectInv, FlagInv
<1> QED
  BY <1>1, <1>6, <1>7, <1>8 DEF Inv

LEMMA InvNext ==
  ASSUME Inv, [Next]_vars
  PROVE  Inv'
<1>1. CASE ChangeView
  BY <1>1, ChangeViewKeeps
<1>2. ASSUME NEW t \in Tasks, Click(t) PROVE Inv'
  BY <1>2, ClickKeeps
<1>3. ASSUME NEW t \in Tasks, Step(t) PROVE Inv'
  BY <1>3, CommandKeeps, AnswerKeeps, AnswerErrorKeeps DEF Step
<1>4. CASE UNCHANGED vars
  BY <1>4 DEF vars, coreVars, windowVars, Inv, CoreShape, TaskShape, DisconnectInv, CardInv,
     FlagInv
<1> QED
  BY <1>1, <1>2, <1>3, <1>4 DEF Next

LEMMA InvCorrect == Spec => []Inv
<1> QED
  BY InvInit, InvNext, PTL DEF Spec

-----------------------------------------------------------------------------
(* When no function runs any more no flag is set: neither a failed command, *)
(* nor two functions that raise the same flag, nor a card that went away    *)
(* leaves a button of the window disabled.                                  *)
THEOREM FlagsCorrect == Spec => []FlagsReset
<1>1. Inv => FlagsReset
  BY DEF Inv, FlagInv, FlagsReset, Quiet, Importing, Syncing, Waiting
<1> QED
  BY <1>1, InvCorrect, PTL

(* After disconnect_google_drive has reported success, no command that was  *)
(* on its way links the account again: only a new sign-in does.             *)
THEOREM DisconnectCorrect == Spec => []DriveDisconnectHolds
<1>1. Inv => DriveDisconnectHolds
  BY DEF Inv, DisconnectInv, DriveDisconnectHolds
<1> QED
  BY <1>1, InvCorrect, PTL

-----------------------------------------------------------------------------
(* Tokens and accounts.  While the cards are not left, the flag of the      *)
(* Google Drive card lets one of its commands run at a time; such a command *)
(* is the only one that may have done half of its work.                     *)

DriveRun(r) ==
  /\ r.at # "idle"
  /\ r.call = "clear" \/ (r.call \in {"connect", "check", "disconnect"} /\ r.provider = "drive")

Halfway(r) == r.call \in {"connect", "disconnect"} /\ r.provider = "drive" /\ r.at = "store"

AloneInv ==
  /\ \A t \in Tasks : task[t].mounted /\ task[t].provider = "drive" => DriveRun(task[t])
  /\ ~left => \A t \in Tasks : DriveRun(task[t]) =>
       /\ task[t].mounted /\ task[t].provider = "drive" /\ "drive" \in cardBusy
       /\ \A u \in Tasks : DriveRun(task[u]) => u = t

(* A command of the card that has the token, and not the account, or that   *)
(* has removed the token, and not the account, is at its last section.      *)
Consistent(r) ==
  /\ SigningIn(r) => r.on \/ core.client
  /\ Halfway(r) => IF r.call = "connect"
                   THEN "drive" \in token /\ core.client ELSE "drive" \notin token

TokenInv ==
  ~left =>
    /\ "drive" \in core.linked => core.client
    /\ (\A t \in Tasks : ~Halfway(task[t])) => ("drive" \in core.linked <=> "drive" \in token)
    /\ \A t \in Tasks : Consistent(task[t])

LEMMA AloneInit == Init => AloneInv /\ TokenInv
<1> SUFFICES ASSUME Init PROVE AloneInv /\ TokenInv
  OBVIOUS
<1> DEFINE first == [Idle EXCEPT !.fn = "refresh", !.call = "snapshot", !.at = "sent"]
<1>1. PICK t \in Tasks : task = [[s \in Tasks |-> Idle] EXCEPT ![t] = first]
  BY DEF Init
<1>2. \A s \in Tasks : task[s] \in {Idle, first}
  BY <1>1
<1>3. \A r \in {Idle, first} : ~r.mounted /\ ~DriveRun(r) /\ ~Halfway(r) /\ ~SigningIn(r)
  <2>1. ~Idle.mounted /\ Idle.at = "idle" /\ Idle.call = Nil
    BY DEF Idle
  <2>2. ~first.mounted /\ first.at = "sent" /\ first.call = "snapshot"
    BY DEF Idle
  <2> HIDE DEF first
  <2> QED
    BY <2>1, <2>2 DEF DriveRun, Halfway, SigningIn
<1> HIDE DEF first
<1>4. \A s \in Tasks : ~task[s].mounted /\ ~DriveRun(task[s]) /\ ~Halfway(task[s]) /\ ~SigningIn(task[s])
  BY <1>2, <1>3
<1>5. token = core.linked /\ ("drive" \in core.linked => core.client)
  BY StartsAssumption DEF Init
<1> QED
  BY <1>4, <1>5 DEF AloneInv, TokenInv, Consistent

(* No step but a click on the card begins such a command: what a step does  *)
(* to the other functions and to the flag.                                  *)
LEMMA AloneStays ==
  ASSUME AloneInv, left' = left, NEW t \in Tasks,
         \A s \in Tasks \ {t} : task'[s] = task[s],
         DriveRun(task'[t]) => /\ DriveRun(task[t]) /\ task'[t].mounted = task[t].mounted
                               /\ task'[t].provider = task[t].provider,
         task'[t].mounted /\ task'[t].provider = "drive" => DriveRun(task'[t]),
         "drive" \in cardBusy => "drive" \in cardBusy' \/ (DriveRun(task[t]) /\ ~DriveRun(task'[t]))
  PROVE  AloneInv'
<1>1. ASSUME NEW s \in Tasks, task'[s].mounted, task'[s].provider = "drive" PROVE DriveRun(task'[s])
  BY <1>1 DEF AloneInv
<1>2. ASSUME ~left, NEW s \in Tasks, DriveRun(task'[s])
      PROVE  /\ task'[s].mounted /\ task'[s].provider = "drive" /\ "drive" \in cardBusy'
             /\ \A u \in Tasks : DriveRun(task'[u]) => u = s
  <2>1. \A u \in Tasks : DriveRun(task'[u]) => DriveRun(task[u])
    OBVIOUS
  <2>2. /\ DriveRun(task[s]) /\ task[s].mounted /\ task[s].provider = "drive"
        /\ "drive" \in cardBusy /\ \A u \in Tasks : DriveRun(task[u]) => u = s
    BY <1>2, <2>1 DEF AloneInv
  <2>3. task'[s].mounted /\ task'[s].provider = "drive"
    BY <1>2, <2>2
  <2>4. "drive" \in cardBusy'
    BY <1>2, <2>2
  <2> QED
    BY <2>1, <2>2, <2>3, <2>4
<1> QED
  BY <1>1, <1>2 DEF AloneInv

(* What a command does to the account, the client and the token of Google   *)
(* Drive.                                                                   *)
Touches(t) ==
  LET r == task[t] IN
  \/ /\ ~Halfway(r) /\ ~Halfway(task'[t])
     /\ "drive" \in core'.linked <=> "drive" \in core.linked
     /\ "drive" \in token' <=> "drive" \in token
     /\ core.client => core'.client \/ (r.call = "clear" /\ "drive" \notin core.linked)
     /\ SigningIn(task'[t]) => r.on \/ core'.client
  \/ /\ SigningIn(r) /\ ~Halfway(r) /\ Halfway(task'[t])
     /\ "drive" \in core'.linked <=> "drive" \in core.linked
     /\ "drive" \in token' /\ core'.client = (core.client \/ r.on)
  \/ /\ Halfway(r) /\ r.call = "connect" /\ ~Halfway(task'[t]) /\ ~SigningIn(task'[t])
     /\ "drive" \in core'.linked /\ token' = token /\ core'.client = core.client
  \/ /\ r.call = "disconnect" /\ Halfway(task'[t])
     /\ core' = core /\ "drive" \notin token'
  \/ /\ Halfway(r) /\ r.call = "disconnect" /\ ~Halfway(task'[t])
     /\ "drive" \notin core'.linked /\ token' = token /\ core'.client = core.client

\* Most commands only save another core, with the same account and client.
LEMMA TouchesNothing ==
  ASSUME TaskShape, NEW t \in Tasks, Moved(t), ~Halfway(task[t]), ~Halfway(task'[t]),
         ~SigningIn(task'[t]), token' = token,
         core' = core \/ (core'.linked = core.linked /\ core'.client = core.client)
  PROVE  Touches(t)
BY DEF Touches

LEMMA CommandTouches ==
  ASSUME CoreShape, TaskShape, NEW t \in Tasks, Execute(t)
  PROVE  Touches(t)
<1> DEFINE r == task[t]
<1>m. Moved(t) /\ task'[t].call = r.call /\ task'[t].provider = r.provider
  BY CommandMoves DEF Moved
<1>o. r.call \notin {"connect", "disconnect"}
        => ~Halfway(r) /\ ~Halfway(task'[t]) /\ ~SigningIn(task'[t])
  BY <1>m DEF Halfway, SigningIn
<1>1. CASE Snapshot(t) \/ AddItems(t) \/ DeleteItem(t)
  <2>1. /\ r.call \notin {"connect", "disconnect"} /\ token' = token
        /\ \/ core' = core \/ core' = [core EXCEPT !.items[task[t].item] = Nil]
           \/ \E new : core' = [core EXCEPT !.items = [i \in Items |-> IF i \in new THEN NewItem ELSE @[i]]]
    BY <1>1, Stored DEF Snapshot, AddItems, DeleteItem, Refuse, At
  <2>2. core' = core \/ (core'.linked = core.linked /\ core'.client = core.client)
    BY <2>1 DEF CoreShape
  <2> QED
    BY <2>1, <2>2, <1>m, <1>o, TouchesNothing
<1>2. CASE BeginSync(t) \/ EndSync(t)
  <2>1. /\ r.call \notin {"connect", "disconnect"} /\ token' = token
        /\ core' = core \/ \E state : core' = Marked(t, state)
    BY <1>2, Stored DEF BeginSync, EndSync, Refuse, At
  <2>2. core' = core \/ (core'.linked = core.linked /\ core'.client = core.client)
    BY <2>1 DEF CoreShape, Marked
  <2> QED
    BY <2>1, <2>2, <1>m, <1>o, TouchesNothing
<1>3. CASE BeginCheck(t)
  <2>1. r.call \notin {"connect", "disconnect"} /\ token' = token /\ core' = core
    BY <1>3 DEF BeginCheck, Refuse, At
  <2> QED
    BY <2>1, <1>m, <1>o, TouchesNothing
<1>4. CASE EndCheck(t)
  <2> DEFINE p == task[t].provider
  <2>1. /\ r.call \notin {"connect", "disconnect"} /\ token' = token
        /\ \/ core' = core
           \/ (p = "telegram" \/ p \in core.linked) /\ core' = [core EXCEPT !.linked = @ \cup {p}]
    BY <1>4, Stored DEF EndCheck, Refuse, At
  <2>2. /\ "drive" \in core'.linked <=> "drive" \in core.linked
        /\ core'.client = core.client
    BY <2>1 DEF CoreShape
  <2> QED
    BY <2>1, <2>2, <1>o DEF Touches
<1>5. CASE SetAutoSync(t)
  <2>1. /\ r.call \notin {"connect", "disconnect"} /\ token' = token
        /\ core' = core \/ \E a : core' = [core EXCEPT !.auto = a]
    BY <1>5, Stored DEF SetAutoSync, Refuse, At
  <2>2. core' = core \/ (core'.linked = core.linked /\ core'.client = core.client)
    BY <2>1 DEF CoreShape
  <2> QED
    BY <2>1, <2>2, <1>m, <1>o, TouchesNothing
<1>6. CASE ClearClient(t)
  <2>1. /\ r.call = "clear" /\ token' = token
        /\ \/ core' = core
           \/ "drive" \notin core.linked /\ core' = [core EXCEPT !.client = FALSE]
    BY <1>6 DEF ClearClient, Refuse, At
  <2>2. /\ "drive" \in core'.linked <=> "drive" \in core.linked
        /\ core' = core \/ "drive" \notin core.linked
    BY <2>1 DEF CoreShape
  <2> QED
    BY <2>1, <2>2, <1>o DEF Touches
<1>7. CASE BeginConnect(t)
  <2>1. /\ r.call = "connect" /\ r.at = "sent" /\ token' = token /\ core' = core
        /\ \/ Refuse(t)
           \/ Goto(t, "network") /\ (r.provider = "drive" => r.on \/ core.client)
    BY <1>7 DEF BeginConnect, Refuse, At
  <2>2. /\ task'[t].at = "network" /\ (r.provider = "drive" => r.on \/ core.client)
        \/ task'[t].at = "answered"
    BY <2>1, Answered, Went
  <2> QED
    BY <2>1, <2>2, <1>m DEF Touches, Halfway, SigningIn
<1>8. CASE SaveToken(t)
  <2> DEFINE saved == [core EXCEPT !.client = @ \/ (r.provider = "drive" /\ r.on)]
  <2>1. /\ saved.linked = core.linked
        /\ saved.client = (core.client \/ (r.provider = "drive" /\ r.on))
    BY DEF CoreShape
  <2>2. /\ r.call = "connect" /\ r.at = "network"
        /\ \/ token' = token \cup {r.provider} /\ core' = saved /\ task'[t].at = "store"
           \/ token' = token /\ core' \in {core, saved} /\ task'[t].at = "answered"
    BY <1>8, Answered, Went DEF SaveToken, At
  <2> HIDE DEF saved
  <2>3. CASE r.provider = "drive"
    BY <2>1, <2>2, <2>3, <1>m DEF Touches, Halfway, SigningIn
  <2>4. CASE r.provider # "drive"
    BY <2>1, <2>2, <2>4, <1>m DEF Touches, Halfway, SigningIn
  <2> QED
    BY <2>3, <2>4
<1>9. CASE Connected(t)
  <2>1. \E a : core' = [core EXCEPT !.linked = @ \cup {r.provider}, !.auto = a]
    BY <1>9, Stored DEF Connected
  <2>2. core'.linked = core.linked \cup {r.provider} /\ core'.client = core.client
    BY <2>1 DEF CoreShape
  <2>3. /\ r.call = "connect" /\ r.at = "store" /\ token' = token
        /\ task'[t].at = "answered"
    BY <1>9, Answered DEF Connected, At
  <2> QED
    BY <2>2, <2>3, <1>m DEF Touches, Halfway, SigningIn
<1>10. CASE DeleteToken(t)
  <2>1. /\ r.call = "disconnect" /\ r.at = "sent" /\ core' = core
        /\ \/ token' = token \ {r.provider} /\ task'[t].at = "store"
           \/ token' = token /\ task'[t].at = "answered"
    BY <1>10, Answered, Went DEF DeleteToken, Refuse, At
  <2> QED
    BY <2>1, <1>m DEF Touches, Halfway, SigningIn
<1>11. CASE Disconnected(t)
  <2>1. core' = Unlinked(r.provider)
    BY <1>11, Stored DEF Disconnected
  <2>2. core'.linked = core.linked \ {r.provider} /\ core'.client = core.client
    BY <2>1 DEF CoreShape, Unlinked
  <2>3. /\ r.call = "disconnect" /\ r.at = "store" /\ token' = token
        /\ task'[t].at = "answered"
    BY <1>11, Answered DEF Disconnected, At
  <2> QED
    BY <2>2, <2>3, <1>m DEF Touches, Halfway, SigningIn
<1> QED
  BY <1>1, <1>2, <1>3, <1>4, <1>5, <1>6, <1>7, <1>8, <1>9, <1>10, <1>11 DEF Execute

LEMMA CommandMatches ==
  ASSUME Inv, AloneInv, TokenInv, NEW t \in Tasks, Execute(t), UNCHANGED windowVars
  PROVE  AloneInv' /\ TokenInv'
<1>1. /\ Moved(t) /\ Touches(t) /\ task[t].at # "idle" /\ UNCHANGED <<left, cardBusy>>
  <2>1. task[t].at # "idle"
    BY DEF Execute, Snapshot, AddItems, DeleteItem, BeginSync, EndSync, BeginConnect, SaveToken,
       Connected, BeginCheck, EndCheck, DeleteToken, Disconnected, SetAutoSync, ClearClient, At
  <2> QED
    BY <2>1, CommandMoves, CommandTouches DEF Inv, windowVars
<1>2. /\ \A s \in Tasks \ {t} : task'[s] = task[s]
      /\ task'[t].call = task[t].call /\ task'[t].provider = task[t].provider
      /\ task'[t].mounted = task[t].mounted /\ task'[t].on = task[t].on
      /\ task'[t].at # "idle"
  BY <1>1 DEF Moved
<1>3. DriveRun(task'[t]) <=> DriveRun(task[t])
  BY <1>1, <1>2 DEF DriveRun
<1>4. AloneInv'
  <2>1. task'[t].mounted /\ task'[t].provider = "drive" => DriveRun(task'[t])
    BY <1>2, <1>3 DEF AloneInv
  <2> QED
    BY <1>1, <1>2, <1>3, <2>1, AloneStays
<1>5. ASSUME ~left, DriveRun(task[t]), NEW s \in Tasks, s # t
      PROVE  ~SigningIn(task'[s]) /\ ~Halfway(task'[s]) /\ ~Halfway(task[s])
  BY <1>2, <1>5 DEF AloneInv, DriveRun, SigningIn, Halfway
<1>6. Halfway(task[t]) \/ Halfway(task'[t]) \/ SigningIn(task[t]) => DriveRun(task[t])
  BY <1>1, <1>2 DEF DriveRun, Halfway, SigningIn
<1>7. ASSUME ~left PROVE TokenInv'
  <2> DEFINE linked == "drive" \in core.linked
             held == "drive" \in token
  <2>1. /\ linked => core.client
        /\ (\A s \in Tasks : ~Halfway(task[s])) => (linked <=> held)
        /\ \A s \in Tasks : Consistent(task[s])
    BY <1>7 DEF TokenInv
  <2>2. CASE /\ ~Halfway(task[t]) /\ ~Halfway(task'[t])
             /\ linked' <=> linked
             /\ held' <=> held
             /\ core.client => core'.client \/ (task[t].call = "clear" /\ ~linked)
             /\ SigningIn(task'[t]) => task[t].on \/ core'.client
    <3>1. Consistent(task[t])'
      BY <1>2, <2>2 DEF Consistent
    <3>2. ASSUME NEW s \in Tasks, s # t PROVE Consistent(task[s])'
      <4>1. task'[s] = task[s] /\ Consistent(task[s])
        BY <1>2, <2>1, <3>2
      <4>2. CASE core.client => core'.client
        BY <2>2, <4>1, <4>2 DEF Consistent
      <4>3. CASE task[t].call = "clear"
        BY <1>1, <1>5, <1>7, <3>2, <4>3 DEF Consistent, DriveRun
      <4> QED
        BY <2>2, <4>2, <4>3
    <3>3. (\A s \in Tasks : ~Halfway(task'[s])) => \A s \in Tasks : ~Halfway(task[s])
      BY <1>2, <2>2
    <3> QED
      BY <2>1, <2>2, <3>1, <3>2, <3>3 DEF TokenInv
  <2>3. ASSUME DriveRun(task[t]), linked' => core'.client, Consistent(task[t])',
               Halfway(task'[t]) \/ (linked' <=> held')
        PROVE  TokenInv'
    <3>1. \A s \in Tasks : Consistent(task[s])'
      BY <1>5, <1>7, <2>3 DEF Consistent
    <3> QED
      BY <2>3, <3>1 DEF TokenInv
  <2>4. CASE /\ SigningIn(task[t]) /\ ~Halfway(task[t]) /\ Halfway(task'[t])
             /\ linked' <=> linked
             /\ held' /\ core'.client = (core.client \/ task[t].on)
    <3>1. core'.client
      BY <2>1, <2>4 DEF Consistent
    <3>2. task'[t].call = "connect"
      BY <1>2, <2>4 DEF SigningIn
    <3> QED
      BY <1>6, <2>3, <2>4, <3>1, <3>2 DEF Consistent
  <2>5. CASE /\ Halfway(task[t]) /\ task[t].call = "connect"
             /\ ~Halfway(task'[t]) /\ ~SigningIn(task'[t])
             /\ linked' /\ token' = token /\ core'.client = core.client
    <3>1. held' /\ core'.client
      BY <2>1, <2>5 DEF Consistent
    <3> QED
      BY <1>6, <2>3, <2>5, <3>1 DEF Consistent
  <2>6. CASE task[t].call = "disconnect" /\ Halfway(task'[t]) /\ core' = core /\ ~held'
    <3>1. ~SigningIn(task'[t]) /\ task'[t].call # "connect"
      BY <1>2, <2>6 DEF SigningIn
    <3> QED
      BY <1>6, <2>1, <2>3, <2>6, <3>1 DEF Consistent
  <2>7. CASE /\ Halfway(task[t]) /\ task[t].call = "disconnect" /\ ~Halfway(task'[t])
             /\ ~linked' /\ token' = token /\ core'.client = core.client
    <3>1. ~held' /\ ~SigningIn(task'[t])
      BY <1>2, <2>1, <2>7 DEF Consistent, SigningIn
    <3> QED
      BY <1>6, <2>3, <2>7, <3>1 DEF Consistent
  <2> QED
    BY <1>1, <2>2, <2>4, <2>5, <2>6, <2>7 DEF Touches
<1> QED
  BY <1>1, <1>4, <1>7 DEF TokenInv

(* A step of the window itself touches neither token nor account.           *)
LEMMA WindowMatches ==
  ASSUME TokenInv, UNCHANGED <<core, token>>, left => left',
         ~left' => \A s \in Tasks : /\ Halfway(task'[s]) <=> Halfway(task[s])
                                    /\ SigningIn(task'[s]) => SigningIn(task[s])
                                    /\ SigningIn(task[s]) \/ Halfway(task[s])
                                         => task'[s].on = task[s].on /\ task'[s].call = task[s].call
  PROVE  TokenInv'
<1> SUFFICES ASSUME ~left' PROVE TokenInv'
  BY DEF TokenInv
<1>1. \A s \in Tasks : Consistent(task[s])'
  BY DEF TokenInv, Consistent
<1> QED
  BY <1>1 DEF TokenInv

(* A click starts a function, and a command on the account only when the    *)
(* flag of its card is down, which it then raises.                          *)
LEMMA StartMatches ==
  ASSUME Inv, AloneInv, TokenInv, NEW t \in Tasks,
         NEW fn, NEW i, NEW p, NEW on, NEW mounted \in BOOLEAN,
         Start(t, fn, i, p, on, mounted),
         cardBusy' = IF mounted THEN cardBusy \cup {p} ELSE cardBusy,
         \/ fn \notin {"connect", "check", "disconnect", "clear"} /\ ~mounted
         \/ fn # "clear" /\ p = "telegram"
         \/ fn \in {"connect", "check", "disconnect", "clear"} /\ p = "drive" /\ mounted
              /\ "drive" \notin cardBusy
  PROVE  AloneInv' /\ TokenInv'
<1>1. /\ \A s \in Tasks \ {t} : task'[s] = task[s]
      /\ task[t].at = "idle" /\ task'[t].at = "sent"
      /\ task'[t].call = fn /\ task'[t].provider = p /\ task'[t].mounted = mounted
      /\ UNCHANGED <<core, token, left>>
  BY Started DEF Inv
<1>2. ~DriveRun(task[t]) /\ ~Halfway(task[t]) /\ ~Halfway(task'[t]) /\ ~SigningIn(task'[t])
  BY <1>1 DEF DriveRun, Halfway, SigningIn
<1>3. TokenInv'
  BY <1>1, <1>2, WindowMatches DEF SigningIn
<1>4. CASE ~(fn \in {"connect", "check", "disconnect", "clear"} /\ p = "drive" /\ mounted)
  <2>1. ~DriveRun(task'[t])
    BY <1>1, <1>4 DEF DriveRun
  <2>2. ~(task'[t].mounted /\ task'[t].provider = "drive")
    BY <1>1, <1>4
  <2> QED
    BY <1>1, <1>3, <2>1, <2>2, AloneStays
<1>5. CASE fn \in {"connect", "check", "disconnect", "clear"} /\ p = "drive" /\ mounted
  <2>1. DriveRun(task'[t])
    BY <1>1, <1>5 DEF DriveRun
  <2>2. ~left => \A s \in Tasks \ {t} : ~DriveRun(task'[s])
    BY <1>1, <1>5 DEF AloneInv
  <2>3. \A s \in Tasks : task'[s].mounted /\ task'[s].provider = "drive" => DriveRun(task'[s])
    BY <1>1, <2>1 DEF AloneInv
  <2>4. task'[t].mounted /\ task'[t].provider = "drive" /\ "drive" \in cardBusy' /\ left' = left
    BY <1>1, <1>5
  <2>5. ASSUME ~left, NEW s \in Tasks, DriveRun(task'[s]) PROVE s = t
    BY <2>2, <2>5
  <2> QED
    BY <1>3, <2>3, <2>4, <2>5 DEF AloneInv
<1> QED
  BY <1>4, <1>5

LEMMA ClickMatches ==
  ASSUME Inv, AloneInv, TokenInv, NEW t \in Tasks, Click(t)
  PROVE  AloneInv' /\ TokenInv'
<1>1. CASE PickFiles(t) \/ DropFiles(t)
  BY <1>1, StartMatches DEF PickFiles, DropFiles, Import
<1>2. CASE ClickRescan(t) \/ DriveToggle(t)
  BY <1>2, StartMatches DEF ClickRescan, DriveToggle, StartPlain
<1>3. ASSUME NEW i \in Items, ClickDelete(t, i) PROVE AloneInv' /\ TokenInv'
  BY <1>3, StartMatches DEF ClickDelete, StartOnFile
<1>4. ASSUME NEW i \in Items, NEW p \in Provider, ClickSync(t, i, p) PROVE AloneInv' /\ TokenInv'
  BY <1>4, StartMatches DEF ClickSync, StartOnFile
<1>5. CASE DriveConnect(t)
  BY <1>5, StartMatches DEF DriveConnect, DriveButton, StartFlagged
<1>6. CASE DriveRefresh(t) \/ DriveDisconnect(t) \/ DriveClear(t)
  BY <1>6, StartMatches DEF DriveRefresh, DriveDisconnect, DriveClear, DriveButton, StartFlagged
<1>7. CASE TelegramConnect(t) \/ TelegramTest(t)
  BY <1>7, StartMatches DEF TelegramConnect, TelegramTest, StartFlagged
<1>8. CASE TelegramDisconnect(t) \/ TelegramToggle(t)
  BY <1>8, StartMatches DEF TelegramDisconnect, TelegramToggle, StartPlain
<1> QED
  BY <1>1, <1>2, <1>3, <1>4, <1>5, <1>6, <1>7, <1>8 DEF Click

(* The continuations: a function that ends gives its flag back.             *)
LEMMA ContinueMatches ==
  ASSUME Inv, AloneInv, TokenInv, NEW t \in Tasks, task[t].at = "answered",
         NEW todo, Continue(t, todo), task[t].mounted => todo = <<>>,
         UNCHANGED <<core, token, left>>
  PROVE  AloneInv' /\ TokenInv'
<1> DEFINE r == [Idle EXCEPT !.fn = "import", !.call = "sync", !.at = "sent",
                   !.item = Head(todo)[1], !.provider = Head(todo)[2], !.todo = Tail(todo)]
<1>1. /\ r = [f \in Fields |-> r[f]] /\ ~r.mounted /\ r.call = "sync" /\ r.at = "sent"
      /\ Idle = [f \in Fields |-> Idle[f]] /\ ~Idle.mounted /\ Idle.at = "idle"
  <2>1. r = [f \in Fields |-> r[f]] /\ ~r.mounted /\ r.call = "sync" /\ r.at = "sent"
    BY DEF Idle, Fields
  <2>2. Idle = [f \in Fields |-> Idle[f]] /\ ~Idle.mounted /\ Idle.at = "idle"
    BY DEF Idle, Fields
  <2> QED
    BY <2>1, <2>2
<1>2. \/ task' = [task EXCEPT ![t] = Idle]
         /\ cardBusy' = (IF task[t].mounted THEN cardBusy \ {task[t].provider} ELSE cardBusy)
      \/ task' = [task EXCEPT ![t] = r] /\ cardBusy' = cardBusy
  BY DEF Continue
<1> HIDE DEF r
<1>3. /\ task'[t] \in {Idle, r} /\ \A s \in Tasks \ {t} : task'[s] = task[s]
  BY <1>1, <1>2, Replaced DEF Inv
<1>4. /\ ~DriveRun(task'[t]) /\ ~Halfway(task'[t]) /\ ~SigningIn(task'[t])
      /\ ~task'[t].mounted /\ ~Halfway(task[t]) /\ ~SigningIn(task[t])
  BY <1>1, <1>3 DEF DriveRun, Halfway, SigningIn
<1>5. "drive" \in cardBusy => "drive" \in cardBusy' \/ DriveRun(task[t])
  BY <1>2 DEF AloneInv
<1>6. AloneInv'
  BY <1>3, <1>4, <1>5, AloneStays
<1>7. TokenInv'
  BY <1>3, <1>4, WindowMatches
<1> QED
  BY <1>6, <1>7

LEMMA AnswerMatches ==
  ASSUME Inv, AloneInv, TokenInv, NEW t \in Tasks, Answer(t) \/ AnswerError(t)
  PROVE  AloneInv' /\ TokenInv'
<1>1. CASE Answer(t)
  <2> DEFINE todo == IF task[t].call = "import" THEN Plan(task[t].snap, task[t].new)
                     ELSE task[t].todo
  <2>1. task[t].at = "answered" /\ Continue(t, todo) /\ UNCHANGED <<core, token, left>>
    BY <1>1 DEF Answer
  <2>2. task[t].mounted => todo = <<>>
    BY DEF Inv, CardInv, Linking
  <2> HIDE DEF todo
  <2> QED
    BY <2>1, <2>2, ContinueMatches
<1>2. CASE AnswerError(t) /\ task[t].call # "sync"
  BY <1>2, ContinueMatches DEF AnswerError
<1>3. CASE AnswerError(t) /\ task[t].call = "sync"
  <2> DEFINE r == [task[t] EXCEPT !.call = "snapshot", !.at = "sent"]
  <2>1. /\ task' = [task EXCEPT ![t] = r]
        /\ task[t].at = "answered" /\ UNCHANGED <<core, token, left, cardBusy>>
    BY <1>3 DEF AnswerError, Inv, TaskShape
  <2>2. task[t] = [f \in Fields |-> task[t][f]] /\ ~task[t].mounted
    BY <1>3 DEF Inv, TaskShape, CardInv, Linking
  <2>3. /\ r = [f \in Fields |-> r[f]] /\ ~r.mounted /\ r.call = "snapshot"
    BY <2>2 DEF Fields
  <2> HIDE DEF r
  <2>4. task'[t] = r /\ \A s \in Tasks \ {t} : task'[s] = task[s]
    BY <2>1, <2>3, Replaced DEF Inv
  <2>5. /\ ~DriveRun(task'[t]) /\ ~Halfway(task'[t]) /\ ~SigningIn(task'[t])
        /\ ~task'[t].mounted /\ ~Halfway(task[t]) /\ ~SigningIn(task[t])
    BY <2>1, <2>3, <2>4 DEF DriveRun, Halfway, SigningIn
  <2>6. AloneInv'
    BY <2>1, <2>4, <2>5, AloneStays
  <2>7. TokenInv'
    BY <2>1, <2>4, <2>5, WindowMatches
  <2> QED
    BY <2>6, <2>7
<1> QED
  BY <1>1, <1>2, <1>3

(* The cards are left: while a command of theirs runs, that is remembered.  *)
LEMMA ChangeViewMatches ==
  ASSUME Inv, AloneInv, TokenInv, ChangeView
  PROVE  AloneInv' /\ TokenInv'
<1> DEFINE r(t) == [task[t] EXCEPT !.mounted = FALSE]
<1>1. ASSUME NEW t \in Tasks
      PROVE  /\ ~r(t).mounted /\ r(t).call = task[t].call /\ r(t).at = task[t].at
             /\ r(t).provider = task[t].provider /\ r(t).on = task[t].on
  <2>1. task[t] = [f \in Fields |-> task[t][f]]
    BY DEF Inv, TaskShape
  <2> QED
    BY <2>1 DEF Fields
<1>2. /\ task' = [t \in Tasks |-> r(t)] /\ UNCHANGED <<core, token>>
      /\ left' = (left \/ \E t \in Tasks : task[t].call \in Linking)
  BY DEF ChangeView
<1> HIDE DEF r
<1>3. \A t \in Tasks : task'[t] = r(t)
  BY <1>2
<1>4. ~left' => \A t \in Tasks : ~DriveRun(task'[t])
  BY <1>1, <1>2, <1>3 DEF DriveRun, Linking
<1>5. AloneInv'
  BY <1>1, <1>3, <1>4 DEF AloneInv
<1>6. TokenInv'
  BY <1>1, <1>2, <1>3, WindowMatches DEF Halfway, SigningIn
<1> QED
  BY <1>5, <1>6

LEMMA MatchesNext ==
  ASSUME Inv, AloneInv, TokenInv, [Next]_vars
  PROVE  AloneInv' /\ TokenInv'
<1>1. CASE ChangeView
  BY <1>1, ChangeViewMatches
<1>2. ASSUME NEW t \in Tasks, Click(t) PROVE AloneInv' /\ TokenInv'
  BY <1>2, ClickMatches
<1>3. ASSUME NEW t \in Tasks, Step(t) PROVE AloneInv' /\ TokenInv'
  BY <1>3, CommandMatches, AnswerMatches DEF Step
<1>4. CASE UNCHANGED vars
  BY <1>4 DEF vars, coreVars, windowVars, AloneInv, TokenInv, Consistent
<1> QED
  BY <1>1, <1>2, <1>3, <1>4 DEF Next

(* As long as the cards are not left while they work, the window never      *)
(* comes to rest with a Google Drive account without token or OAuth client, *)
(* nor with a token without its account, whatever commands fail and in      *)
(* whichever order their sections run.                                      *)
THEOREM TokenCorrect == Spec => []DriveTokenMatches
<1>1. AloneInv /\ TokenInv => DriveTokenMatches
  BY DEF TokenInv, DriveTokenMatches, Quiet, Halfway
<1> QED
  BY <1>1, AloneInit, MatchesNext, InvCorrect, PTL DEF Spec

-----------------------------------------------------------------------------
(* The syncs that an import plans.                                           *)

(* The order that Plan asks for exists: the new files in any order, each    *)
(* with its providers next to each other.                                   *)
Orders(wanted) ==
  {s \in [1 .. Cardinality(wanted) -> wanted] :
     /\ \A m, n \in DOMAIN s : m # n => s[m] # s[n]
     /\ \A m, n \in DOMAIN s :
          s[m][1] = s[n][1] /\ s[m][2] = "drive" /\ s[n][2] = "telegram" => n = m + 1}

\* What numbers the pairs one to one, in that order, is such an order.
LEMMA NumberingIsOrder ==
  ASSUME NEW N \in Nat, NEW wanted, NEW s \in [1 .. N -> wanted],
         \A x \in wanted : \E m \in 1 .. N : s[m] = x,
         \A m, n \in 1 .. N : s[m] = s[n] => m = n,
         \A m, n \in 1 .. N :
           s[m][1] = s[n][1] /\ s[m][2] = "drive" /\ s[n][2] = "telegram" => n = m + 1
  PROVE  s \in Orders(wanted)
<1>1. s \in Bijection(1 .. N, wanted)
  BY DEF Bijection, Injection, IsInjective, Surjection
<1>2. Cardinality(wanted) = N
  <2>1. ExistsBijection(1 .. N, wanted)
    BY <1>1 DEF ExistsBijection
  <2>2. IsFiniteSet(1 .. N) /\ Cardinality(1 .. N) = N
    BY FS_Interval
  <2> QED
    BY <2>1, <2>2, FS_Bijection
<1> QED
  BY <1>2 DEF Orders

LEMMA OrderExists ==
  ASSUME NEW S, IsFiniteSet(S), NEW P \in SUBSET Provider
  PROVE  Orders(S \X P) # {}
<1> DEFINE wanted == S \X P
           K == Cardinality(S)
<1>1. K \in Nat /\ \E f : f \in Bijection(1 .. K, S)
  BY FS_CardinalityType DEF ExistsBijection
<1>2. PICK f : f \in Bijection(1 .. K, S)
  BY <1>1
<1>3. /\ f \in [1 .. K -> S]
      /\ \A m, n \in 1 .. K : f[m] = f[n] => m = n
      /\ \A i \in S : \E m \in 1 .. K : f[m] = i
  BY <1>2 DEF Bijection, Injection, IsInjective, Surjection
<1> HIDE DEF K
<1>4. CASE P = {}
  <2> DEFINE s == [m \in 1 .. 0 |-> <<>>]
  <2>1. wanted = {}
    BY <1>4
  <2>2. s \in Orders(wanted)
    <3>1. s \in [1 .. 0 -> wanted]
      OBVIOUS
    <3> HIDE DEF s, wanted
    <3> QED
      BY <2>1, <3>1, NumberingIsOrder
  <2> QED
    BY <2>2
<1>5. ASSUME NEW p \in Provider, P = {p} PROVE Orders(wanted) # {}
  <2> DEFINE s == [m \in 1 .. K |-> <<f[m], p>>]
  <2>1. wanted = S \X {p}
    BY <1>5
  <2>2. s \in [1 .. K -> wanted]
    <3>1. \A m \in 1 .. K : f[m] \in S
      BY <1>3
    <3>2. \A m \in 1 .. K : <<f[m], p>> \in wanted
      BY <2>1, <3>1
    <3> HIDE DEF wanted
    <3> QED
      BY <3>2
  <2>3. \A x \in wanted : \E m \in 1 .. K : s[m] = x
    BY <1>3, <2>1
  <2>4. \A m, n \in 1 .. K : s[m] = s[n] => m = n
    BY <1>3
  <2>5. \A m \in 1 .. K : s[m][2] = p
    OBVIOUS
  <2> HIDE DEF s, wanted
  <2>6. s \in Orders(wanted)
    BY <1>1, <2>2, <2>3, <2>4, <2>5, NumberingIsOrder
  <2> QED
    BY <2>6
<1>6. CASE P = Provider
  <2> DEFINE N == K + K
             Place(m) == CHOOSE j \in 1 .. K : m \in {j + j - 1, j + j}
             Drive(m) == m = Place(m) + Place(m) - 1
             s == [m \in 1 .. N |-> <<f[Place(m)], IF Drive(m) THEN "drive" ELSE "telegram">>]
  <2>1. ASSUME NEW m \in 1 .. N
        PROVE  /\ Place(m) \in 1 .. K
               /\ m = IF Drive(m) THEN Place(m) + Place(m) - 1 ELSE Place(m) + Place(m)
    <3> DEFINE j == (m + 1) \div 2
    <3>1. m \in Nat /\ 1 <= m /\ m <= K + K
      BY <1>1
    <3>2. j \in Nat /\ j + j <= m + 1 /\ m + 1 < j + j + 2
      BY <3>1
    <3> HIDE DEF j
    <3>3. j \in 1 .. K /\ m \in {j + j - 1, j + j}
      BY <1>1, <3>1, <3>2
    <3>4. Place(m) \in 1 .. K /\ m \in {Place(m) + Place(m) - 1, Place(m) + Place(m)}
      BY <3>3
    <3> HIDE DEF Place
    <3> QED
      BY <3>4
  <2>2. ASSUME NEW k \in 1 .. K
        PROVE  /\ k + k \in 1 .. N /\ Place(k + k) = k /\ ~Drive(k + k)
               /\ k + k - 1 \in 1 .. N /\ Place(k + k - 1) = k /\ Drive(k + k - 1)
    <3>1. k \in Nat /\ 1 <= k /\ k <= K
      BY <1>1
    <3>2. k + k \in 1 .. N /\ k + k - 1 \in 1 .. N
      BY <1>1, <3>1
    <3>3. \A j \in 1 .. K : {k + k, k + k - 1} \cap {j + j - 1, j + j} # {} => j = k
      BY <1>1, <3>1
    <3>4. ASSUME NEW m \in {k + k, k + k - 1}
          PROVE  Place(m) \in 1 .. K /\ m \in {Place(m) + Place(m) - 1, Place(m) + Place(m)}
      OBVIOUS
    <3>5. Place(k + k) = k /\ Place(k + k - 1) = k
      <4> HIDE DEF Place
      <4> QED
        BY <3>3, <3>4
    <3> HIDE DEF Place
    <3> QED
      BY <3>1, <3>2, <3>5
  <2> HIDE DEF Drive, Place
  <2>3. s \in [1 .. N -> wanted]
    <3>1. ASSUME NEW m \in 1 .. N PROVE f[Place(m)] \in S
      BY <1>3, <2>1
    <3> QED
      BY <3>1, <1>6 DEF Provider
  <2>4. ASSUME NEW x \in wanted PROVE \E m \in 1 .. N : s[m] = x
    <3>1. PICK i \in S, p \in Provider : x = <<i, p>>
      BY <1>6
    <3>2. PICK k \in 1 .. K : f[k] = i
      BY <1>3
    <3>3. s[k + k] = <<i, "telegram">> /\ s[k + k - 1] = <<i, "drive">>
      BY <2>2, <3>2
    <3> QED
      BY <2>2, <3>1, <3>3 DEF Provider
  <2>5. \A m, n \in 1 .. N : s[m][1] = s[n][1] => Place(m) = Place(n)
    BY <1>3, <2>1
  <2>6. \A m \in 1 .. N : s[m][2] = IF Drive(m) THEN "drive" ELSE "telegram"
    OBVIOUS
  <2>7. N \in Nat
    BY <1>1
  <2> HIDE DEF s, wanted, N
  <2>8. \A m, n \in 1 .. N : s[m] = s[n] => m = n
    <3> SUFFICES ASSUME NEW m \in 1 .. N, NEW n \in 1 .. N, s[m] = s[n] PROVE m = n
      OBVIOUS
    <3>1. Place(m) = Place(n) /\ (Drive(m) <=> Drive(n))
      BY <2>5, <2>6
    <3>2. Place(m) \in 1 .. K
      BY <2>1
    <3> QED
      BY <1>1, <2>1, <3>1, <3>2
  <2>9. \A m, n \in 1 .. N :
          s[m][1] = s[n][1] /\ s[m][2] = "drive" /\ s[n][2] = "telegram" => n = m + 1
    <3> SUFFICES ASSUME NEW m \in 1 .. N, NEW n \in 1 .. N, s[m][1] = s[n][1],
                        s[m][2] = "drive", s[n][2] = "telegram"
                 PROVE n = m + 1
      OBVIOUS
    <3>1. Place(m) = Place(n) /\ Drive(m) /\ ~Drive(n)
      BY <2>5, <2>6
    <3>2. Place(m) \in 1 .. K
      BY <2>1
    <3> QED
      BY <1>1, <2>1, <2>7, <3>1, <3>2
  <2>10. s \in Orders(wanted)
    BY <2>3, <2>4, <2>7, <2>8, <2>9, NumberingIsOrder
  <2> QED
    BY <2>10 DEF wanted
<1>7. P = {} \/ P = Provider \/ \E p \in Provider : P = {p}
  BY DEF Provider
<1> QED
  BY <1>4, <1>5, <1>6, <1>7

LEMMA PlanIsSequence ==
  ASSUME NEW snap, NEW new \in SUBSET Items
  PROVE  Plan(snap, new) \in Seq(Items \X Provider)
<1> DEFINE P == {p \in Provider : p \in snap.linked \cap snap.auto}
           wanted == new \X P
           asked == {x \in {<<i, p>> : i \in new, p \in Provider} : x[2] \in snap.linked \cap snap.auto}
<1>1. IsFiniteSet(new)
  BY ItemsAssumption, FS_Subset
<1>2. asked = wanted
  OBVIOUS
<1>3. wanted \subseteq Items \X Provider
  OBVIOUS
<1>4. P \subseteq Provider
  OBVIOUS
<1>5. Plan(snap, new) = CHOOSE s \in [1 .. Cardinality(asked) -> asked] :
        /\ \A m, n \in DOMAIN s : m # n => s[m] # s[n]
        /\ \A m, n \in DOMAIN s :
             s[m][1] = s[n][1] /\ s[m][2] = "drive" /\ s[n][2] = "telegram" => n = m + 1
  BY DEF Plan
<1> HIDE DEF P, asked
<1>6. Orders(wanted) # {}
  BY <1>1, <1>4, OrderExists
<1> HIDE DEF wanted
<1>7. Plan(snap, new) \in Orders(asked)
  BY <1>2, <1>5, <1>6 DEF Orders
<1>8. Plan(snap, new) \in [1 .. Cardinality(wanted) -> wanted]
  BY <1>2, <1>7 DEF Orders
<1>9. Cardinality(wanted) \in Nat
  <2>1. IsFiniteSet(Provider)
    <3>1. Provider = {"drive"} \cup {"telegram"}
      BY DEF Provider
    <3> QED
      BY <3>1, FS_Singleton, FS_AddElement
  <2>2. IsFiniteSet(P)
    BY <1>4, <2>1, FS_Subset
  <2>3. IsFiniteSet(new \X P)
    BY <1>1, <2>2, FS_Product
  <2> QED
    BY <2>3, FS_CardinalityType DEF wanted
<1> QED
  BY <1>3, <1>8, <1>9

-----------------------------------------------------------------------------
(* What an answer shows.                                                    *)

\* A function that still has a snapshot to come with what its command changed.
Owes(r) ==
  \/ r.call = "sync" /\ (r.at = "upload" \/ (r.at = "answered" /\ ~r.ok))
  \/ r.call = "snapshot" /\ r.at = "sent"
  \/ r.call = "connect" /\ r.at = "store" /\ r.on

\* The answer of a command is the state as it leaves it.  Without one, the state
\* is as it was, or its change is still to be shown, or missed.
Answers(t) ==
  \/ /\ task'[t].at = "answered" /\ task'[t].ok /\ task'[t].snap = core'
     /\ task'[t].new \subseteq Items /\ line' = Append(line, t)
  \/ /\ task[t].call # "snapshot"
     /\ ~(task'[t].at = "answered" /\ task'[t].ok)
     /\ task'[t].snap = task[t].snap /\ task'[t].new = task[t].new /\ line' = line
     /\ missed' \/ Owes(task'[t]) \/ (core' = core /\ ~Owes(task[t]))

LEMMA Replies ==
  ASSUME TaskShape, NEW t \in Tasks, NEW c, NEW new, Reply(t, c, new)
  PROVE  /\ task'[t].at = "answered" /\ task'[t].ok /\ task'[t].snap = c /\ task'[t].new = new
         /\ line' = Append(line, t) /\ missed' = missed
<1>1. task[t] = [f \in Fields |-> task[t][f]] /\ task = [s \in Tasks |-> task[s]]
  BY DEF TaskShape
<1> DEFINE r == task[t]
           q == [[[[r EXCEPT !.at = "answered"] EXCEPT !.ok = TRUE] EXCEPT !.snap = c] EXCEPT !.new = new]
<1>2. task'[t] = q
  BY <1>1 DEF Reply
<1>3. q.at = "answered" /\ q.ok = TRUE /\ q.snap = c /\ q.new = new
  BY <1>1 DEF Fields
<1> HIDE DEF q
<1> QED
  BY <1>2, <1>3 DEF Reply

\* An error, and a place in the midst of a command, bring no snapshot.
LEMMA NoSnapshot ==
  ASSUME TaskShape, NEW t \in Tasks, NEW at,
         \/ task' = [task EXCEPT ![t].at = at, ![t].ok = FALSE]
         \/ task' = [task EXCEPT ![t].at = at] /\ at # "answered"
  PROVE  /\ task'[t].at = at /\ (at = "answered" => ~task'[t].ok)
         /\ task'[t].snap = task[t].snap /\ task'[t].new = task[t].new
         /\ task'[t].call = task[t].call /\ task'[t].on = task[t].on
<1>1. task[t] = [f \in Fields |-> task[t][f]] /\ task = [s \in Tasks |-> task[s]]
  BY DEF TaskShape
<1> DEFINE r == task[t]
           q1 == [r EXCEPT !.at = at]
           q2 == [q1 EXCEPT !.ok = FALSE]
<1>2. task'[t] = q2 \/ (task'[t] = q1 /\ at # "answered")
  BY <1>1
<1>3. /\ q1.at = at /\ q1.snap = r.snap /\ q1.new = r.new /\ q1.call = r.call /\ q1.on = r.on
      /\ q2.at = at /\ q2.snap = r.snap /\ q2.new = r.new /\ q2.call = r.call /\ q2.on = r.on
      /\ q2.ok = FALSE
  BY <1>1 DEF Fields
<1> HIDE DEF q1, q2
<1> QED
  BY <1>2, <1>3

LEMMA StoreAnswers ==
  ASSUME TaskShape, NEW t \in Tasks, NEW c, NEW new \in SUBSET Items, Store(t, c, new),
         task[t].call # "snapshot"
  PROVE  Answers(t) /\ (missed => missed')
<1>1. CASE Reply(t, c, new)
  BY <1>1, Replies DEF Answers, Store
<1>2. CASE ~Reply(t, c, new)
  <2>1. /\ task' = [task EXCEPT ![t].at = "answered", ![t].ok = FALSE]
        /\ core' = c /\ line' = line
        /\ missed' = (missed \/ (c # core /\ task[t].call # "sync")
                             \/ (task[t].call = "connect" /\ task[t].on))
    BY <1>2 DEF Store
  <2>2. /\ task'[t].at = "answered" /\ ~task'[t].ok /\ task'[t].call = task[t].call
        /\ task'[t].snap = task[t].snap /\ task'[t].new = task[t].new
    BY <2>1, NoSnapshot
  <2> QED
    BY <2>1, <2>2 DEF Answers, Owes
<1> QED
  BY <1>1, <1>2

\* An error after a change of the state.
LEMMA FailureAnswers ==
  ASSUME TaskShape, NEW t \in Tasks, task[t].call # "snapshot", line' = line,
         task' = [task EXCEPT ![t].at = "answered", ![t].ok = FALSE],
         task[t].call # "sync" => missed' \/ (core' = core /\ ~Owes(task[t]))
  PROVE  Answers(t)
<1>1. /\ task'[t].at = "answered" /\ ~task'[t].ok /\ task'[t].call = task[t].call
      /\ task'[t].snap = task[t].snap /\ task'[t].new = task[t].new
  BY NoSnapshot
<1> QED
  BY <1>1 DEF Answers, Owes

LEMMA RefuseAnswers ==
  ASSUME TaskShape, NEW t \in Tasks, task[t].call # "snapshot", Refuse(t),
         task[t].call = "connect" => task[t].at # "store"
  PROVE  Answers(t) /\ (missed => missed')
BY FailureAnswers DEF Refuse, Owes

LEMMA GotoAnswers ==
  ASSUME TaskShape, NEW t \in Tasks, task[t].call # "snapshot", NEW at, at # "answered",
         Goto(t, at), line' = line,
         \/ task[t].call = "sync" /\ at = "upload"
         \/ task[t].call = "connect" /\ at = "store" /\ task[t].on
         \/ core' = core /\ task[t].at # "store" /\ task[t].call # "sync"
  PROVE  Answers(t)
<1>1. /\ task'[t].at = at /\ task'[t].snap = task[t].snap /\ task'[t].new = task[t].new
      /\ task'[t].call = task[t].call /\ task'[t].on = task[t].on
  BY NoSnapshot DEF Goto
<1> QED
  BY <1>1 DEF Answers, Owes

LEMMA CommandAnswers ==
  ASSUME CoreShape, core.client \in BOOLEAN, TaskShape, NEW t \in Tasks, Execute(t)
  PROVE  Answers(t) /\ (missed => missed') /\ core'.client \in BOOLEAN
<1>1. CASE Snapshot(t)
  BY <1>1, Replies DEF Snapshot, Answers
<1>2. CASE AddItems(t)
  <2>1. task[t].call # "snapshot" /\ task[t].call # "connect"
    BY <1>2 DEF AddItems, At
  <2>2. core' = core \/ \E new : core' = [core EXCEPT !.items = [i \in Items |-> IF i \in new THEN NewItem ELSE @[i]]]
    BY <1>2, Stored DEF AddItems, Refuse
  <2>3. core'.client = core.client
    BY <2>2 DEF CoreShape
  <2>4. CASE Refuse(t)
    BY <2>1, <2>3, <2>4, RefuseAnswers
  <2>5. ASSUME NEW c, NEW new \in SUBSET Items, Store(t, c, new) PROVE Answers(t) /\ (missed => missed')
    BY <2>1, <2>5, StoreAnswers
  <2> QED
    BY <1>2, <2>3, <2>4, <2>5 DEF AddItems
<1>3. CASE DeleteItem(t)
  <2>1. task[t].call # "snapshot" /\ task[t].call # "connect"
    BY <1>3 DEF DeleteItem, At
  <2>2. core' = core \/ core' = [core EXCEPT !.items[task[t].item] = Nil]
    BY <1>3, Stored DEF DeleteItem, Refuse
  <2>3. core'.client = core.client
    BY <2>2 DEF CoreShape
  <2> QED
    BY <1>3, <2>1, <2>3, RefuseAnswers, StoreAnswers DEF DeleteItem
<1>4. CASE BeginSync(t)
  <2>1. task[t].call = "sync"
    BY <1>4 DEF BeginSync, At
  <2>2. core' = core \/ core' = Marked(t, "syncing")
    BY <1>4 DEF BeginSync, Refuse
  <2>3. core'.client = core.client
    BY <2>2 DEF CoreShape, Marked
  <2>4. CASE Refuse(t)
    BY <2>1, <2>3, <2>4, RefuseAnswers
  <2>5. CASE Reply(t, core, {}) /\ core' = core
    BY <2>3, <2>5, Replies DEF Answers
  <2>6. CASE Goto(t, "upload") /\ UNCHANGED <<line, missed>>
    BY <2>1, <2>3, <2>6, GotoAnswers
  <2>7. CASE task' = [task EXCEPT ![t].at = "answered", ![t].ok = FALSE] /\ UNCHANGED <<line, missed>>
    BY <2>1, <2>3, <2>7, FailureAnswers
  <2> QED
    BY <1>4, <2>4, <2>5, <2>6, <2>7 DEF BeginSync
<1>5. CASE EndSync(t)
  <2>1. task[t].call = "sync"
    BY <1>5 DEF EndSync, At
  <2>2. core' = core \/ \E state : core' = Marked(t, state)
    BY <1>5, Stored DEF EndSync, Refuse
  <2>3. core'.client = core.client
    BY <2>2 DEF CoreShape, Marked
  <2>4. CASE Refuse(t)
    BY <2>1, <2>3, <2>4, RefuseAnswers
  <2>5. CASE Store(t, Marked(t, "synced"), {})
    BY <2>1, <2>3, <2>5, StoreAnswers
  <2>6. CASE task' = [task EXCEPT ![t].at = "answered", ![t].ok = FALSE] /\ UNCHANGED <<line, missed>>
    BY <2>1, <2>3, <2>6, FailureAnswers
  <2> QED
    BY <1>5, <2>4, <2>5, <2>6 DEF EndSync
<1>6. CASE BeginConnect(t)
  <2>1. /\ task[t].call = "connect" /\ task[t].at = "sent" /\ core' = core
        /\ Refuse(t) \/ (Goto(t, "network") /\ UNCHANGED <<line, missed>>)
    BY <1>6 DEF BeginConnect, At, Refuse
  <2> QED
    BY <2>1, RefuseAnswers, GotoAnswers
<1>7. CASE SaveToken(t)
  <2> DEFINE saved == [core EXCEPT !.client = @ \/ (task[t].provider = "drive" /\ task[t].on)]
  <2>1. /\ saved.client \in BOOLEAN
        /\ ~task[t].on => saved = core
    <3>1. saved.client = (core.client \/ (task[t].provider = "drive" /\ task[t].on))
      BY DEF CoreShape
    <3>2. saved.client \in BOOLEAN
      BY <3>1
    <3>3. ASSUME ~task[t].on PROVE saved = core
      <4>1. saved = [core EXCEPT !.client = core.client]
        BY <3>3
      <4> QED
        BY <4>1 DEF CoreShape
    <3> QED
      BY <3>2, <3>3
  <2>2. /\ task[t].call = "connect" /\ task[t].at = "network" /\ line' = line
        /\ \/ core' = saved /\ Goto(t, "store") /\ missed' = missed
           \/ /\ core' \in {core, saved} /\ missed' = (missed \/ core' # core)
              /\ task' = [task EXCEPT ![t].at = "answered", ![t].ok = FALSE]
    BY <1>7 DEF SaveToken, At
  <2> HIDE DEF saved
  <2>3. ~Owes(task[t])
    BY <2>2 DEF Owes
  <2>4. CASE core' = saved /\ Goto(t, "store") /\ missed' = missed
    BY <2>1, <2>2, <2>4, GotoAnswers
  <2>5. CASE /\ core' \in {core, saved} /\ missed' = (missed \/ core' # core)
             /\ task' = [task EXCEPT ![t].at = "answered", ![t].ok = FALSE]
    BY <2>1, <2>2, <2>3, <2>5, FailureAnswers
  <2> QED
    BY <2>2, <2>4, <2>5
<1>8. CASE Connected(t)
  <2>1. task[t].call # "snapshot"
    BY <1>8 DEF Connected, At
  <2>2. \E c : /\ Store(t, c, {}) /\ \E p, a : c = [core EXCEPT !.linked = @ \cup {p}, !.auto = a]
    BY <1>8 DEF Connected
  <2>3. PICK c : Store(t, c, {}) /\ \E p, a : c = [core EXCEPT !.linked = @ \cup {p}, !.auto = a]
    BY <2>2
  <2>4. c.client = core.client /\ core' = c
    BY <2>3, Stored DEF CoreShape
  <2> QED
    BY <2>1, <2>3, <2>4, StoreAnswers
<1>9. CASE BeginCheck(t)
  <2>1. /\ task[t].call = "check" /\ task[t].at = "sent" /\ core' = core
        /\ Refuse(t) \/ (Goto(t, "network") /\ UNCHANGED <<line, missed>>)
    BY <1>9 DEF BeginCheck, At, Refuse
  <2> QED
    BY <2>1, RefuseAnswers, GotoAnswers
<1>10. CASE EndCheck(t)
  <2>1. task[t].call = "check"
    BY <1>10 DEF EndCheck, At
  <2>2. CASE Refuse(t)
    BY <2>1, <2>2, RefuseAnswers DEF Refuse
  <2>3. CASE ~Refuse(t)
    <3> DEFINE c == [core EXCEPT !.linked = @ \cup {task[t].provider}]
    <3>1. Store(t, c, {})
      BY <1>10, <2>3 DEF EndCheck
    <3>2. c.client = core.client
      BY DEF CoreShape
    <3> HIDE DEF c
    <3> QED
      BY <2>1, <3>1, <3>2, Stored, StoreAnswers
  <2> QED
    BY <2>2, <2>3
<1>11. CASE DeleteToken(t)
  <2>1. /\ task[t].call = "disconnect" /\ task[t].at = "sent" /\ core' = core
        /\ Refuse(t) \/ (Goto(t, "store") /\ UNCHANGED <<line, missed>>)
    BY <1>11 DEF DeleteToken, At, Refuse
  <2> QED
    BY <2>1, RefuseAnswers, GotoAnswers
<1>12. CASE Disconnected(t)
  <2> DEFINE c == Unlinked(task[t].provider)
  <2>1. task[t].call # "snapshot" /\ Store(t, c, {})
    BY <1>12 DEF Disconnected, At
  <2>2. c.client = core.client
    BY DEF CoreShape, Unlinked
  <2> HIDE DEF c
  <2> QED
    BY <2>1, <2>2, Stored, StoreAnswers
<1>13. CASE SetAutoSync(t)
  <2>1. task[t].call = "toggle"
    BY <1>13 DEF SetAutoSync, At
  <2>2. CASE Refuse(t)
    BY <2>1, <2>2, RefuseAnswers DEF Refuse
  <2>3. CASE ~Refuse(t)
    <3>1. \E c : Store(t, c, {}) /\ \E a : c = [core EXCEPT !.auto = a]
      BY <1>13, <2>3 DEF SetAutoSync
    <3>2. PICK c : Store(t, c, {}) /\ \E a : c = [core EXCEPT !.auto = a]
      BY <3>1
    <3>3. c.client = core.client /\ core' = c
      BY <3>2, Stored DEF CoreShape
    <3> QED
      BY <2>1, <3>2, <3>3, StoreAnswers
  <2> QED
    BY <2>2, <2>3
<1>14. CASE ClearClient(t)
  <2> DEFINE c == [core EXCEPT !.client = FALSE]
  <2>1. task[t].call = "clear"
    BY <1>14 DEF ClearClient, At
  <2>2. c.client \in BOOLEAN
    BY DEF CoreShape
  <2>3. \/ Refuse(t) /\ core' = core
        \/ core' = c /\ Reply(t, c, {})
        \/ /\ core' \in {core, c} /\ line' = line /\ missed' = (missed \/ core' # core)
           /\ task' = [task EXCEPT ![t].at = "answered", ![t].ok = FALSE]
    BY <1>14 DEF ClearClient, Refuse
  <2> HIDE DEF c
  <2>4. ~Owes(task[t])
    BY <2>1 DEF Owes
  <2>5. CASE Refuse(t) /\ core' = core
    BY <2>1, <2>5, RefuseAnswers
  <2>6. CASE core' = c /\ Reply(t, c, {})
    BY <2>2, <2>6, Replies DEF Answers
  <2>7. CASE /\ core' \in {core, c} /\ line' = line /\ missed' = (missed \/ core' # core)
             /\ task' = [task EXCEPT ![t].at = "answered", ![t].ok = FALSE]
    BY <2>1, <2>2, <2>4, <2>7, FailureAnswers
  <2> QED
    BY <2>3, <2>5, <2>6, <2>7
<1> QED
  BY <1>1, <1>2, <1>3, <1>4, <1>5, <1>6, <1>7, <1>8, <1>9, <1>10, <1>11, <1>12, <1>13, <1>14
  DEF Execute

-----------------------------------------------------------------------------
(* The answers on their way, and the syncs that are planned.                *)

Shows(r) == r.at = "answered" /\ r.ok

TypedInv ==
  /\ core.client \in BOOLEAN
  /\ \A t \in Tasks : task[t].new \subseteq Items /\ task[t].todo \in Seq(Items \X Provider)

\* Each answer with a snapshot is on its way, once.
LineInv ==
  /\ line \in Seq(Tasks)
  /\ \A t \in Tasks : Shows(task[t]) <=> \E n \in 1 .. Len(line) : line[n] = t
  /\ \A m, n \in 1 .. Len(line) : line[m] = line[n] => m = n

\* What the window shows once all of them have come, in this order.
Latest == IF line = <<>> THEN shown ELSE task[line[Len(line)]].snap

CurrentInv == ~overtaken /\ ~missed => Latest = core \/ \E t \in Tasks : Owes(task[t])

Planned(r) == {r.todo[n] : n \in 1 .. Len(r.todo)}

\* A sync that is due is in the list of a function that goes on with it.
DueInv ==
  /\ \A t \in Tasks :
       /\ task[t].todo # <<>> => task[t].at # "idle" /\ task[t].call \in {"sync", "snapshot"}
       /\ At(t, "snapshot", "answered") => task[t].ok
  /\ \A x \in due : \E t \in Tasks : x \in Planned(task[t])

AnswerInv == TypedInv /\ LineInv /\ CurrentInv /\ DueInv

\* Nothing joins or leaves the line.
LEMMA LineStays ==
  ASSUME LineInv, line' = line, \A s \in Tasks : Shows(task'[s]) <=> Shows(task[s])
  PROVE  LineInv'
BY DEF LineInv

LEMMA LineGains ==
  ASSUME LineInv, NEW t \in Tasks, line' = Append(line, t), Shows(task'[t]), ~Shows(task[t]),
         \A s \in Tasks \ {t} : task'[s] = task[s]
  PROVE  LineInv' /\ line' # <<>> /\ line'[Len(line')] = t
<1>1. /\ line' \in Seq(Tasks) /\ Len(line') = Len(line) + 1 /\ line'[Len(line) + 1] = t
      /\ \A n \in 1 .. Len(line) : line'[n] = line[n]
      /\ Len(line) \in Nat
  BY DEF LineInv
<1>2. \A n \in 1 .. Len(line) : line[n] # t
  BY DEF LineInv
<1>3. \A s \in Tasks : Shows(task'[s]) <=> \E n \in 1 .. Len(line') : line'[n] = s
  <2> SUFFICES ASSUME NEW s \in Tasks
               PROVE  Shows(task'[s]) <=> \E n \in 1 .. Len(line') : line'[n] = s
    OBVIOUS
  <2>1. CASE s = t
    BY <1>1, <2>1
  <2>2. CASE s # t
    <3>1. Shows(task'[s]) <=> \E n \in 1 .. Len(line) : line[n] = s
      BY <2>2 DEF LineInv
    <3>2. (\E n \in 1 .. Len(line) : line[n] = s) <=> \E n \in 1 .. Len(line') : line'[n] = s
      BY <1>1, <2>2
    <3> QED
      BY <3>1, <3>2
  <2> QED
    BY <2>1, <2>2
<1>4. \A m, n \in 1 .. Len(line') : line'[m] = line'[n] => m = n
  <2> SUFFICES ASSUME NEW m \in 1 .. Len(line'), NEW n \in 1 .. Len(line'), line'[m] = line'[n]
               PROVE  m = n
    OBVIOUS
  <2>1. m \in 1 .. Len(line) \/ m = Len(line) + 1
    BY <1>1
  <2>2. n \in 1 .. Len(line) \/ n = Len(line) + 1
    BY <1>1
  <2> QED
    BY <1>1, <1>2, <2>1, <2>2 DEF LineInv
<1>5. line' # <<>> /\ line'[Len(line')] = t
  BY <1>1
<1> QED
  BY <1>1, <1>3, <1>4, <1>5 DEF LineInv

LEMMA Joined ==
  ASSUME NEW S, NEW a \in Seq(S), NEW b \in Seq(S)
  PROVE  a \o b \in Seq(S) /\ Len(a \o b) = Len(a) + Len(b)
OBVIOUS

\* w is s without its n-th element.
Lacks(w, s, n) ==
  /\ Len(w) = Len(s) - 1
  /\ \A k \in 1 .. Len(s) - 1 : w[k] = IF k < n THEN s[k] ELSE s[k + 1]

LEMMA Without ==
  ASSUME NEW S, NEW s \in Seq(S), NEW n \in 1 .. Len(s)
  PROVE  LET w == SubSeq(s, 1, n - 1) \o SubSeq(s, n + 1, Len(s)) IN
         w \in Seq(S) /\ Lacks(w, s, n)
<1>0. PICK L \in Nat : L = Len(s)
  OBVIOUS
<1>1. s \in [1 .. L -> S] /\ n \in 1 .. L
  BY <1>0
<1> DEFINE a == SubSeq(s, 1, n - 1)
           b == SubSeq(s, n + 1, L)
<1>2. a = [k \in 1 .. n - 1 |-> s[k]]
  BY <1>0, <1>1
<1>3. b = [k \in 1 .. L - n |-> s[k + n]]
  BY <1>0, <1>1
<1>4. a \in Seq(S) /\ Len(a) = n - 1
  BY <1>0, <1>1
<1>5. b \in Seq(S) /\ Len(b) = L - n
  BY <1>0, <1>1
<1> HIDE DEF a, b
<1>6. a \o b \in Seq(S) /\ Len(a \o b) = L - 1
  <2>1. n - 1 + (L - n) = L - 1
    BY <1>1
  <2> QED
    BY <1>4, <1>5, <2>1, Joined
<1>7. ASSUME NEW k \in 1 .. L - 1 PROVE (a \o b)[k] = IF k < n THEN s[k] ELSE s[k + 1]
  <2>1. CASE k < n
    BY <1>1, <1>2, <1>4, <1>5, <2>1
  <2>2. CASE ~(k < n)
    <3>1. PICK j \in 1 .. L - n : k = j + (n - 1)
      <4>1. k - (n - 1) \in 1 .. L - n /\ k = (k - (n - 1)) + (n - 1)
        BY <1>1, <2>2
      <4> QED
        BY <4>1
    <3>2. (a \o b)[k] = b[k - Len(a)]
      BY <1>1, <1>4, <1>5, <2>2
    <3>3. k - Len(a) = j /\ j + n = k + 1
      BY <1>1, <1>4, <3>1
    <3>4. b[j] = s[j + n]
      BY <1>3, <3>1
    <3> QED
      BY <2>2, <3>2, <3>3, <3>4
  <2> QED
    BY <2>1, <2>2
<1> QED
  BY <1>0, <1>6, <1>7 DEF a, b, Lacks

\* One that has no element twice.
LEMMA WithoutOne ==
  ASSUME NEW S, NEW s \in Seq(S), NEW n \in 1 .. Len(s),
         \A k, m \in 1 .. Len(s) : s[k] = s[m] => k = m,
         NEW w \in Seq(S), Lacks(w, s, n)
  PROVE  /\ \A k \in 1 .. Len(w) : w[k] # s[n] /\ \E m \in 1 .. Len(s) : s[m] = w[k]
         /\ \A m \in 1 .. Len(s) : m # n => \E k \in 1 .. Len(w) : w[k] = s[m]
         /\ \A k, m \in 1 .. Len(w) : w[k] = w[m] => k = m
         /\ n = 1 => IF Len(s) = 1 THEN w = <<>>
                     ELSE w # <<>> /\ w[Len(w)] = s[Len(s)] /\ s[Len(s)] # s[1]
<1>1. PICK L \in Nat : L = Len(s) /\ n \in 1 .. L
  OBVIOUS
<1> DEFINE old(k) == IF k < n THEN k ELSE k + 1
<1>2. /\ w \in Seq(S) /\ Len(w) = L - 1
      /\ \A k \in 1 .. L - 1 : w[k] = IF k < n THEN s[k] ELSE s[k + 1]
  BY <1>1 DEF Lacks
<1>3. ASSUME NEW k \in 1 .. L - 1
      PROVE  w[k] = s[old(k)] /\ old(k) \in 1 .. L /\ old(k) # n
  <2>1. w[k] = IF k < n THEN s[k] ELSE s[k + 1]
    BY <1>2
  <2>2. k \in 1 .. L /\ k + 1 \in 1 .. L /\ (k < n \/ k + 1 # n)
    BY <1>1
  <2> QED
    BY <2>1, <2>2
<1>4. \A k, m \in 1 .. L - 1 : old(k) = old(m) => k = m
  BY <1>1
<1>5. ASSUME NEW k \in 1 .. L, k # n PROVE \E m \in 1 .. L - 1 : old(m) = k
  <2>1. CASE k < n
    <3>1. k \in 1 .. L - 1 /\ old(k) = k
      BY <1>1, <2>1
    <3> QED
      BY <3>1
  <2>2. CASE n < k
    <3>1. k - 1 \in 1 .. L - 1 /\ old(k - 1) = k
      BY <1>1, <2>2
    <3> QED
      BY <3>1
  <2> QED
    BY <1>1, <1>5, <2>1, <2>2
<1>6. n = 1 /\ L # 1 => L - 1 \in 1 .. L - 1 /\ old(L - 1) = L
  BY <1>1
<1> HIDE DEF old
<1>7. ASSUME NEW k \in 1 .. L - 1 PROVE w[k] # s[n] /\ \E m \in 1 .. L : s[m] = w[k]
  BY <1>1, <1>3
<1>8. ASSUME NEW m \in 1 .. L, m # n PROVE \E k \in 1 .. L - 1 : w[k] = s[m]
  BY <1>3, <1>5, <1>8
<1>9. ASSUME NEW k \in 1 .. L - 1, NEW m \in 1 .. L - 1, w[k] = w[m] PROVE k = m
  <2>1. s[old(k)] = s[old(m)] /\ old(k) \in 1 .. Len(s) /\ old(m) \in 1 .. Len(s)
    BY <1>1, <1>3, <1>9
  <2> QED
    BY <1>4, <2>1
<1>10. ASSUME n = 1
      PROVE  IF L = 1 THEN w = <<>> ELSE w # <<>> /\ w[L - 1] = s[L] /\ s[L] # s[1]
  <2>1. CASE L = 1
    <3>1. w \in Seq(S) /\ Len(w) = 0
      BY <1>2, <2>1
    <3>2. w = <<>>
      BY <3>1
    <3> QED
      BY <2>1, <3>2
  <2>2. CASE L # 1
    <3>1. w[L - 1] = s[L] /\ L \in 1 .. L
      BY <1>1, <1>3, <1>6, <1>10, <2>2
    <3>2. s[L] # s[1]
      BY <1>1, <1>10, <2>2
    <3>3. w # <<>>
      <4>1. Len(w) # 0
        BY <1>2, <2>2
      <4> QED
        BY <4>1
    <3> QED
      BY <3>1, <3>2, <3>3
  <2> QED
    BY <2>1, <2>2
<1>11. w \in Seq(S) /\ Len(w) = L - 1 /\ Len(s) = L
  BY <1>1, <1>2
<1> QED
  BY <1>7, <1>8, <1>9, <1>10, <1>11

LEMMA LineLoses ==
  ASSUME LineInv, NEW t \in Tasks, NEW n \in 1 .. Len(line), line[n] = t,
         line' \in Seq(Tasks), Lacks(line', line, n),
         ~Shows(task'[t]), \A s \in Tasks \ {t} : Shows(task'[s]) <=> Shows(task[s])
  PROVE  /\ LineInv'
         /\ n = 1 => IF Len(line) = 1 THEN line' = <<>>
                     ELSE line' # <<>> /\ line'[Len(line')] = line[Len(line)] /\ line[Len(line)] # t
<1>1. line \in Seq(Tasks) /\ \A k, m \in 1 .. Len(line) : line[k] = line[m] => k = m
  BY DEF LineInv
<1>2. PICK w : w = line'
  OBVIOUS
<1>3. /\ w \in Seq(Tasks)
      /\ \A k \in 1 .. Len(w) : w[k] # line[n] /\ \E m \in 1 .. Len(line) : line[m] = w[k]
      /\ \A m \in 1 .. Len(line) : m # n => \E k \in 1 .. Len(w) : w[k] = line[m]
      /\ \A k, m \in 1 .. Len(w) : w[k] = w[m] => k = m
      /\ n = 1 => IF Len(line) = 1 THEN w = <<>>
                  ELSE w # <<>> /\ w[Len(w)] = line[Len(line)] /\ line[Len(line)] # line[1]
  <2>1. w \in Seq(Tasks) /\ Lacks(w, line, n)
    BY <1>2
  <2> QED
    <3>1. \A k \in 1 .. Len(w) : w[k] # line[n] /\ \E m \in 1 .. Len(line) : line[m] = w[k]
      BY <1>1, <2>1, WithoutOne
    <3>2. \A m \in 1 .. Len(line) : m # n => \E k \in 1 .. Len(w) : w[k] = line[m]
      BY <1>1, <2>1, WithoutOne
    <3>3. /\ \A k, m \in 1 .. Len(w) : w[k] = w[m] => k = m
      BY <1>1, <2>1, WithoutOne
    <3>4. n = 1 => IF Len(line) = 1 THEN w = <<>>
                   ELSE w # <<>> /\ w[Len(w)] = line[Len(line)] /\ line[Len(line)] # line[1]
      BY <1>1, <2>1, WithoutOne
    <3> QED
      BY <2>1, <3>1, <3>2, <3>3, <3>4
<1>4. ASSUME NEW s \in Tasks
      PROVE  Shows(task'[s]) <=> \E k \in 1 .. Len(line') : line'[k] = s
  <2>1. Shows(task'[s]) <=> s # t /\ \E k \in 1 .. Len(line) : line[k] = s
    BY DEF LineInv
  <2>2. (\E k \in 1 .. Len(w) : w[k] = s) => s # t /\ \E k \in 1 .. Len(line) : line[k] = s
    BY <1>3
  <2>3. ASSUME s # t, NEW k \in 1 .. Len(line), line[k] = s PROVE \E m \in 1 .. Len(w) : w[m] = s
    <3>1. k # n
      BY <2>3
    <3> QED
      BY <1>3, <2>3, <3>1
  <2> QED
    BY <1>2, <2>1, <2>2, <2>3
<1> QED
  BY <1>2, <1>3, <1>4 DEF LineInv

\* Nothing changes the state or what the last answer shows, and who owes still does.
LEMMA CurrentStays ==
  ASSUME LineInv, CurrentInv, UNCHANGED <<core, shown, line>>,
         overtaken => overtaken', missed => missed',
         \A s \in Tasks : Shows(task[s]) => task'[s].snap = task[s].snap,
         \A s \in Tasks : Owes(task[s]) => Owes(task'[s])
  PROVE  CurrentInv'
<1>1. CASE line = <<>>
  BY <1>1 DEF CurrentInv, Latest
<1>2. CASE line # <<>>
  <2>1. line[Len(line)] \in Tasks /\ Shows(task[line[Len(line)]])
    <3>1. Len(line) \in 1 .. Len(line) /\ line[Len(line)] \in Tasks
      BY <1>2 DEF LineInv
    <3> QED
      BY <3>1 DEF LineInv
  <2>2. Latest' = Latest
    BY <1>2, <2>1 DEF Latest
  <2> QED
    BY <2>2 DEF CurrentInv
<1> QED
  BY <1>1, <1>2

\* A function that moves on with the syncs it had.
LEMMA DueStays ==
  ASSUME DueInv, due' = due, NEW t \in Tasks, \A s \in Tasks \ {t} : task'[s] = task[s],
         task'[t].todo = task[t].todo, task'[t].at # "idle",
         task[t].call \in {"sync", "snapshot"} => task'[t].call \in {"sync", "snapshot"},
         At(t, "snapshot", "answered")' => task'[t].ok
  PROVE  DueInv'
<1>1. \A s \in Tasks : /\ task'[s].todo # <<>> => task'[s].at # "idle" /\ task'[s].call \in {"sync", "snapshot"}
                       /\ At(s, "snapshot", "answered")' => task'[s].ok
  BY DEF DueInv, At
<1>2. \A s \in Tasks : Planned(task'[s]) = Planned(task[s])
  BY DEF Planned
<1> QED
  BY <1>1, <1>2 DEF DueInv

LEMMA CommandShows ==
  ASSUME Inv, AnswerInv, NEW t \in Tasks, Execute(t), UNCHANGED windowVars
  PROVE  AnswerInv'
<1>1. /\ Moved(t) /\ Answers(t) /\ (missed => missed') /\ core'.client \in BOOLEAN
      /\ task[t].at # "answered" /\ UNCHANGED <<shown, overtaken, due>>
  <2>1. task[t].at # "answered"
    BY DEF Execute, Snapshot, AddItems, DeleteItem, BeginSync, EndSync, BeginConnect, SaveToken,
       Connected, BeginCheck, EndCheck, DeleteToken, Disconnected, SetAutoSync, ClearClient, At
  <2> QED
    BY <2>1, CommandMoves, CommandAnswers DEF Inv, AnswerInv, TypedInv, windowVars
<1>2. /\ \A s \in Tasks \ {t} : task'[s] = task[s]
      /\ task'[t].call = task[t].call /\ task'[t].todo = task[t].todo /\ task'[t].at # "idle"
  BY <1>1 DEF Moved
<1>3. TypedInv'
  <2>1. task'[t].new \subseteq Items
    BY <1>1 DEF Answers, AnswerInv, TypedInv
  <2> QED
    BY <1>1, <1>2, <2>1 DEF AnswerInv, TypedInv
<1>4. DueInv'
  <2>1. At(t, "snapshot", "answered")' => task'[t].ok
    BY <1>1, <1>2 DEF At, Answers
  <2> QED
    BY <1>1, <1>2, <2>1, DueStays DEF AnswerInv
<1>5. ~Shows(task[t])
  BY <1>1 DEF Shows
<1>6. CASE task'[t].at = "answered" /\ task'[t].ok
  <2>1. line' = Append(line, t) /\ task'[t].snap = core'
    BY <1>1, <1>6 DEF Answers
  <2>2. LineInv' /\ line' # <<>> /\ line'[Len(line')] = t
    BY <1>2, <1>5, <1>6, <2>1, LineGains DEF AnswerInv, Shows
  <2>3. CurrentInv'
    BY <2>1, <2>2 DEF CurrentInv, Latest
  <2> QED
    BY <1>3, <1>4, <2>2, <2>3 DEF AnswerInv
<1>7. CASE ~(task'[t].at = "answered" /\ task'[t].ok)
  <2>1. /\ task'[t].snap = task[t].snap /\ line' = line
        /\ missed' \/ Owes(task'[t]) \/ (core' = core /\ ~Owes(task[t]))
    BY <1>1, <1>7 DEF Answers
  <2>2. ~Shows(task'[t])
    BY <1>7 DEF Shows
  <2>3. LineInv'
    BY <1>2, <1>5, <2>1, <2>2, LineStays DEF AnswerInv
  <2>4. CurrentInv'
    <3>1. CASE missed' \/ Owes(task'[t])
      BY <3>1 DEF CurrentInv
    <3>2. CASE core' = core /\ ~Owes(task[t])
      <4>1. \A s \in Tasks : task'[s].snap = task[s].snap /\ (Owes(task[s]) => Owes(task'[s]))
        BY <1>2, <2>1, <3>2
      <4> QED
        BY <1>1, <2>1, <3>2, <4>1, CurrentStays DEF AnswerInv
    <3> QED
      BY <2>1, <3>1, <3>2
  <2> QED
    BY <1>3, <1>4, <2>3, <2>4 DEF AnswerInv
<1> QED
  BY <1>6, <1>7

LEMMA StartShows ==
  ASSUME Inv, AnswerInv, NEW t \in Tasks, NEW fn, NEW i, NEW p, NEW on, NEW mounted,
         Start(t, fn, i, p, on, mounted)
  PROVE  AnswerInv'
<1>1. /\ \A s \in Tasks \ {t} : task'[s] = task[s]
      /\ task[t].at = "idle" /\ task'[t].at = "sent" /\ task'[t].todo = <<>> /\ task'[t].new = {}
      /\ UNCHANGED <<core, line, missed, shown, due, overtaken>>
  BY Started DEF Inv
<1>2. ~Shows(task[t]) /\ ~Shows(task'[t]) /\ ~Owes(task[t]) /\ task[t].todo = <<>>
  BY <1>1 DEF Shows, Owes, AnswerInv, DueInv
<1>3. TypedInv'
  <2>1. task'[t].new \subseteq Items /\ task'[t].todo \in Seq(Items \X Provider)
    BY <1>1
  <2>2. \A s \in Tasks : task'[s].new \subseteq Items /\ task'[s].todo \in Seq(Items \X Provider)
    BY <1>1, <2>1 DEF AnswerInv, TypedInv
  <2> QED
    BY <1>1, <2>2 DEF AnswerInv, TypedInv
<1>4. LineInv'
  BY <1>1, <1>2, LineStays DEF AnswerInv
<1>5. CurrentInv'
  <2>1. \A s \in Tasks : /\ Shows(task[s]) => task'[s].snap = task[s].snap
                         /\ Owes(task[s]) => Owes(task'[s])
    BY <1>1, <1>2
  <2> QED
    BY <1>1, <2>1, CurrentStays DEF AnswerInv
<1>6. DueInv'
  <2>1. \A s \in Tasks : /\ task'[s].todo # <<>> => task'[s].at # "idle" /\ task'[s].call \in {"sync", "snapshot"}
                         /\ At(s, "snapshot", "answered")' => task'[s].ok
    BY <1>1 DEF AnswerInv, DueInv, At
  <2>2. \A s \in Tasks : Planned(task'[s]) = Planned(task[s])
    BY <1>1, <1>2 DEF Planned
  <2> QED
    BY <1>1, <2>1, <2>2 DEF AnswerInv, DueInv
<1> QED
  BY <1>3, <1>4, <1>5, <1>6 DEF AnswerInv

LEMMA ClickShows ==
  ASSUME Inv, AnswerInv, NEW t \in Tasks, Click(t)
  PROVE  AnswerInv'
<1>1. \E fn, i, p, on, mounted : Start(t, fn, i, p, on, mounted)
  BY DEF Click, PickFiles, DropFiles, Import, ClickRescan, ClickDelete, ClickSync, DriveConnect,
     DriveRefresh, DriveDisconnect, DriveToggle, DriveClear, TelegramConnect, TelegramTest,
     TelegramDisconnect, TelegramToggle, StartOnFile, StartPlain, StartFlagged
<1> QED
  BY <1>1, StartShows

\* The next sync takes the head of the list, and the rest along.
LEMMA Continued ==
  ASSUME Inv, NEW t \in Tasks, NEW todo \in Seq(Items \X Provider), Continue(t, todo)
  PROVE  /\ \A s \in Tasks \ {t} : task'[s] = task[s]
         /\ task'[t].new = {}
         /\ IF todo = <<>> THEN task'[t].at = "idle" /\ task'[t].todo = <<>>
            ELSE task'[t].at = "sent" /\ task'[t].call = "sync" /\ task'[t].todo = Tail(todo)
<1> DEFINE r == [Idle EXCEPT !.fn = "import", !.call = "sync", !.at = "sent",
                   !.item = Head(todo)[1], !.provider = Head(todo)[2], !.todo = Tail(todo)]
<1>1. /\ r = [f \in Fields |-> r[f]] /\ r.call = "sync" /\ r.at = "sent" /\ r.new = {}
      /\ r.todo = Tail(todo)
  BY DEF Idle, Fields
<1>2. /\ Idle = [f \in Fields |-> Idle[f]] /\ Idle.at = "idle" /\ Idle.todo = <<>> /\ Idle.new = {}
  BY DEF Idle, Fields
<1>3. task' = [task EXCEPT ![t] = IF todo = <<>> THEN Idle ELSE r]
  BY DEF Continue
<1> HIDE DEF r
<1>4. CASE todo = <<>>
  <2>1. task' = [task EXCEPT ![t] = Idle]
    BY <1>3, <1>4
  <2>2. task'[t] = Idle /\ \A s \in Tasks \ {t} : task'[s] = task[s]
    BY <1>2, <2>1, Replaced DEF Inv
  <2> QED
    BY <1>2, <1>4, <2>2
<1>5. CASE todo # <<>>
  <2>1. task' = [task EXCEPT ![t] = r]
    BY <1>3, <1>5
  <2>2. task'[t] = r /\ \A s \in Tasks \ {t} : task'[s] = task[s]
    BY <1>1, <2>1, Replaced DEF Inv
  <2> QED
    BY <1>1, <1>5, <2>2
<1> QED
  BY <1>4, <1>5

\* What is tried leaves the list and the debt at once.
LEMMA ContinueTries ==
  ASSUME Inv, AnswerInv, NEW t \in Tasks, NEW todo \in Seq(Items \X Provider), Continue(t, todo),
         \A x \in due' : /\ x \in due \/ \E n \in 1 .. Len(todo) : x = todo[n]
                         /\ todo # <<>> => x # Head(todo),
         Planned(task[t]) \subseteq {todo[n] : n \in 1 .. Len(todo)}, core'.client = core.client
  PROVE  TypedInv' /\ DueInv'
<1>1. /\ \A s \in Tasks \ {t} : task'[s] = task[s]
      /\ task'[t].new = {}
      /\ IF todo = <<>> THEN task'[t].at = "idle" /\ task'[t].todo = <<>>
         ELSE task'[t].at = "sent" /\ task'[t].call = "sync" /\ task'[t].todo = Tail(todo)
  BY Continued
<1>2. TypedInv'
  <2>1. task'[t].todo \in Seq(Items \X Provider)
    <3>1. todo # <<>> => Tail(todo) \in Seq(Items \X Provider)
      OBVIOUS
    <3>2. <<>> \in Seq(Items \X Provider)
      OBVIOUS
    <3> QED
      BY <1>1, <3>1, <3>2
  <2> QED
    BY <1>1, <2>1 DEF AnswerInv, TypedInv
<1>3. \A s \in Tasks : /\ task'[s].todo # <<>> => task'[s].at # "idle" /\ task'[s].call \in {"sync", "snapshot"}
                       /\ At(s, "snapshot", "answered")' => task'[s].ok
  BY <1>1 DEF AnswerInv, DueInv, At
<1>4. ASSUME NEW n \in 1 .. Len(todo), todo[n] # Head(todo)
      PROVE  todo[n] \in Planned(task'[t])
  <2>1. PICK L \in Nat : L = Len(todo) /\ n \in 1 .. L
    OBVIOUS
  <2>2. todo # <<>> /\ n # 1
    BY <1>4, <2>1
  <2>3. Len(Tail(todo)) = L - 1 /\ \A k \in 1 .. L - 1 : Tail(todo)[k] = todo[k + 1]
    BY <2>1, <2>2
  <2>4. PICK k \in 1 .. L - 1 : n = k + 1
    <3>1. n - 1 \in 1 .. L - 1 /\ n = (n - 1) + 1
      BY <2>1, <2>2
    <3> QED
      BY <3>1
  <2>5. task'[t].todo = Tail(todo) /\ Tail(todo)[k] = todo[n]
    BY <1>1, <2>2, <2>3, <2>4
  <2> QED
    BY <2>3, <2>4, <2>5 DEF Planned
<1>5. ASSUME NEW x \in due' PROVE \E s \in Tasks : x \in Planned(task'[s])
  <2>1. CASE \E n \in 1 .. Len(todo) : x = todo[n]
    <3>1. PICK n \in 1 .. Len(todo) : x = todo[n]
      BY <2>1
    <3>2. todo # <<>>
      BY <3>1
    <3> QED
      BY <1>4, <1>5, <3>1, <3>2
  <2>2. CASE ~\E n \in 1 .. Len(todo) : x = todo[n]
    <3>1. PICK s \in Tasks : x \in Planned(task[s])
      BY <1>5, <2>2 DEF AnswerInv, DueInv
    <3>2. s # t
      BY <2>2, <3>1
    <3> QED
      BY <1>1, <3>1, <3>2
  <2> QED
    BY <2>1, <2>2
<1> QED
  BY <1>2, <1>3, <1>5 DEF DueInv

LEMMA AnswerShows ==
  ASSUME Inv, AnswerInv, NEW t \in Tasks, Answer(t)
  PROVE  AnswerInv'
<1> DEFINE plan == Plan(task[t].snap, task[t].new)
           todo == IF task[t].call = "import" THEN plan ELSE task[t].todo
<1>1. /\ task[t].at = "answered" /\ task[t].ok /\ Continue(t, todo)
      /\ due' = (IF task[t].call = "import" THEN due \cup {plan[n] : n \in DOMAIN plan} ELSE due)
                  \ (IF todo = <<>> THEN {} ELSE {Head(todo)})
      /\ UNCHANGED <<core, missed>>
  BY DEF Answer
<1>2. plan \in Seq(Items \X Provider)
  BY PlanIsSequence DEF AnswerInv, TypedInv
<1>3. todo \in Seq(Items \X Provider)
  BY <1>2 DEF AnswerInv, TypedInv
<1>4. TypedInv' /\ DueInv'
  <2>1. ASSUME NEW x \in due'
        PROVE  /\ x \in due \/ \E n \in 1 .. Len(todo) : x = todo[n]
               /\ todo # <<>> => x # Head(todo)
    <3>1. DOMAIN plan = 1 .. Len(plan)
      BY <1>2
    <3>2. todo # <<>> => x # Head(todo)
      BY <1>1, <2>1
    <3>3. x \in due \/ (task[t].call = "import" /\ \E n \in DOMAIN plan : x = plan[n])
      BY <1>1, <2>1
    <3> QED
      BY <3>1, <3>2, <3>3
  <2>2. Planned(task[t]) \subseteq {todo[n] : n \in 1 .. Len(todo)}
    <3>1. CASE task[t].call = "import"
      <4>1. task[t].todo = <<>>
        BY <3>1 DEF AnswerInv, DueInv
      <4> QED
        BY <4>1 DEF Planned
    <3>2. CASE task[t].call # "import"
      BY <3>2 DEF Planned
    <3> QED
      BY <3>1, <3>2
  <2> HIDE DEF todo
  <2> QED
    BY <1>1, <1>3, <2>1, <2>2, ContinueTries
<1>5. /\ \A s \in Tasks \ {t} : task'[s] = task[s]
      /\ task'[t].at \in {"idle", "sent"}
  <2> HIDE DEF todo
  <2> QED
    BY <1>1, <1>3, Continued
<1>6. ~Shows(task'[t]) /\ ~Owes(task[t])
  BY <1>1, <1>5 DEF Shows, Owes
<1>7. PICK n \in 1 .. Len(line) :
        /\ line[n] = t /\ shown' = task[t].snap /\ overtaken' = (overtaken \/ n # 1)
        /\ line' = SubSeq(line, 1, n - 1) \o SubSeq(line, n + 1, Len(line))
  <2>1. DOMAIN line = 1 .. Len(line)
    BY DEF AnswerInv, LineInv
  <2>2. Show(t)
    BY DEF Answer
  <2> QED
    BY <2>1, <2>2 DEF Show
<1>8. line' \in Seq(Tasks) /\ Lacks(line', line, n)
  BY <1>7, Without DEF AnswerInv, LineInv
<1>9. /\ LineInv'
      /\ n = 1 => IF Len(line) = 1 THEN line' = <<>>
                  ELSE line' # <<>> /\ line'[Len(line')] = line[Len(line)] /\ line[Len(line)] # t
  <2>1. \A s \in Tasks \ {t} : Shows(task'[s]) <=> Shows(task[s])
    BY <1>5
  <2> QED
    BY <1>6, <1>7, <1>8, <2>1, LineLoses DEF AnswerInv
<1>10. CurrentInv'
  <2> SUFFICES ASSUME ~overtaken', ~missed'
               PROVE  Latest' = core' \/ \E s \in Tasks : Owes(task'[s])
    BY DEF CurrentInv
  <2>1. n = 1 /\ ~overtaken /\ ~missed /\ line # <<>>
    <3>1. ~(overtaken \/ n # 1) /\ ~missed
      BY <1>1, <1>7
    <3>2. line # <<>>
      OBVIOUS
    <3> QED
      BY <3>1, <3>2
  <2>2. Latest' = Latest
    <3>1. CASE Len(line) = 1
      BY <1>7, <1>9, <2>1, <3>1 DEF Latest
    <3>2. CASE Len(line) # 1
      <4>1. line[Len(line)] \in Tasks \ {t} /\ line' # <<>> /\ line'[Len(line')] = line[Len(line)]
        <5>1. Len(line) \in 1 .. Len(line) /\ line \in Seq(Tasks)
          BY <2>1 DEF AnswerInv, LineInv
        <5> QED
          BY <1>9, <2>1, <3>2, <5>1
      <4> QED
        BY <1>5, <2>1, <4>1 DEF Latest
    <3> QED
      BY <3>1, <3>2
  <2>3. \A s \in Tasks : Owes(task[s]) => Owes(task'[s])
    BY <1>5, <1>6
  <2> QED
    BY <1>1, <2>1, <2>2, <2>3 DEF AnswerInv, CurrentInv
<1> QED
  BY <1>4, <1>9, <1>10 DEF AnswerInv

LEMMA AnswerErrorShows ==
  ASSUME Inv, AnswerInv, NEW t \in Tasks, AnswerError(t)
  PROVE  AnswerInv'
<1>1. /\ task[t].at = "answered" /\ ~task[t].ok
      /\ UNCHANGED <<core, line, missed, shown, due, overtaken>>
  BY DEF AnswerError
<1>2. ~Shows(task[t])
  BY <1>1 DEF Shows
<1>3. CASE task[t].call = "sync"
  <2> DEFINE r == [task[t] EXCEPT !.call = "snapshot", !.at = "sent"]
  <2>1. task' = [task EXCEPT ![t] = r]
    BY <1>3 DEF AnswerError, Inv, TaskShape
  <2>2. task[t] = [f \in Fields |-> task[t][f]]
    BY DEF Inv, TaskShape
  <2>3. /\ r = [f \in Fields |-> r[f]] /\ r.call = "snapshot" /\ r.at = "sent"
        /\ r.todo = task[t].todo /\ r.new = task[t].new
    BY <2>2 DEF Fields
  <2> HIDE DEF r
  <2>4. task'[t] = r /\ \A s \in Tasks \ {t} : task'[s] = task[s]
    BY <2>1, <2>3, Replaced DEF Inv
  <2>5. ~Shows(task'[t]) /\ Owes(task'[t])
    BY <2>3, <2>4 DEF Shows, Owes
  <2>6. TypedInv'
    BY <1>1, <2>3, <2>4 DEF AnswerInv, TypedInv
  <2>7. LineInv'
    BY <1>1, <1>2, <2>4, <2>5, LineStays DEF AnswerInv
  <2>8. CurrentInv'
    BY <2>5 DEF CurrentInv
  <2>9. DueInv'
    BY <1>1, <2>3, <2>4, DueStays DEF AnswerInv, At
  <2> QED
    BY <2>6, <2>7, <2>8, <2>9 DEF AnswerInv
<1>4. CASE task[t].call # "sync"
  <2>1. Continue(t, <<>>)
    BY <1>4 DEF AnswerError
  <2>2. task[t].todo = <<>>
    BY <1>1, <1>4 DEF AnswerInv, DueInv, At
  <2>3. <<>> \in Seq(Items \X Provider) /\ Planned(task[t]) = {}
    BY <2>2 DEF Planned
  <2>4. TypedInv' /\ DueInv'
    BY <1>1, <2>1, <2>3, ContinueTries
  <2>5. task'[t].at = "idle" /\ \A s \in Tasks \ {t} : task'[s] = task[s]
    BY <2>1, <2>3, Continued
  <2>6. ~Shows(task'[t]) /\ ~Owes(task[t])
    <3>1. task[t].call # "snapshot"
      BY <1>1 DEF AnswerInv, DueInv, At
    <3> QED
      BY <1>1, <1>4, <2>5, <3>1 DEF Shows, Owes
  <2>7. LineInv'
    BY <1>1, <1>2, <2>5, <2>6, LineStays DEF AnswerInv
  <2>8. CurrentInv'
    <3>1. \A s \in Tasks : /\ Shows(task[s]) => task'[s].snap = task[s].snap
                           /\ Owes(task[s]) => Owes(task'[s])
      BY <1>2, <2>5, <2>6
    <3> QED
      BY <1>1, <3>1, CurrentStays DEF AnswerInv
  <2> QED
    BY <2>4, <2>7, <2>8 DEF AnswerInv
<1> QED
  BY <1>3, <1>4

LEMMA ChangeViewShows ==
  ASSUME Inv, AnswerInv, ChangeView
  PROVE  AnswerInv'
<1> DEFINE r(t) == [task[t] EXCEPT !.mounted = FALSE]
<1>1. ASSUME NEW t \in Tasks
      PROVE  /\ r(t).call = task[t].call /\ r(t).at = task[t].at /\ r(t).ok = task[t].ok
             /\ r(t).on = task[t].on /\ r(t).snap = task[t].snap /\ r(t).new = task[t].new
             /\ r(t).todo = task[t].todo
  <2>1. task[t] = [f \in Fields |-> task[t][f]]
    BY DEF Inv, TaskShape
  <2> QED
    BY <2>1 DEF Fields
<1>2. task' = [t \in Tasks |-> r(t)] /\ UNCHANGED <<core, line, missed, shown, due, overtaken>>
  BY DEF ChangeView
<1> HIDE DEF r
<1>3. ASSUME NEW t \in Tasks
      PROVE  /\ task'[t].call = task[t].call /\ task'[t].at = task[t].at /\ task'[t].ok = task[t].ok
             /\ task'[t].on = task[t].on /\ task'[t].snap = task[t].snap
             /\ task'[t].new = task[t].new /\ task'[t].todo = task[t].todo
  BY <1>1, <1>2
<1>4. \A t \in Tasks : /\ Shows(task'[t]) <=> Shows(task[t])
                       /\ Owes(task'[t]) <=> Owes(task[t])
                       /\ Planned(task'[t]) = Planned(task[t])
  BY <1>3 DEF Shows, Owes, Planned
<1>5. TypedInv'
  BY <1>2, <1>3 DEF AnswerInv, TypedInv
<1>6. LineInv'
  BY <1>2, <1>4, LineStays DEF AnswerInv
<1>7. CurrentInv'
  BY <1>2, <1>3, <1>4, CurrentStays DEF AnswerInv
<1>8. DueInv'
  BY <1>2, <1>3, <1>4 DEF AnswerInv, DueInv, At
<1> QED
  BY <1>5, <1>6, <1>7, <1>8 DEF AnswerInv

LEMMA AnswerInit == Init => AnswerInv
<1> SUFFICES ASSUME Init PROVE AnswerInv
  OBVIOUS
<1> DEFINE first == [Idle EXCEPT !.fn = "refresh", !.call = "snapshot", !.at = "sent"]
<1>1. PICK t \in Tasks : task = [[s \in Tasks |-> Idle] EXCEPT ![t] = first]
  BY DEF Init
<1>2. /\ Idle.at = "idle" /\ Idle.new = {} /\ Idle.todo = <<>>
      /\ first.at = "sent" /\ first.call = "snapshot" /\ first.new = {} /\ first.todo = <<>>
  BY DEF Idle
<1> HIDE DEF first
<1>3. task[t] = first /\ \A s \in Tasks : task[s] \in {Idle, first}
  BY <1>1
<1>4. \A s \in Tasks : ~Shows(task[s]) /\ task[s].new = {} /\ task[s].todo = <<>> /\ task[s].at # "answered"
  BY <1>2, <1>3 DEF Shows
<1>5. line = <<>> /\ due = {}
  BY DEF Init
<1>6. TypedInv
  <2>1. core.client \in BOOLEAN
    BY StartsAssumption DEF Init, Core
  <2>2. <<>> \in Seq(Items \X Provider)
    OBVIOUS
  <2> QED
    BY <1>4, <2>1, <2>2 DEF TypedInv
<1>7. LineInv
  <2>1. line \in Seq(Tasks) /\ Len(line) = 0
    BY <1>5
  <2> QED
    BY <1>4, <2>1 DEF LineInv
<1>8. CurrentInv
  BY <1>2, <1>3 DEF CurrentInv, Owes
<1>9. DueInv
  BY <1>4, <1>5 DEF DueInv, At
<1> QED
  BY <1>6, <1>7, <1>8, <1>9 DEF AnswerInv

LEMMA AnswerNext ==
  ASSUME Inv, AnswerInv, [Next]_vars
  PROVE  AnswerInv'
<1>1. CASE ChangeView
  BY <1>1, ChangeViewShows
<1>2. ASSUME NEW t \in Tasks, Click(t) PROVE AnswerInv'
  BY <1>2, ClickShows
<1>3. ASSUME NEW t \in Tasks, Step(t) PROVE AnswerInv'
  BY <1>3, CommandShows, AnswerShows, AnswerErrorShows DEF Step
<1>4. CASE UNCHANGED vars
  <2>1. UNCHANGED <<core, task, line, missed, shown, due, overtaken>>
    BY <1>4 DEF vars, coreVars, windowVars
  <2> QED
    BY <2>1 DEF AnswerInv, TypedInv, LineInv, CurrentInv, Latest, DueInv, At
<1> QED
  BY <1>1, <1>2, <1>3, <1>4 DEF Next

LEMMA AnswerCorrect == Spec => []AnswerInv
<1> QED
  BY AnswerInit, AnswerNext, InvCorrect, PTL DEF Spec

(* When nothing runs any more the window shows the state as it is, unless   *)
(* an answer came after a later one or a failed save was missed: however    *)
(* many functions overlap, and whatever fails, the last snapshot is of the  *)
(* last change.                                                             *)
THEOREM ShownCorrect == Spec => []ShowsCurrent
<1>1. AnswerInv => ShowsCurrent
  <2> SUFFICES ASSUME AnswerInv, Quiet, ~overtaken, ~missed PROVE shown = core
    BY DEF ShowsCurrent
  <2>1. line = <<>>
    <3>1. \A n \in 1 .. Len(line) : line[n] \in Tasks /\ Shows(task[line[n]])
      BY DEF AnswerInv, LineInv
    <3>2. \A s \in Tasks : ~Shows(task[s])
      BY DEF Quiet, Shows
    <3>3. line \in Seq(Tasks) /\ ~\E n \in 1 .. Len(line) : TRUE
      BY <3>1, <3>2 DEF AnswerInv, LineInv
    <3> QED
      BY <3>3
  <2>2. \A s \in Tasks : ~Owes(task[s])
    BY DEF Quiet, Owes
  <2> QED
    BY <2>1, <2>2 DEF AnswerInv, CurrentInv, Latest
<1> QED
  BY <1>1, AnswerCorrect, PTL

(* When nothing runs any more, every sync that an import had planned has    *)
(* been tried, whatever became of those before it.                          *)
THEOREM TriesCorrect == Spec => []ImportTriesAll
<1>1. AnswerInv => ImportTriesAll
  <2> SUFFICES ASSUME AnswerInv, Quiet PROVE due = {}
    BY DEF ImportTriesAll
  <2>1. \A t \in Tasks : Planned(task[t]) = {}
    BY DEF AnswerInv, DueInv, Quiet, Planned
  <2> QED
    BY <2>1 DEF AnswerInv, DueInv
<1> QED
  BY <1>1, AnswerCorrect, PTL
=============================================================================
