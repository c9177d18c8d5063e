--------------------------- MODULE UploadPipeline ---------------------------
(***************************************************************************)
(* Uploads into the hosted foundation, up to the queue: handleFiles of the *)
(* web page opens an upload session and posts its files one after the      *)
(* other; the API (apps/api/src/uploads) stages each file, records it,     *)
(* routes it and puts a job for each chosen account into the queue.  The   *)
(* handler is cut at its awaits.  PoolRouting says what routing returns.   *)
(***************************************************************************)
EXTENDS Naturals, FiniteSets

CONSTANTS
  Items,       \* posts of a file, each with a staged file of its own
  Accounts,    \* provider accounts
  Sessions,    \* identifiers of upload sessions
  Configs,     \* what is configured: a subset of the three below
  Routes,      \* what routing may return for each item: sets of accounts, {} to reject
  MaxFaults,   \* bound: failed statements, lost answers, stalls and restarts
  Nil

VARIABLES
  config,   \* this deployment
  page,     \* the page: what it does, its session, the files to post and those accepted
  session,  \* an upload session in the map of the API, in the database
  expired,  \* sessions past their hour
  post,     \* the handler of each post
  rows,     \* what the database has for a post
  staged,   \* the staged files on disk
  job,      \* the queue, by post and account
  faults

pipelineVars == <<config, page, session, expired, post, rows, staged, job, faults>>

Jobs == Items \X Accounts
NoJob == [state |-> "none", owner |-> Nil, tries |-> 0, stalls |-> 0]
NewJob == [NoJob EXCEPT !.state = "waiting"]

AllRows == {"item", "resource", "decision"}
NoPost == [at |-> "none", session |-> Nil, chosen |-> {}, left |-> {}]
Accepting == {"queued", "blocked", "staged"}
Working == {"check", "record", "route", "resource", "decide", "enqueue"}

PipelineInit ==
  /\ config \in Configs
  /\ page = [at |-> "idle", session |-> Nil, todo |-> {},
             current |-> Nil, done |-> {}]
  /\ session = [s \in Sessions |-> [memory |-> FALSE, row |-> FALSE]]
  /\ expired = {}
  /\ post = [i \in Items |-> NoPost]
  /\ rows = [i \in Items |-> {}]
  /\ staged = {}
  /\ job = [j \in Jobs |-> NoJob]
  /\ faults = 0

Fault == faults < MaxFaults /\ faults' = faults + 1

-----------------------------------------------------------------------------
(* The page.                                                                *)

Fresh(s) == session[s] = [memory |-> FALSE, row |-> FALSE] /\ s \notin expired

(* Mutant: an error message does not stop the loop over the files.          *)
ReadAnswerUnchecked ==
  /\ page.at = "wait" /\ post[page.current].at \notin Working
  /\ page' = [page EXCEPT !.at = IF page.todo = {} THEN "staged" ELSE "post",
                          !.done = @ \cup {page.current}]
  /\ UNCHANGED <<config, session, expired, post, rows, staged, job, faults>>

\* Sessions bound how often files are picked.
PickFiles(S) ==
  /\ page.at \in {"idle", "staged", "preview"} /\ \E s \in Sessions : Fresh(s)
  /\ S # {} /\ \A i \in S : post[i].at = "none"
  /\ page' = [at |-> "create", session |-> Nil, todo |-> S, current |-> Nil, done |-> {}]
  /\ UNCHANGED <<config, session, expired, post, rows, staged, job, faults>>

\* createSession: the map first, then the row.  Whatever fails, and a lost
\* answer, the page goes over to its preview.
CreateSession(s) ==
  /\ page.at = "create"
  /\ Fresh(s)
  /\ \/ /\ session' = [session EXCEPT ![s] = [memory |-> TRUE, row |-> config # "noDatabase"]]
        /\ page' = [page EXCEPT !.at = "post", !.session = s]
        /\ UNCHANGED faults
     \/ /\ Fault
        /\ \E row \in BOOLEAN :
             session' = [session EXCEPT ![s] =
                           [memory |-> TRUE, row |-> row /\ config # "noDatabase"]]
        /\ page' = [page EXCEPT !.at = "preview"]
  /\ UNCHANGED <<config, expired, post, rows, staged, job>>

PostFile(i) ==
  /\ page.at = "post" /\ i \in page.todo
  /\ page' = [page EXCEPT !.at = "wait", !.current = i, !.todo = @ \ {i}]
  /\ post' = [post EXCEPT ![i] = [NoPost EXCEPT !.at = "check", !.session = page.session]]
  /\ staged' = staged \cup {i}
  /\ UNCHANGED <<config, session, expired, rows, job, faults>>

\* The next file, or the message that all are staged, or, after an error or a
\* lost answer, the message that the files are shown as a preview.
ReadAnswer ==
  LET at == post[page.current].at IN
  /\ page.at = "wait" /\ at \notin Working
  /\ \/ /\ at \in Accepting
        /\ page' = [page EXCEPT !.at = IF page.todo = {} THEN "staged" ELSE "post",
                                !.done = @ \cup {page.current}]
        /\ UNCHANGED faults
     \/ at \notin Accepting /\ page' = [page EXCEPT !.at = "preview"] /\ UNCHANGED faults
     \/ Fault /\ page' = [page EXCEPT !.at = "preview"]
  /\ UNCHANGED <<config, session, expired, post, rows, staged, job>>

-----------------------------------------------------------------------------
(* The handler of a post.                                                   *)

Goto(i, at) == post' = [post EXCEPT ![i].at = at]

\* The catch of the controller: the staged file is removed on every error.
Refuse(i) == Goto(i, "refused") /\ staged' = staged \ {i}

\* An await that fails, before or after it took effect.
StatementFails(i) == Fault /\ Refuse(i)

\* stageAndRoute and addFile look for the session in the map, then in the
\* database, and put it into the map.
Check(i) ==
  LET s == post[i].session IN
  /\ post[i].at = "check"
  /\ \/ /\ (session[s].memory \/ session[s].row) /\ s \notin expired
        /\ session' = [session EXCEPT ![s].memory = TRUE]
        /\ Goto(i, "record") /\ UNCHANGED <<staged, faults>>
     \/ /\ ~(session[s].memory \/ session[s].row) \/ s \in expired
        /\ Refuse(i) /\ UNCHANGED <<session, faults>>
     \/ /\ ~session[s].memory /\ config # "noDatabase"
        /\ StatementFails(i) /\ UNCHANGED session
  /\ UNCHANGED <<config, page, expired, rows, job>>

\* The staged file is hashed, then the item written.  Without a database it is in
\* the map alone, without Redis it stays in the database: both are answered and
\* never go further.
Record(i) ==
  /\ post[i].at = "record"
  /\ \/ /\ config = "noDatabase" /\ Goto(i, "staged")
        /\ UNCHANGED <<rows, staged, faults>>
     \/ /\ config # "noDatabase"
        /\ rows' = [rows EXCEPT ![i] = {"item"}]
        /\ Goto(i, IF config = "full" THEN "route" ELSE "blocked")
        /\ UNCHANGED <<staged, faults>>
     \/ /\ StatementFails(i)
        /\ \/ UNCHANGED rows
           \/ config # "noDatabase" /\ rows' = [rows EXCEPT ![i] = {"item"}]
  /\ UNCHANGED <<config, page, session, expired, job>>

\* getDefaultPool and listProviders are read, simulateRoute decides.
Route(i) ==
  /\ post[i].at = "route"
  /\ \/ /\ \E S \in Routes[i] : post' = [post EXCEPT ![i] = [@ EXCEPT !.at = "resource", !.chosen = S]]
        /\ UNCHANGED <<staged, faults>>
     \/ Goto(i, "blocked") /\ UNCHANGED <<staged, faults>>
     \/ StatementFails(i)
  /\ UNCHANGED <<config, page, session, expired, rows, job>>

\* The resource with its first version, and the item's link to it.
Resource(i) ==
  /\ post[i].at = "resource"
  /\ \/ /\ rows' = [rows EXCEPT ![i] = @ \cup {"resource"}]
        /\ Goto(i, "decide") /\ UNCHANGED <<staged, faults>>
     \/ /\ StatementFails(i)
        /\ \E w \in {{}, {"resource"}} : rows' = [rows EXCEPT ![i] = @ \cup w]
  /\ UNCHANGED <<config, page, session, expired, job>>

Decide(i) ==
  /\ post[i].at = "decide"
  /\ \/ /\ rows' = [rows EXCEPT ![i] = @ \cup {"decision"}]
        /\ post' = [post EXCEPT ![i] =
             [@ EXCEPT !.at = IF post[i].chosen = {} THEN "blocked" ELSE "enqueue",
                       !.left = post[i].chosen]]
        /\ UNCHANGED <<staged, faults>>
     \/ /\ StatementFails(i)
        /\ \E w \in {{}, {"decision"}} : rows' = [rows EXCEPT ![i] = @ \cup w]
  /\ UNCHANGED <<config, page, session, expired, job>>

(* Mutant: the answer follows the first job.                                *)
EnqueueOne(i, a) ==
  /\ post[i].at = "enqueue" /\ a \in post[i].left
  /\ job' = [job EXCEPT ![<<i, a>>] = NewJob]
  /\ post' = [post EXCEPT ![i] = [@ EXCEPT !.left = {}, !.at = "queued"]]
  /\ UNCHANGED <<config, page, session, expired, rows, staged, faults>>

\* queue.add for one account after the other; the answer follows the last.
Enqueue(i, a) ==
  LET left == post[i].left \ {a} IN
  /\ post[i].at = "enqueue" /\ a \in post[i].left
  /\ \/ /\ job' = [job EXCEPT ![<<i, a>>] = NewJob]
        /\ post' = [post EXCEPT ![i] =
             [@ EXCEPT !.left = left, !.at = IF left = {} THEN "queued" ELSE "enqueue"]]
        /\ UNCHANGED <<staged, faults>>
     \/ /\ StatementFails(i)
        /\ \E new \in {NoJob, NewJob} : job' = [job EXCEPT ![<<i, a>>] = new]
  /\ UNCHANGED <<config, page, session, expired, rows>>

-----------------------------------------------------------------------------
\* An hour has passed; left out when no post is there to notice it.
Expire(s) ==
  /\ session[s].memory \/ session[s].row
  /\ \E i \in Items : post[i].at \in {"none", "check"}
  /\ s \notin expired /\ expired' = expired \cup {s}
  /\ UNCHANGED <<config, page, session, post, rows, staged, job, faults>>

\* The API ends: its map is gone and its handlers are cut off before their
\* catch, so the staged file stays.
Restart ==
  /\ Fault
  /\ session' = [s \in Sessions |-> [session[s] EXCEPT !.memory = FALSE]]
  /\ post' = [i \in Items |-> IF post[i].at \in Working
                              THEN [post[i] EXCEPT !.at = "cut"] ELSE post[i]]
  /\ UNCHANGED <<config, page, expired, rows, staged, job>>

PageStep ==
  \/ \E s \in Sessions : CreateSession(s)
  \/ \E i \in Items : PostFile(i)
  \/ ReadAnswer

Handle(i) ==
  \/ Check(i) \/ Record(i) \/ Route(i) \/ Resource(i) \/ Decide(i)
  \/ \E a \in Accounts : Enqueue(i, a)

PipelineNext ==
  \/ \E S \in SUBSET Items : PickFiles(S)
  \/ PageStep
  \/ \E i \in Items : Handle(i)
  \/ \E s \in Sessions : Expire(s)
  \/ Restart
=============================================================================
