------------------------- MODULE HostedUploadProofs -------------------------
(***************************************************************************)
(* The hosted upload for every number of files, accounts, sessions, workers*)
(* and faults: what "queued" and "staged" promise, and how many copies the *)
(* executions of a job may leave.                                          *)
(***************************************************************************)
EXTENDS HostedUpload, FiniteSetTheorems, TLAPS

PageType == [at : {"idle", "create", "post", "wait", "staged", "preview"},
             session : Sessions \cup {Nil}, todo : SUBSET Items,
             current : Items \cup {Nil}, done : SUBSET Items]
PostType == [at : PostState, session : Sessions \cup {Nil},
             chosen : SUBSET Accounts, left : SUBSET Accounts]
RunType == [at : {"idle", "upload", "open", "send", "object", "finish", "fail"},
            job : Jobs \cup {Nil}]

\* A request that moves on, and one that gets its route, keep their other fields.
LEMMA Moved ==
  ASSUME NEW r \in PostType, NEW at \in PostState
  PROVE  [r EXCEPT !.at = at] \in PostType
  BY DEF PostType

LEMMA Routed ==
  ASSUME NEW r \in PostType, NEW at \in PostState, NEW S \in SUBSET Accounts
  PROVE  [r EXCEPT !.at = at, !.chosen = S] \in PostType
  BY DEF PostType

\* A page that waits has posted a file; an execution that goes on has a job.
TypeInv ==
  /\ TypeOK
  /\ page.at = "wait" => page.current \in Items
  /\ \A w \in Workers : run[w].at # "idle" => run[w].job \in Jobs

USE DEF Jobs, Pipeline!Jobs, Worker!Jobs

LEMMA TypeInit == Init => TypeInv
<1> SUFFICES ASSUME Init PROVE TypeInv
  OBVIOUS
<1>1. Pipeline!NoJob \in QueueEntry /\ Pipeline!NoPost \in PostType /\ Worker!IdleRun \in RunType
  BY DEF Pipeline!NoJob, QueueEntry, Pipeline!NoPost, PostType, PostState, Worker!IdleRun, RunType
<1>2. page \in PageType
  BY DEF Init, Pipeline!PipelineInit, PageType
<1> QED
  BY <1>1, <1>2, WorkerAssumption DEF Init, Pipeline!PipelineInit, Worker!WorkerInit, TypeInv, TypeOK,
     PageType, PostType, RunType, Worker!IdleRun

-----------------------------------------------------------------------------
\* Every step of the pipeline keeps the types.
LEMMA PipelineType ==
  TypeInv /\ Pipeline!PipelineNext /\ UNCHANGED workerOnly => TypeInv'
<1> SUFFICES ASSUME TypeInv, Pipeline!PipelineNext, UNCHANGED workerOnly PROVE TypeInv'
  OBVIOUS
<1>a. /\ config \in Configs /\ page \in PageType
      /\ session \in [Sessions -> [memory : BOOLEAN, row : BOOLEAN]] /\ expired \subseteq Sessions
      /\ post \in [Items -> PostType] /\ rows \in [Items -> SUBSET Pipeline!AllRows]
      /\ staged \subseteq Items /\ job \in [Jobs -> QueueEntry] /\ faults \in Nat
      /\ page.at = "wait" => page.current \in Items
  BY DEF TypeInv, TypeOK, PageType, PostType
<1>0. ASSUME config' \in Configs, page' \in PageType,
             session' \in [Sessions -> [memory : BOOLEAN, row : BOOLEAN]], expired' \subseteq Sessions,
             post' \in [Items -> PostType], rows' \in [Items -> SUBSET Pipeline!AllRows],
             staged' \subseteq Items, job' \in [Jobs -> QueueEntry], faults' \in Nat,
             page'.at = "wait" => page'.current \in Items
      PROVE TypeInv'
  BY <1>0 DEF TypeInv, TypeOK, PageType, PostType, workerOnly
<1>b. Pipeline!Fault => faults' \in Nat
  BY <1>a DEF Pipeline!Fault
<1>f. ASSUME NEW i \in Items, NEW r \in PostType, post' = [post EXCEPT ![i] = r]
      PROVE post' \in [Items -> PostType]
  BY <1>a, <1>f
<1>c. ASSUME NEW i \in Items, NEW at \in PostState, Pipeline!Goto(i, at)
      PROVE post' \in [Items -> PostType]
  <2>1. [post[i] EXCEPT !.at = at] \in PostType
    BY <1>a, Moved
  <2>2. post' = [post EXCEPT ![i] = [post[i] EXCEPT !.at = at]]
    BY <1>c DEF Pipeline!Goto
  <2> QED
    BY <1>f, <2>1, <2>2
<1>d. ASSUME NEW i \in Items, Pipeline!StatementFails(i)
      PROVE post' \in [Items -> PostType] /\ staged' \subseteq Items /\ faults' \in Nat
  BY <1>a, <1>b, <1>c, <1>d DEF Pipeline!StatementFails, Pipeline!Refuse, PostState
<1>e. Pipeline!NoJob \in QueueEntry /\ Pipeline!NewJob \in QueueEntry
  BY DEF Pipeline!NoJob, Pipeline!NewJob, QueueEntry
<1>1. ASSUME NEW S \in SUBSET Items, Pipeline!PickFiles(S) PROVE TypeInv'
  BY <1>a, <1>0, <1>1 DEF Pipeline!PickFiles, PageType
<1>2. ASSUME NEW s \in Sessions, Pipeline!CreateSession(s) PROVE TypeInv'
  <2>1. page' \in PageType /\ page'.at # "wait"
    BY <1>a, <1>2 DEF Pipeline!CreateSession, PageType
  <2>2. session' \in [Sessions -> [memory : BOOLEAN, row : BOOLEAN]]
    <3>1. ASSUME NEW row \in BOOLEAN, session' = [session EXCEPT ![s] = [memory |-> TRUE, row |-> row]]
          PROVE session' \in [Sessions -> [memory : BOOLEAN, row : BOOLEAN]]
      BY <1>a, <3>1
    <3>2. (config # "noDatabase") \in BOOLEAN /\ \A row \in BOOLEAN : (row /\ config # "noDatabase") \in BOOLEAN
      OBVIOUS
    <3> QED
      BY <1>2, <3>1, <3>2 DEF Pipeline!CreateSession
  <2>3. faults' \in Nat
    BY <1>a, <1>b, <1>2 DEF Pipeline!CreateSession
  <2> QED
    BY <1>a, <1>0, <1>2, <2>1, <2>2, <2>3 DEF Pipeline!CreateSession
<1>3. ASSUME NEW i \in Items, Pipeline!PostFile(i) PROVE TypeInv'
  <2>1. page' = [page EXCEPT !.at = "wait", !.current = i, !.todo = page.todo \ {i}]
    BY <1>3 DEF Pipeline!PostFile
  <2>5. page' \in PageType /\ page'.at = "wait" /\ page'.current = i
    BY <1>a, <2>1 DEF PageType
  <2>2. page.session \in Sessions \cup {Nil}
    BY <1>a DEF PageType
  <2>3. [Pipeline!NoPost EXCEPT !.at = "check", !.session = page.session] \in PostType
    BY <2>2 DEF Pipeline!NoPost, PostType, PostState, Pipeline!Working
  <2>4. post' \in [Items -> PostType]
    BY <1>a, <1>3, <2>3 DEF Pipeline!PostFile
  <2> QED
    BY <1>a, <1>0, <1>3, <2>5, <2>4 DEF Pipeline!PostFile
<1>4. ASSUME Pipeline!ReadAnswer PROVE TypeInv'
  <2>1. page.current \in Items
    BY <1>a, <1>4 DEF Pipeline!ReadAnswer
  <2>2. page' \in PageType /\ page'.at # "wait"
    <3>1. CASE page' = [page EXCEPT !.at = "preview"]
      BY <1>a, <3>1 DEF PageType
    <3>2. CASE page' = [page EXCEPT !.at = IF page.todo = {} THEN "staged" ELSE "post",
                                    !.done = page.done \cup {page.current}]
      <4>1. page.done \cup {page.current} \in SUBSET Items
        BY <1>a, <2>1 DEF PageType
      <4> QED
        BY <1>a, <3>2, <4>1 DEF PageType
    <3> QED
      BY <1>4, <3>1, <3>2 DEF Pipeline!ReadAnswer
  <2>3. faults' \in Nat
    BY <1>a, <1>b, <1>4 DEF Pipeline!ReadAnswer
  <2> QED
    BY <1>a, <1>0, <1>4, <2>2, <2>3 DEF Pipeline!ReadAnswer
<1>5. ASSUME NEW i \in Items, Pipeline!Check(i) PROVE TypeInv'
  <2>1. post' \in [Items -> PostType] /\ staged' \subseteq Items /\ faults' \in Nat
    <3>1. CASE Pipeline!Goto(i, "record") /\ UNCHANGED <<staged, faults>>
      BY <1>a, <1>b, <1>c, <3>1 DEF PostState, Pipeline!Working
    <3>2. CASE Pipeline!Refuse(i) /\ UNCHANGED faults
      BY <1>a, <1>b, <1>c, <3>2 DEF Pipeline!Refuse, PostState
    <3>3. CASE Pipeline!StatementFails(i)
      BY <1>d, <3>3
    <3> QED
      BY <1>5, <3>1, <3>2, <3>3 DEF Pipeline!Check
  <2>2. session' \in [Sessions -> [memory : BOOLEAN, row : BOOLEAN]]
    <3>1. ASSUME NEW s, session' = [session EXCEPT ![s].memory = TRUE]
          PROVE session' \in [Sessions -> [memory : BOOLEAN, row : BOOLEAN]]
      BY <1>a, <3>1
    <3> QED
      BY <1>a, <1>5, <3>1 DEF Pipeline!Check
  <2> QED
    BY <1>a, <1>0, <1>5, <2>1, <2>2 DEF Pipeline!Check
<1>6. ASSUME NEW i \in Items, Pipeline!Record(i) PROVE TypeInv'
  <2>1. post' \in [Items -> PostType] /\ staged' \subseteq Items /\ faults' \in Nat
    <3>1. {"staged", "route", "blocked"} \subseteq PostState
      BY DEF PostState, Pipeline!Working, Pipeline!Accepting
    <3>2. CASE Pipeline!StatementFails(i)
      BY <1>d, <3>2
    <3>3. ASSUME NEW at \in {"staged", "route", "blocked"}, Pipeline!Goto(i, at), UNCHANGED <<staged, faults>>
          PROVE post' \in [Items -> PostType] /\ staged' \subseteq Items /\ faults' \in Nat
      BY <1>a, <1>c, <3>1, <3>3
    <3> QED
      BY <1>6, <3>2, <3>3 DEF Pipeline!Record
  <2>2. rows' \in [Items -> SUBSET Pipeline!AllRows]
    BY <1>a, <1>6 DEF Pipeline!Record, Pipeline!AllRows
  <2> QED
    BY <1>a, <1>0, <1>6, <2>1, <2>2 DEF Pipeline!Record
<1>7. ASSUME NEW i \in Items, Pipeline!Route(i) PROVE TypeInv'
  <2>1. ASSUME NEW S \in Routes[i]
        PROVE [post[i] EXCEPT !.at = "resource", !.chosen = S] \in PostType
    <3>1. S \in SUBSET Accounts
      BY PipelineAssumption
    <3>2. ASSUME NEW at \in PostState
          PROVE [post[i] EXCEPT !.at = at, !.chosen = S] \in PostType
      BY <1>a, <3>1, Routed
    <3>3. "resource" \in PostState
      BY DEF PostState, Pipeline!Working
    <3> QED
      BY <3>2, <3>3
  <2>2. post' \in [Items -> PostType] /\ staged' \subseteq Items /\ faults' \in Nat
    <3>1. CASE Pipeline!StatementFails(i)
      BY <1>d, <3>1
    <3>2. CASE Pipeline!Goto(i, "blocked") /\ UNCHANGED <<staged, faults>>
      BY <1>a, <1>c, <3>2 DEF PostState, Pipeline!Accepting
    <3>3. ASSUME NEW S \in Routes[i], UNCHANGED <<staged, faults>>,
                 post' = [post EXCEPT ![i] = [post[i] EXCEPT !.at = "resource", !.chosen = S]]
          PROVE post' \in [Items -> PostType] /\ staged' \subseteq Items /\ faults' \in Nat
      BY <1>a, <1>f, <2>1, <3>3
    <3> QED
      BY <1>7, <3>1, <3>2, <3>3 DEF Pipeline!Route
  <2> QED
    BY <1>a, <1>0, <1>7, <2>2 DEF Pipeline!Route
<1>8. ASSUME NEW i \in Items, Pipeline!Resource(i) PROVE TypeInv'
  <2>1. post' \in [Items -> PostType] /\ staged' \subseteq Items /\ faults' \in Nat
    <3>1. CASE Pipeline!StatementFails(i)
      BY <1>d, <3>1
    <3>2. CASE Pipeline!Goto(i, "decide") /\ UNCHANGED <<staged, faults>>
      BY <1>a, <1>c, <3>2 DEF PostState, Pipeline!Working
    <3> QED
      BY <1>8, <3>1, <3>2 DEF Pipeline!Resource
  <2>2. rows' \in [Items -> SUBSET Pipeline!AllRows]
    BY <1>a, <1>8 DEF Pipeline!Resource, Pipeline!AllRows
  <2> QED
    BY <1>a, <1>0, <1>8, <2>1, <2>2 DEF Pipeline!Resource
<1>g. ASSUME NEW i \in Items, NEW at \in PostState, NEW S \in SUBSET Accounts
      PROVE /\ [post[i] EXCEPT !.left = S, !.at = at] \in PostType
            /\ [post[i] EXCEPT !.at = at, !.left = S] \in PostType
  BY <1>a DEF PostType
<1>9. ASSUME NEW i \in Items, Pipeline!Decide(i) PROVE TypeInv'
  <2>1. post[i].chosen \in SUBSET Accounts
    BY <1>a DEF PostType
  <2>2. (IF post[i].chosen = {} THEN "blocked" ELSE "enqueue") \in PostState
    BY DEF PostState, Pipeline!Working, Pipeline!Accepting
  <2>3. post' \in [Items -> PostType] /\ staged' \subseteq Items /\ faults' \in Nat
    <3>1. CASE Pipeline!StatementFails(i)
      BY <1>d, <3>1
    <3>2. CASE /\ post' = [post EXCEPT ![i] = [post[i] EXCEPT
                            !.at = IF post[i].chosen = {} THEN "blocked" ELSE "enqueue",
                            !.left = post[i].chosen]]
               /\ UNCHANGED <<staged, faults>>
      <4>1. [post[i] EXCEPT !.at = IF post[i].chosen = {} THEN "blocked" ELSE "enqueue",
                            !.left = post[i].chosen] \in PostType
        BY <1>g, <2>1, <2>2
      <4> QED
        BY <1>a, <1>f, <3>2, <4>1
    <3> QED
      BY <1>9, <3>1, <3>2 DEF Pipeline!Decide
  <2>4. rows' \in [Items -> SUBSET Pipeline!AllRows]
    BY <1>a, <1>9 DEF Pipeline!Decide, Pipeline!AllRows
  <2> QED
    BY <1>a, <1>0, <1>9, <2>3, <2>4 DEF Pipeline!Decide
<1>10. ASSUME NEW i \in Items, NEW a \in Accounts, Pipeline!Enqueue(i, a) PROVE TypeInv'
  <2>1. post[i].left \ {a} \in SUBSET Accounts
    BY <1>a DEF PostType
  <2>2. (IF post[i].left \ {a} = {} THEN "queued" ELSE "enqueue") \in PostState
    BY DEF PostState, Pipeline!Working, Pipeline!Accepting
  <2>3. post' \in [Items -> PostType] /\ staged' \subseteq Items /\ faults' \in Nat
    <3>1. CASE Pipeline!StatementFails(i)
      BY <1>d, <3>1
    <3>2. CASE /\ post' = [post EXCEPT ![i] = [post[i] EXCEPT
                            !.left = post[i].left \ {a},
                            !.at = IF post[i].left \ {a} = {} THEN "queued" ELSE "enqueue"]]
               /\ UNCHANGED <<staged, faults>>
      <4>1. [post[i] EXCEPT !.left = post[i].left \ {a},
                            !.at = IF post[i].left \ {a} = {} THEN "queued" ELSE "enqueue"] \in PostType
        BY <1>g, <2>1, <2>2
      <4> QED
        BY <1>a, <1>f, <3>2, <4>1
    <3> QED
      BY <1>10, <3>1, <3>2 DEF Pipeline!Enqueue
  <2>4. job' \in [Jobs -> QueueEntry]
    <3>1. <<i, a>> \in Jobs
      OBVIOUS
    <3>2. ASSUME NEW new \in QueueEntry, job' = [job EXCEPT ![<<i, a>>] = new]
          PROVE job' \in [Jobs -> QueueEntry]
      BY <1>a, <3>1, <3>2
    <3> QED
      BY <1>e, <1>10, <3>2 DEF Pipeline!Enqueue
  <2> QED
    BY <1>a, <1>0, <1>10, <2>3, <2>4 DEF Pipeline!Enqueue
<1>11. ASSUME NEW s \in Sessions, Pipeline!Expire(s) PROVE TypeInv'
  BY <1>a, <1>0, <1>11 DEF Pipeline!Expire
<1>12. ASSUME Pipeline!Restart PROVE TypeInv'
  <2>1. post' \in [Items -> PostType]
    <3>1. ASSUME NEW i \in Items, NEW at \in PostState
          PROVE [post[i] EXCEPT !.at = at] \in PostType
      BY <1>a, Moved
    <3>2. "cut" \in PostState
      BY DEF PostState
    <3> QED
      BY <1>a, <1>12, <3>1, <3>2 DEF Pipeline!Restart
  <2>2. session' \in [Sessions -> [memory : BOOLEAN, row : BOOLEAN]]
    BY <1>a, <1>12 DEF Pipeline!Restart
  <2> QED
    BY <1>a, <1>b, <1>0, <1>12, <2>1, <2>2 DEF Pipeline!Restart
<1> QED
  BY <1>1, <1>2, <1>3, <1>4, <1>5, <1>6, <1>7, <1>8, <1>9, <1>10, <1>11, <1>12
  DEF Pipeline!PipelineNext, Pipeline!PageStep, Pipeline!Handle

\* What the queue makes of an entry is an entry.
LEMMA EntryType ==
  ASSUME NEW q \in QueueEntry
  PROVE  /\ Worker!TriedAgain(q) \in QueueEntry /\ Worker!GivenAgain(q) \in QueueEntry
         /\ [q EXCEPT !.state = "done", !.owner = Nil] \in QueueEntry
         /\ \A w \in Workers : [q EXCEPT !.state = "active", !.owner = w] \in QueueEntry
<1>1. q.tries + 1 \in Nat /\ q.stalls + 1 \in Nat
  BY DEF QueueEntry
<1>2. Worker!TriedAgain(q) \in QueueEntry
  BY <1>1 DEF Worker!TriedAgain, QueueEntry
<1>3. Worker!GivenAgain(q) \in QueueEntry
  BY <1>1 DEF Worker!GivenAgain, QueueEntry
<1> QED
  BY <1>2, <1>3 DEF QueueEntry

\* Every step of the worker keeps the types.
LEMMA WorkerType ==
  TypeInv /\ Worker!WorkerNext /\ UNCHANGED pipelineOnly => TypeInv'
<1> SUFFICES ASSUME TypeInv, Worker!WorkerNext, UNCHANGED pipelineOnly PROVE TypeInv'
  OBVIOUS
<1>a. /\ staged \subseteq Items /\ job \in [Jobs -> QueueEntry] /\ faults \in Nat
      /\ revoked \subseteq Accounts
      /\ attempt \in [Jobs -> {"none", "processing", "synced", "failed"}]
      /\ objects \in [Jobs -> Nat] /\ remote \in [Jobs -> Nat] /\ run \in [Workers -> RunType]
      /\ \A w \in Workers : run[w].at # "idle" => run[w].job \in Jobs
  BY DEF TypeInv, TypeOK, RunType
<1>0. ASSUME staged' \subseteq Items, job' \in [Jobs -> QueueEntry], faults' \in Nat,
             revoked' \subseteq Accounts,
             attempt' \in [Jobs -> {"none", "processing", "synced", "failed"}],
             objects' \in [Jobs -> Nat], remote' \in [Jobs -> Nat], run' \in [Workers -> RunType],
             \A w \in Workers : run'[w].at # "idle" => run'[w].job \in Jobs
      PROVE TypeInv'
  BY <1>0 DEF TypeInv, TypeOK, RunType, pipelineOnly
<1>b. Worker!Fault => faults' \in Nat
  BY <1>a DEF Worker!Fault
<1>c. ASSUME NEW j \in Jobs, NEW q \in QueueEntry, job' = [job EXCEPT ![j] = q]
      PROVE job' \in [Jobs -> QueueEntry]
  BY <1>a, <1>c
<1>d. ASSUME NEW w \in Workers, run[w].at # "idle",
             NEW at \in {"upload", "open", "send", "object", "finish", "fail"}, Worker!Goto(w, at)
      PROVE /\ run' \in [Workers -> RunType]
            /\ \A u \in Workers : run'[u].at # "idle" => run'[u].job \in Jobs
  <2>1. run' = [run EXCEPT ![w] = [run[w] EXCEPT !.at = at]]
    BY <1>d DEF Worker!Goto
  <2>2. [run[w] EXCEPT !.at = at] \in RunType /\ [run[w] EXCEPT !.at = at].job = run[w].job
    BY <1>a DEF RunType
  <2> QED
    BY <1>a, <1>d, <2>1, <2>2
<1>e. ASSUME NEW w \in Workers, Worker!Rest(w)
      PROVE /\ run' \in [Workers -> RunType]
            /\ \A u \in Workers : run'[u].at # "idle" => run'[u].job \in Jobs
  <2>1. Worker!IdleRun \in RunType /\ Worker!IdleRun.at = "idle"
    BY DEF Worker!IdleRun, RunType
  <2> QED
    BY <1>a, <1>e, <2>1 DEF Worker!Rest
<1>f. ASSUME NEW j \in Jobs
      PROVE job[j] \in QueueEntry
  BY <1>a
<1>1. ASSUME NEW w \in Workers, NEW j \in Jobs, Worker!Take(w, j) PROVE TypeInv'
  <2>1. job' \in [Jobs -> QueueEntry]
    <3>1. CASE job' = [job EXCEPT ![j] = [job[j] EXCEPT !.state = "active", !.owner = w]]
      BY <1>c, <1>f, <3>1, EntryType
    <3>2. CASE job' = [job EXCEPT ![j] = Worker!TriedAgain(job[j])]
      BY <1>c, <1>f, <3>2, EntryType
    <3> QED
      BY <1>1, <3>1, <3>2 DEF Worker!Take
  <2>2. /\ run' \in [Workers -> RunType]
        /\ \A u \in Workers : run'[u].at # "idle" => run'[u].job \in Jobs
    <3>1. [at |-> "upload", job |-> j] \in RunType
      BY DEF RunType
    <3>2. CASE run' = [run EXCEPT ![w] = [at |-> "upload", job |-> j]]
      BY <1>a, <3>1, <3>2
    <3>3. CASE UNCHANGED run
      BY <1>a, <3>3
    <3> QED
      BY <1>1, <3>2, <3>3 DEF Worker!Take
  <2>3. attempt' \in [Jobs -> {"none", "processing", "synced", "failed"}]
    BY <1>a, <1>1 DEF Worker!Take
  <2>4. faults' \in Nat
    BY <1>a, <1>b, <1>1 DEF Worker!Take
  <2> QED
    BY <1>a, <1>0, <1>1, <2>1, <2>2, <2>3, <2>4 DEF Worker!Take
<1>2. ASSUME NEW w \in Workers, NEW at \in {"open", "send"}, run[w].at # "idle", Worker!Goes(w, at)
      PROVE TypeInv'
  <2>1. faults' \in Nat
    BY <1>a, <1>b, <1>2 DEF Worker!Goes
  <2>2. /\ run' \in [Workers -> RunType]
        /\ \A u \in Workers : run'[u].at # "idle" => run'[u].job \in Jobs
    BY <1>d, <1>2 DEF Worker!Goes
  <2> QED
    BY <1>a, <1>0, <1>2, <2>1, <2>2 DEF Worker!Goes
<1>3. ASSUME NEW w \in Workers, run[w].at # "idle", Worker!Sent(w) PROVE TypeInv'
  <2>1. run[w].job \in Jobs
    BY <1>a, <1>3
  <2>2. remote' \in [Jobs -> Nat]
    <3>1. ASSUME NEW n \in {0, 1}, remote' = [remote EXCEPT ![run[w].job] = @ + n]
          PROVE remote' \in [Jobs -> Nat]
      BY <1>a, <2>1, <3>1
    <3> QED
      BY <1>a, <1>3, <3>1 DEF Worker!Sent
  <2>3. faults' \in Nat
    BY <1>a, <1>b, <1>3 DEF Worker!Sent
  <2>4. /\ run' \in [Workers -> RunType]
        /\ \A u \in Workers : run'[u].at # "idle" => run'[u].job \in Jobs
    BY <1>d, <1>3 DEF Worker!Sent
  <2> QED
    BY <1>a, <1>0, <1>3, <2>2, <2>3, <2>4 DEF Worker!Sent
<1>4. ASSUME NEW w \in Workers, Worker!StoreObject(w) PROVE TypeInv'
  <2>1. run[w].at # "idle" /\ run[w].job \in Jobs
    BY <1>a, <1>4 DEF Worker!StoreObject
  <2>2. objects' \in [Jobs -> Nat]
    <3>1. ASSUME NEW n \in {0, 1}, objects' = [objects EXCEPT ![run[w].job] = @ + n]
          PROVE objects' \in [Jobs -> Nat]
      BY <1>a, <2>1, <3>1
    <3> QED
      BY <1>a, <1>4, <3>1 DEF Worker!StoreObject
  <2>3. faults' \in Nat
    BY <1>a, <1>b, <1>4 DEF Worker!StoreObject
  <2>4. /\ run' \in [Workers -> RunType]
        /\ \A u \in Workers : run'[u].at # "idle" => run'[u].job \in Jobs
    BY <1>d, <1>4, <2>1 DEF Worker!StoreObject
  <2> QED
    BY <1>a, <1>0, <1>4, <2>2, <2>3, <2>4 DEF Worker!StoreObject
<1>5. ASSUME NEW w \in Workers, Worker!Finish(w) PROVE TypeInv'
  <2>1. run[w].at # "idle" /\ run[w].job \in Jobs
    BY <1>a, <1>5 DEF Worker!Finish
  <2>2. attempt' \in [Jobs -> {"none", "processing", "synced", "failed"}]
    BY <1>a, <1>5, <2>1 DEF Worker!Finish
  <2>3. job' \in [Jobs -> QueueEntry]
    <3>1. CASE job' = [job EXCEPT ![run[w].job] =
                        [job[run[w].job] EXCEPT !.state = "done", !.owner = Nil]]
      BY <1>c, <1>f, <2>1, <3>1, EntryType
    <3> QED
      BY <1>a, <1>5, <3>1 DEF Worker!Finish, Worker!Completed
  <2>4. /\ run' \in [Workers -> RunType]
        /\ \A u \in Workers : run'[u].at # "idle" => run'[u].job \in Jobs
    BY <1>d, <1>e, <1>5, <2>1 DEF Worker!Finish
  <2>5. faults' \in Nat
    BY <1>a, <1>b, <1>5 DEF Worker!Finish
  <2> QED
    BY <1>a, <1>0, <1>5, <2>2, <2>3, <2>4, <2>5 DEF Worker!Finish
<1>6. ASSUME NEW w \in Workers, Worker!Fail(w) PROVE TypeInv'
  <2>1. run[w].at # "idle" /\ run[w].job \in Jobs
    BY <1>a, <1>6 DEF Worker!Fail
  <2>2. attempt' \in [Jobs -> {"none", "processing", "synced", "failed"}]
    BY <1>a, <1>6, <2>1 DEF Worker!Fail
  <2>3. job' \in [Jobs -> QueueEntry]
    <3>1. CASE job' = [job EXCEPT ![run[w].job] = Worker!TriedAgain(job[run[w].job])]
      BY <1>c, <1>f, <2>1, <3>1, EntryType
    <3> QED
      BY <1>a, <1>6, <3>1 DEF Worker!Fail, Worker!Failed
  <2>4. faults' \in Nat
    BY <1>a, <1>b, <1>6 DEF Worker!Fail
  <2> QED
    BY <1>a, <1>0, <1>e, <1>6, <2>2, <2>3, <2>4 DEF Worker!Fail
<1>7. ASSUME NEW w \in Workers, Worker!Stall(w) PROVE TypeInv'
  <2>1. run[w].at # "idle" /\ run[w].job \in Jobs
    BY <1>a, <1>7 DEF Worker!Stall
  <2>2. job' \in [Jobs -> QueueEntry]
    <3>1. job' = [job EXCEPT ![run[w].job] = Worker!GivenAgain(job[run[w].job])]
      BY <1>7 DEF Worker!Stall
    <3> QED
      BY <1>c, <1>f, <2>1, <3>1, EntryType
  <2> QED
    BY <1>a, <1>b, <1>0, <1>e, <1>7, <2>2 DEF Worker!Stall
<1>8. ASSUME NEW a \in Accounts, Worker!Revoke(a) PROVE TypeInv'
  BY <1>a, <1>0, <1>8 DEF Worker!Revoke
<1>9. ASSUME NEW w \in Workers, Worker!Execute(w) PROVE TypeInv'
  <2>1. CASE \E j \in Jobs : Worker!Take(w, j)
    BY <1>1, <2>1
  <2>2. CASE Worker!AccessToken(w)
    BY <1>2, <2>2 DEF Worker!AccessToken
  <2>3. CASE Worker!OpenSession(w)
    BY <1>2, <2>3 DEF Worker!OpenSession
  <2>4. CASE Worker!SendToDrive(w)
    BY <1>3, <2>4 DEF Worker!SendToDrive
  <2>5. CASE Worker!SendToTelegram(w)
    BY <1>3, <2>5 DEF Worker!SendToTelegram
  <2> QED
    BY <1>4, <1>5, <1>6, <1>9, <2>1, <2>2, <2>3, <2>4, <2>5 DEF Worker!Execute
<1> QED
  BY <1>7, <1>8, <1>9 DEF Worker!WorkerNext

LEMMA TypeStep == TypeInv /\ [Next]_vars => TypeInv'
<1>1. TypeInv /\ UNCHANGED vars => TypeInv'
  BY DEF TypeInv, TypeOK, vars, pipelineOnly, shared, workerOnly
<1> QED
  BY <1>1, PipelineType, WorkerType DEF Next

(* Every variable keeps its type, a page that waits has posted a file, and  *)
(* an execution that goes on has a job.                                     *)
THEOREM TypeCorrect == Spec => []TypeInv
<1> QED
  BY TypeInit, TypeStep, PTL DEF Spec

-----------------------------------------------------------------------------
\* The queue: a worker has the jobs that are active, and a job that was never
\* enqueued has no history.
EntryInv ==
  \A j \in Jobs :
    /\ job[j].owner # Nil <=> job[j].state = "active"
    /\ job[j].state = "none" => job[j] = Pipeline!NoJob

Enqueued(i, a) == job[<<i, a>>].state # "none"

\* How far the handler of a post has come, in rows, in jobs and on disk.
PostInv(i) ==
  /\ post[i].at \in Pipeline!Working \cup Pipeline!Accepting \cup {"cut"} => i \in staged
  /\ post[i].at \in {"none", "check", "record"} => rows[i] = {}
  /\ post[i].at \in {"route", "resource"} => rows[i] = {"item"}
  /\ post[i].at = "decide" => rows[i] = {"item", "resource"}
  /\ post[i].at \in {"enqueue", "queued"} => rows[i] = Pipeline!AllRows
  /\ post[i].at \in {"none", "check", "record", "route", "resource", "decide"} =>
       \A a \in Accounts : ~Enqueued(i, a)
  /\ post[i].at = "enqueue" =>
       /\ post[i].left # {} /\ post[i].left \subseteq post[i].chosen
       /\ \A a \in Accounts : Enqueued(i, a) <=> a \in post[i].chosen \ post[i].left
  /\ post[i].at = "queued" =>
       /\ post[i].chosen # {}
       /\ \A a \in Accounts : Enqueued(i, a) <=> a \in post[i].chosen

\* The page has posted nothing twice, and counts what was accepted.
PageInv ==
  /\ \A i \in page.done : post[i].at \in Pipeline!Accepting
  /\ \A i \in page.todo : post[i].at = "none"
  /\ page.at = "staged" => page.todo = {}

AnswerInv == EntryInv /\ (\A i \in Items : PostInv(i)) /\ PageInv

LEMMA AnswerInit == Init => AnswerInv
BY DEF Init, Pipeline!PipelineInit, AnswerInv, EntryInv, PostInv, PageInv, Enqueued,
   Pipeline!NoJob, Pipeline!NoPost, Pipeline!Working, Pipeline!Accepting

\* A handler changes nothing of another post.
LEMMA OthersKept ==
  ASSUME TypeInv, NEW i \in Items, Pipeline!Handle(i), NEW q \in Items \ {i}
  PROVE  /\ post'[q] = post[q] /\ rows'[q] = rows[q] /\ (q \in staged' <=> q \in staged)
         /\ \A a \in Accounts : job'[<<q, a>>] = job[<<q, a>>]
         /\ UNCHANGED page
<1>a. /\ post \in [Items -> PostType] /\ rows \in [Items -> SUBSET Pipeline!AllRows]
      /\ job \in [Jobs -> QueueEntry]
  BY DEF TypeInv, TypeOK, PostType
<1>b. ASSUME NEW at, Pipeline!Goto(i, at) PROVE post'[q] = post[q]
  BY <1>a, <1>b DEF Pipeline!Goto
<1>c. ASSUME Pipeline!Refuse(i) PROVE post'[q] = post[q] /\ (q \in staged' <=> q \in staged)
  BY <1>b, <1>c DEF Pipeline!Refuse
<1>d. ASSUME Pipeline!StatementFails(i) PROVE post'[q] = post[q] /\ (q \in staged' <=> q \in staged)
  BY <1>c, <1>d DEF Pipeline!StatementFails
<1>1. CASE Pipeline!Check(i)
  <2>1. post'[q] = post[q] /\ (q \in staged' <=> q \in staged)
    BY <1>b, <1>c, <1>d, <1>1 DEF Pipeline!Check
  <2> QED
    BY <1>a, <1>1, <2>1 DEF Pipeline!Check
<1>2. CASE Pipeline!Record(i)
  <2>1. post'[q] = post[q] /\ (q \in staged' <=> q \in staged)
    BY <1>b, <1>d, <1>2 DEF Pipeline!Record
  <2>2. rows'[q] = rows[q] /\ UNCHANGED <<page, job>>
    BY <1>a, <1>2 DEF Pipeline!Record
  <2> QED
    BY <2>1, <2>2
<1>3. CASE Pipeline!Route(i)
  <2>1. post'[q] = post[q] /\ (q \in staged' <=> q \in staged)
    BY <1>a, <1>b, <1>d, <1>3 DEF Pipeline!Route
  <2> QED
    BY <1>3, <2>1 DEF Pipeline!Route
<1>4. CASE Pipeline!Resource(i)
  <2>1. post'[q] = post[q] /\ (q \in staged' <=> q \in staged)
    BY <1>b, <1>d, <1>4 DEF Pipeline!Resource
  <2>2. rows'[q] = rows[q] /\ UNCHANGED <<page, job>>
    BY <1>a, <1>4 DEF Pipeline!Resource
  <2> QED
    BY <2>1, <2>2
<1>5. CASE Pipeline!Decide(i)
  <2>1. post'[q] = post[q] /\ (q \in staged' <=> q \in staged)
    BY <1>a, <1>d, <1>5 DEF Pipeline!Decide
  <2>2. rows'[q] = rows[q] /\ UNCHANGED <<page, job>>
    BY <1>a, <1>5 DEF Pipeline!Decide
  <2> QED
    BY <2>1, <2>2
<1>6. ASSUME NEW b \in Accounts, Pipeline!Enqueue(i, b)
      PROVE  /\ post'[q] = post[q] /\ rows'[q] = rows[q] /\ (q \in staged' <=> q \in staged)
             /\ \A a \in Accounts : job'[<<q, a>>] = job[<<q, a>>]
             /\ UNCHANGED page
  <2>1. post'[q] = post[q] /\ (q \in staged' <=> q \in staged)
    BY <1>a, <1>d, <1>6 DEF Pipeline!Enqueue
  <2>2. ASSUME NEW a \in Accounts PROVE job'[<<q, a>>] = job[<<q, a>>]
    <3>1. <<q, a>> \in Jobs /\ <<q, a>> # <<i, b>>
      OBVIOUS
    <3>2. \E new : job' = [job EXCEPT ![<<i, b>>] = new]
      BY <1>6 DEF Pipeline!Enqueue
    <3> QED
      BY <1>a, <3>1, <3>2
  <2> QED
    BY <1>6, <2>1, <2>2 DEF Pipeline!Enqueue
<1> QED
  BY <1>1, <1>2, <1>3, <1>4, <1>5, <1>6 DEF Pipeline!Handle

\* What a handler does to its own post: it is refused, or it goes on.
LEMMA OwnPost ==
  ASSUME TypeInv, EntryInv, NEW i \in Items, PostInv(i), Pipeline!Handle(i)
  PROVE  /\ PostInv(i)'
         /\ post[i].at \in Pipeline!Working
         /\ \A a \in Accounts : \/ job'[<<i, a>>] = job[<<i, a>>]
                                \/ job[<<i, a>>] = Pipeline!NoJob /\ job'[<<i, a>>] = Pipeline!NewJob
<1>a. /\ post \in [Items -> PostType] /\ rows \in [Items -> SUBSET Pipeline!AllRows]
      /\ job \in [Jobs -> QueueEntry] /\ staged \subseteq Items
  BY DEF TypeInv, TypeOK, PostType
<1>b. ASSUME NEW at, Pipeline!Goto(i, at)
      PROVE post'[i].at = at /\ post'[i].chosen = post[i].chosen /\ post'[i].left = post[i].left
  BY <1>a, <1>b DEF Pipeline!Goto, PostType
<1>c. ASSUME post'[i].at = "refused" PROVE PostInv(i)'
  BY <1>c DEF PostInv, Pipeline!Working, Pipeline!Accepting
<1>d. Pipeline!StatementFails(i) \/ Pipeline!Refuse(i) => PostInv(i)'
  BY <1>b, <1>c DEF Pipeline!StatementFails, Pipeline!Refuse
<1>e. post[i].at \in Pipeline!Working => i \in staged
  BY DEF PostInv
<1>1. CASE Pipeline!Check(i)
  <2>1. post[i].at = "check" /\ UNCHANGED <<rows, job>>
    BY <1>1 DEF Pipeline!Check
  <2>2. CASE Pipeline!Goto(i, "record") /\ UNCHANGED staged
    BY <1>b, <2>1, <2>2 DEF PostInv, Enqueued, Pipeline!Working, Pipeline!Accepting
  <2>3. PostInv(i)'
    BY <1>d, <1>1, <2>2 DEF Pipeline!Check
  <2> QED
    BY <2>1, <2>3 DEF Pipeline!Working
<1>2. CASE Pipeline!Record(i)
  <2>1. post[i].at = "record" /\ UNCHANGED job
    BY <1>2 DEF Pipeline!Record
  <2>2. CASE Pipeline!Goto(i, "staged") /\ UNCHANGED staged
    BY <1>b, <1>e, <2>1, <2>2 DEF PostInv, Enqueued, Pipeline!Working, Pipeline!Accepting
  <2>3. ASSUME NEW at \in {"route", "blocked"}, Pipeline!Goto(i, at), UNCHANGED staged,
               rows' = [rows EXCEPT ![i] = {"item"}]
        PROVE PostInv(i)'
    BY <1>a, <1>b, <1>e, <2>1, <2>3 DEF PostInv, Enqueued, Pipeline!Working, Pipeline!Accepting
  <2>4. PostInv(i)'
    BY <1>d, <1>2, <2>2, <2>3 DEF Pipeline!Record
  <2> QED
    BY <2>1, <2>4 DEF Pipeline!Working
<1>3. CASE Pipeline!Route(i)
  <2>1. post[i].at = "route" /\ UNCHANGED <<rows, job>>
    BY <1>3 DEF Pipeline!Route
  <2>2. CASE Pipeline!Goto(i, "blocked") /\ UNCHANGED staged
    BY <1>b, <1>e, <2>1, <2>2 DEF PostInv, Enqueued, Pipeline!Working, Pipeline!Accepting
  <2>3. ASSUME NEW S, UNCHANGED staged,
               post' = [post EXCEPT ![i] = [post[i] EXCEPT !.at = "resource", !.chosen = S]]
        PROVE PostInv(i)'
    <3>1. post'[i].at = "resource"
      BY <1>a, <2>3 DEF PostType
    <3> QED
      BY <1>e, <2>1, <2>3, <3>1 DEF PostInv, Enqueued, Pipeline!Working, Pipeline!Accepting
  <2>4. PostInv(i)'
    BY <1>d, <1>3, <2>2, <2>3 DEF Pipeline!Route
  <2> QED
    BY <2>1, <2>4 DEF Pipeline!Working
<1>4. CASE Pipeline!Resource(i)
  <2>1. post[i].at = "resource" /\ UNCHANGED job
    BY <1>4 DEF Pipeline!Resource
  <2>2. CASE /\ rows' = [rows EXCEPT ![i] = @ \cup {"resource"}]
             /\ Pipeline!Goto(i, "decide") /\ UNCHANGED staged
    <3>1. rows'[i] = {"item", "resource"}
      BY <1>a, <2>1, <2>2 DEF PostInv
    <3> QED
      BY <1>b, <1>e, <2>1, <2>2, <3>1 DEF PostInv, Enqueued, Pipeline!Working, Pipeline!Accepting
  <2>3. PostInv(i)'
    BY <1>d, <1>4, <2>2 DEF Pipeline!Resource
  <2> QED
    BY <2>1, <2>3 DEF Pipeline!Working
<1>5. CASE Pipeline!Decide(i)
  <2>1. post[i].at = "decide" /\ UNCHANGED job
    BY <1>5 DEF Pipeline!Decide
  <2>2. ASSUME rows' = [rows EXCEPT ![i] = @ \cup {"decision"}], UNCHANGED staged,
               post' = [post EXCEPT ![i] = [post[i] EXCEPT
                 !.at = IF post[i].chosen = {} THEN "blocked" ELSE "enqueue",
                 !.left = post[i].chosen]]
        PROVE PostInv(i)'
    <3>1. rows'[i] = Pipeline!AllRows
      BY <1>a, <2>1, <2>2 DEF PostInv, Pipeline!AllRows
    <3>2. /\ post'[i].at = IF post[i].chosen = {} THEN "blocked" ELSE "enqueue"
          /\ post'[i].chosen = post[i].chosen /\ post'[i].left = post[i].chosen
      BY <1>a, <2>2 DEF PostType
    <3>3. i \in staged' /\ \A a \in Accounts : ~Enqueued(i, a)'
      BY <1>e, <2>1, <2>2 DEF PostInv, Enqueued, Pipeline!Working
    <3>4. CASE post[i].chosen = {}
      <4>1. post'[i].at = "blocked"
        BY <3>2, <3>4
      <4> QED
        BY <3>3, <4>1 DEF PostInv, Enqueued, Pipeline!Working, Pipeline!Accepting
    <3>5. CASE post[i].chosen # {}
      <4>1. post'[i].at = "enqueue" /\ post'[i].left = post'[i].chosen /\ post'[i].left # {}
        BY <3>2, <3>5
      <4>2. \A a \in Accounts : Enqueued(i, a)' <=> a \in post'[i].chosen \ post'[i].left
        BY <3>3, <4>1
      <4> QED
        BY <3>1, <3>3, <4>1, <4>2 DEF PostInv, Enqueued, Pipeline!Working, Pipeline!Accepting
    <3> QED
      BY <3>4, <3>5
  <2>3. PostInv(i)'
    BY <1>d, <1>5, <2>2 DEF Pipeline!Decide
  <2> QED
    BY <2>1, <2>3 DEF Pipeline!Working
<1>6. ASSUME NEW b \in Accounts, Pipeline!Enqueue(i, b)
      PROVE  /\ PostInv(i)'
             /\ post[i].at \in Pipeline!Working
             /\ \A a \in Accounts :
                  \/ job'[<<i, a>>] = job[<<i, a>>]
                  \/ job[<<i, a>>] = Pipeline!NoJob /\ job'[<<i, a>>] = Pipeline!NewJob
  <2>1. post[i].at = "enqueue" /\ b \in post[i].left /\ UNCHANGED rows
    BY <1>6 DEF Pipeline!Enqueue
  <2>2. job[<<i, b>>] = Pipeline!NoJob
    <3>1. job[<<i, b>>].state = "none"
      BY <2>1 DEF PostInv, Enqueued
    <3> QED
      BY <3>1 DEF EntryInv
  <2>3. /\ \A a \in Accounts \ {b} : job'[<<i, a>>] = job[<<i, a>>]
        /\ job'[<<i, b>>] \in {Pipeline!NoJob, Pipeline!NewJob}
    <3>1. ASSUME NEW new, job' = [job EXCEPT ![<<i, b>>] = new]
          PROVE /\ \A a \in Accounts \ {b} : job'[<<i, a>>] = job[<<i, a>>]
                /\ job'[<<i, b>>] = new
      <4>1. \A a \in Accounts : <<i, a>> \in Jobs
        OBVIOUS
      <4> QED
        BY <1>a, <3>1, <4>1
    <3> QED
      BY <1>6, <3>1 DEF Pipeline!Enqueue
  <2>4. ASSUME job' = [job EXCEPT ![<<i, b>>] = Pipeline!NewJob], UNCHANGED staged,
               post' = [post EXCEPT ![i] = [post[i] EXCEPT
                 !.left = post[i].left \ {b},
                 !.at = IF post[i].left \ {b} = {} THEN "queued" ELSE "enqueue"]]
        PROVE PostInv(i)'
    <3>1. /\ post'[i].at = IF post[i].left \ {b} = {} THEN "queued" ELSE "enqueue"
          /\ post'[i].chosen = post[i].chosen /\ post'[i].left = post[i].left \ {b}
      BY <1>a, <2>4 DEF PostType
    <3>2. job'[<<i, b>>].state = "waiting"
      <4>1. <<i, b>> \in Jobs
        OBVIOUS
      <4> QED
        BY <1>a, <2>4, <4>1 DEF Pipeline!NewJob, Pipeline!NoJob
    <3>3. /\ i \in staged' /\ rows'[i] = Pipeline!AllRows
          /\ post[i].left \subseteq post[i].chosen
          /\ \A a \in Accounts : Enqueued(i, a) <=> a \in post[i].chosen \ post[i].left
      BY <1>e, <2>1, <2>4 DEF PostInv, Pipeline!Working
    <3>4. \A a \in Accounts : Enqueued(i, a)' <=> a \in post[i].chosen \ (post[i].left \ {b})
      BY <2>1, <2>3, <3>2, <3>3 DEF Enqueued
    <3>5. post[i].chosen # {}
      BY <2>1, <3>3
    <3>6. CASE post[i].left \ {b} = {}
      <4>1. /\ post'[i].at = "queued" /\ post'[i].chosen # {}
            /\ \A a \in Accounts : Enqueued(i, a)' <=> a \in post'[i].chosen
        BY <3>1, <3>4, <3>5, <3>6
      <4> QED
        BY <3>3, <4>1 DEF PostInv, Enqueued, Pipeline!Working, Pipeline!Accepting
    <3>7. CASE post[i].left \ {b} # {}
      <4>1. /\ post'[i].at = "enqueue" /\ post'[i].left # {} /\ post'[i].left \subseteq post'[i].chosen
            /\ \A a \in Accounts : Enqueued(i, a)' <=> a \in post'[i].chosen \ post'[i].left
        BY <3>1, <3>3, <3>4, <3>7
      <4> QED
        BY <3>3, <4>1 DEF PostInv, Enqueued, Pipeline!Working, Pipeline!Accepting
    <3> QED
      BY <3>6, <3>7
  <2>5. PostInv(i)'
    BY <1>d, <1>6, <2>4 DEF Pipeline!Enqueue
  <2> QED
    BY <2>1, <2>2, <2>3, <2>5 DEF Pipeline!Working
<1> QED
  BY <1>1, <1>2, <1>3, <1>4, <1>5, <1>6 DEF Pipeline!Handle

\* The entries of the queue that a step of the pipeline changes are new ones.
LEMMA PipelineJobs ==
  ASSUME TypeInv, AnswerInv, Pipeline!PipelineNext, NEW j \in Jobs
  PROVE  job'[j] = job[j] \/ (job[j] = Pipeline!NoJob /\ job'[j] = Pipeline!NewJob)
<1>1. PICK i \in Items, a \in Accounts : j = <<i, a>>
  OBVIOUS
<1>2. ASSUME NEW q \in Items, Pipeline!Handle(q)
      PROVE job'[j] = job[j] \/ (job[j] = Pipeline!NoJob /\ job'[j] = Pipeline!NewJob)
  <2>1. CASE i = q
    BY <1>1, <1>2, <2>1, OwnPost DEF AnswerInv
  <2>2. CASE i # q
    BY <1>1, <1>2, <2>2, OthersKept
  <2> QED
    BY <2>1, <2>2
<1> QED
  BY <1>2 DEF Pipeline!PipelineNext, Pipeline!PageStep, Pipeline!PickFiles, Pipeline!CreateSession,
     Pipeline!PostFile, Pipeline!ReadAnswer, Pipeline!Expire, Pipeline!Restart

\* The steps of the pipeline keep what an answer promises.
LEMMA AnswerPipeline ==
  ASSUME TypeInv, AnswerInv, Pipeline!PipelineNext
  PROVE  AnswerInv'
<1>a. /\ post \in [Items -> PostType] /\ job \in [Jobs -> QueueEntry] /\ page \in PageType
  BY DEF TypeInv, TypeOK, PostType, PageType
<1>b. EntryInv'
  <2>1. /\ Pipeline!NewJob.owner = Nil /\ Pipeline!NewJob.state = "waiting"
    BY DEF Pipeline!NewJob, Pipeline!NoJob
  <2> QED
    BY <2>1, PipelineJobs DEF AnswerInv, EntryInv
<1>c. ASSUME NEW i \in Items, post'[i] = post[i], rows'[i] = rows[i], i \in staged' <=> i \in staged,
             \A a \in Accounts : job'[<<i, a>>] = job[<<i, a>>]
      PROVE PostInv(i)'
  <2>1. PostInv(i)
    BY DEF AnswerInv
  <2>2. \A a \in Accounts : Enqueued(i, a)' <=> Enqueued(i, a)
    BY <1>c DEF Enqueued
  <2> QED
    BY <1>c, <2>1, <2>2 DEF PostInv
<1>1. ASSUME NEW S \in SUBSET Items, Pipeline!PickFiles(S) PROVE AnswerInv'
  <2>1. \A i \in Items : PostInv(i)'
    BY <1>c, <1>1 DEF Pipeline!PickFiles
  <2>2. PageInv'
    BY <1>1 DEF Pipeline!PickFiles, PageInv
  <2> QED
    BY <1>b, <2>1, <2>2 DEF AnswerInv
<1>2. ASSUME NEW s \in Sessions, Pipeline!CreateSession(s) PROVE AnswerInv'
  <2>1. \A i \in Items : PostInv(i)'
    BY <1>c, <1>2 DEF Pipeline!CreateSession
  <2>2. page'.done = page.done /\ page'.todo = page.todo /\ page'.at # "staged" /\ UNCHANGED post
    BY <1>a, <1>2 DEF Pipeline!CreateSession, PageType
  <2> QED
    BY <1>b, <2>1, <2>2 DEF AnswerInv, PageInv
<1>3. ASSUME NEW i \in Items, Pipeline!PostFile(i) PROVE AnswerInv'
  <2>0. post[i].at = "none"
    BY <1>3 DEF Pipeline!PostFile, AnswerInv, PageInv
  <2>1. post'[i].at = "check" /\ \A q \in Items \ {i} : post'[q] = post[q]
    BY <1>a, <1>3 DEF Pipeline!PostFile, Pipeline!NoPost
  <2>2. PostInv(i)'
    <3>1. i \in staged' /\ UNCHANGED <<rows, job>>
      BY <1>3 DEF Pipeline!PostFile
    <3>2. rows[i] = {} /\ \A a \in Accounts : ~Enqueued(i, a)
      BY <2>0 DEF AnswerInv, PostInv
    <3> QED
      BY <2>1, <3>1, <3>2 DEF PostInv, Enqueued
  <2>3. \A q \in Items \ {i} : PostInv(q)'
    BY <1>c, <1>3, <2>1 DEF Pipeline!PostFile
  <2>4. page'.done = page.done /\ page'.todo = page.todo \ {i} /\ page'.at = "wait"
    BY <1>a, <1>3 DEF Pipeline!PostFile, PageType
  <2>5. i \notin page.done
    BY <2>0 DEF AnswerInv, PageInv, Pipeline!Accepting
  <2>6. page.done \subseteq Items /\ page.todo \subseteq Items
    BY <1>a DEF PageType
  <2>7. PageInv'
    BY <2>1, <2>4, <2>5, <2>6 DEF AnswerInv, PageInv
  <2> QED
    BY <1>b, <2>2, <2>3, <2>7 DEF AnswerInv
<1>4. ASSUME Pipeline!ReadAnswer PROVE AnswerInv'
  <2>1. \A i \in Items : PostInv(i)'
    BY <1>c, <1>4 DEF Pipeline!ReadAnswer
  <2>0. UNCHANGED post /\ PageInv
    BY <1>4 DEF Pipeline!ReadAnswer, AnswerInv
  <2>2. ASSUME page' = [page EXCEPT !.at = "preview"] PROVE PageInv'
    <3>1. page'.at = "preview" /\ page'.done = page.done /\ page'.todo = page.todo
      BY <1>a, <2>2 DEF PageType
    <3> QED
      BY <2>0, <3>1 DEF PageInv
  <2>3. ASSUME post[page.current].at \in Pipeline!Accepting,
               page' = [page EXCEPT !.at = IF page.todo = {} THEN "staged" ELSE "post",
                                     !.done = page.done \cup {page.current}]
        PROVE PageInv'
    <3>1. /\ page'.at = IF page.todo = {} THEN "staged" ELSE "post"
          /\ page'.done = page.done \cup {page.current} /\ page'.todo = page.todo
      BY <1>a, <2>3 DEF PageType
    <3>2. page'.at = "staged" => page'.todo = {}
      BY <3>1
    <3> QED
      BY <2>0, <2>3, <3>1, <3>2 DEF PageInv
  <2>4. PageInv'
    BY <1>4, <2>2, <2>3 DEF Pipeline!ReadAnswer
  <2> QED
    BY <1>b, <2>1, <2>4 DEF AnswerInv
<1>5. ASSUME NEW i \in Items, Pipeline!Handle(i) PROVE AnswerInv'
  <2>1. PostInv(i)' /\ post[i].at \in Pipeline!Working
    BY <1>5, OwnPost DEF AnswerInv
  <2>2. \A q \in Items \ {i} : post'[q] = post[q] /\ PostInv(q)'
    BY <1>5, <1>c, OthersKept
  <2>3. UNCHANGED page
    BY <1>5 DEF Pipeline!Handle, Pipeline!Check, Pipeline!Record, Pipeline!Route, Pipeline!Resource,
       Pipeline!Decide, Pipeline!Enqueue
  <2>4. i \notin page.done /\ i \notin page.todo
    BY <2>1 DEF AnswerInv, PageInv, Pipeline!Accepting, Pipeline!Working
  <2>5. PageInv'
    BY <1>a, <2>2, <2>3, <2>4 DEF AnswerInv, PageInv, PageType
  <2> QED
    BY <1>b, <2>1, <2>2, <2>5 DEF AnswerInv
<1>6. ASSUME NEW s \in Sessions, Pipeline!Expire(s) PROVE AnswerInv'
  <2>1. \A i \in Items : PostInv(i)'
    BY <1>c, <1>6 DEF Pipeline!Expire
  <2> QED
    BY <1>b, <1>6, <2>1 DEF Pipeline!Expire, AnswerInv, PageInv
<1>7. ASSUME Pipeline!Restart PROVE AnswerInv'
  <2>1. \A i \in Items : post'[i].at = IF post[i].at \in Pipeline!Working THEN "cut" ELSE post[i].at
    BY <1>a, <1>7 DEF Pipeline!Restart, PostType
  <2>2. ASSUME NEW i \in Items PROVE PostInv(i)'
    <3>1. CASE post[i].at \in Pipeline!Working
      <4>1. i \in staged' /\ post'[i].at = "cut"
        BY <1>7, <2>1, <3>1 DEF Pipeline!Restart, AnswerInv, PostInv
      <4> QED
        BY <4>1 DEF PostInv
    <3>2. CASE post[i].at \notin Pipeline!Working
      BY <1>a, <1>c, <1>7, <3>2 DEF Pipeline!Restart
    <3> QED
      BY <3>1, <3>2
  <2>3. PageInv'
    <3>1. Pipeline!Accepting \cap Pipeline!Working = {} /\ "none" \notin Pipeline!Working
      BY DEF Pipeline!Accepting, Pipeline!Working
    <3>2. page.done \subseteq Items /\ page.todo \subseteq Items
      BY <1>a DEF PageType
    <3> QED
      BY <1>7, <2>1, <3>1, <3>2 DEF Pipeline!Restart, AnswerInv, PageInv
  <2> QED
    BY <1>b, <2>2, <2>3 DEF AnswerInv
<1> QED
  BY <1>1, <1>2, <1>3, <1>4, <1>5, <1>6, <1>7 DEF Pipeline!PipelineNext, Pipeline!PageStep

-----------------------------------------------------------------------------
\* What a step of the worker does to the queue: an entry was enqueued before,
\* and goes from hand to hand.
LEMMA WorkerJobs ==
  ASSUME TypeInv, EntryInv, Worker!WorkerNext
  PROVE  /\ EntryInv' /\ UNCHANGED staged
         /\ \A j \in Jobs : job'[j].state = "none" <=> job[j].state = "none"
<1>a. job \in [Jobs -> QueueEntry] /\ \A w \in Workers : run[w].at # "idle" => run[w].job \in Jobs
  BY DEF TypeInv, TypeOK
<1> DEFINE Enq == /\ EntryInv'
                  /\ \A j \in Jobs : job'[j].state = "none" <=> job[j].state = "none"
<1>0. UNCHANGED job => Enq
  BY DEF EntryInv
<1>1. ASSUME NEW j \in Jobs, NEW q \in QueueEntry, job' = [job EXCEPT ![j] = q],
             job[j].state # "none", q.state # "none", q.owner # Nil <=> q.state = "active"
      PROVE Enq
  BY <1>a, <1>1 DEF EntryInv
<1>2. ASSUME NEW j \in Jobs, job[j].state # "none", job' = [job EXCEPT ![j] = Worker!TriedAgain(job[j])]
      PROVE Enq
  <2>1. /\ Worker!TriedAgain(job[j]) \in QueueEntry
        /\ Worker!TriedAgain(job[j]).state \in {"waiting", "failed"}
        /\ Worker!TriedAgain(job[j]).owner = Nil
    BY <1>a, EntryType DEF Worker!TriedAgain, QueueEntry
  <2> QED
    BY <1>1, <1>2, <2>1
<1>3. ASSUME NEW j \in Jobs, job[j].state # "none", job' = [job EXCEPT ![j] = Worker!GivenAgain(job[j])]
      PROVE Enq
  <2>1. /\ Worker!GivenAgain(job[j]) \in QueueEntry
        /\ Worker!GivenAgain(job[j]).state \in {"waiting", "failed"}
        /\ Worker!GivenAgain(job[j]).owner = Nil
    BY <1>a, EntryType DEF Worker!GivenAgain, QueueEntry
  <2> QED
    BY <1>1, <1>3, <2>1
<1>4. ASSUME NEW w \in Workers, NEW j \in Jobs, Worker!Take(w, j) PROVE Enq
  <2>1. job[j].state # "none"
    BY <1>4 DEF Worker!Take
  <2>2. CASE job' = [job EXCEPT ![j] = [job[j] EXCEPT !.state = "active", !.owner = w]]
    <3>1. /\ [job[j] EXCEPT !.state = "active", !.owner = w] \in QueueEntry
          /\ [job[j] EXCEPT !.state = "active", !.owner = w].state = "active"
          /\ [job[j] EXCEPT !.state = "active", !.owner = w].owner = w
      BY <1>a, EntryType DEF QueueEntry
    <3> QED
      BY <1>1, <2>1, <2>2, <3>1, WorkerAssumption
  <2> QED
    BY <1>2, <1>4, <2>1, <2>2 DEF Worker!Take
<1>5. ASSUME NEW w \in Workers, run[w].at # "idle", job[run[w].job].owner = w
      PROVE run[w].job \in Jobs /\ job[run[w].job].state = "active"
  BY <1>a, <1>5, WorkerAssumption DEF EntryInv
<1>6. ASSUME NEW w \in Workers, run[w].at # "idle", Worker!Completed(w) PROVE Enq
  <2> DEFINE j == run[w].job
  <2>1. CASE job[j].owner = w
    <3>1. /\ [job[j] EXCEPT !.state = "done", !.owner = Nil] \in QueueEntry
          /\ [job[j] EXCEPT !.state = "done", !.owner = Nil].state = "done"
          /\ [job[j] EXCEPT !.state = "done", !.owner = Nil].owner = Nil
      BY <1>a, <1>5, <1>6, <2>1, EntryType DEF QueueEntry
    <3>2. job' = [job EXCEPT ![j] = [job[j] EXCEPT !.state = "done", !.owner = Nil]]
      BY <1>6, <2>1 DEF Worker!Completed
    <3> QED
      BY <1>1, <1>5, <1>6, <2>1, <3>1, <3>2
  <2>2. CASE job[j].owner # w
    BY <1>0, <1>6, <2>2 DEF Worker!Completed
  <2> QED
    BY <2>1, <2>2
<1>7. ASSUME NEW w \in Workers, run[w].at # "idle", Worker!Failed(w) PROVE Enq
  BY <1>0, <1>2, <1>5, <1>7 DEF Worker!Failed
<1>8. ASSUME NEW w \in Workers, Worker!Stall(w) PROVE Enq
  BY <1>3, <1>5, <1>8 DEF Worker!Stall
<1>9. ASSUME NEW w \in Workers, Worker!Execute(w) PROVE Enq
  <2>1. CASE Worker!AccessToken(w) \/ Worker!OpenSession(w)
    BY <1>0, <2>1 DEF Worker!AccessToken, Worker!OpenSession, Worker!Goes
  <2>2. CASE Worker!SendToDrive(w) \/ Worker!SendToTelegram(w) \/ Worker!StoreObject(w)
    BY <1>0, <2>2 DEF Worker!SendToDrive, Worker!SendToTelegram, Worker!Sent, Worker!StoreObject
  <2>3. CASE Worker!Finish(w)
    BY <1>0, <1>6, <2>3 DEF Worker!Finish
  <2>4. CASE Worker!Fail(w)
    BY <1>7, <2>4 DEF Worker!Fail
  <2> QED
    BY <1>4, <1>9, <2>1, <2>2, <2>3, <2>4 DEF Worker!Execute
<1>10. UNCHANGED staged
  BY DEF Worker!WorkerNext, Worker!Execute, Worker!Take, Worker!AccessToken, Worker!OpenSession,
     Worker!Goes, Worker!SendToDrive, Worker!SendToTelegram, Worker!Sent, Worker!StoreObject,
     Worker!Finish, Worker!Fail, Worker!Stall, Worker!Revoke
<1> QED
  BY <1>0, <1>8, <1>9, <1>10 DEF Worker!WorkerNext, Worker!Revoke

LEMMA AnswerStep == TypeInv /\ AnswerInv /\ [Next]_vars => AnswerInv'
<1> SUFFICES ASSUME TypeInv, AnswerInv, [Next]_vars PROVE AnswerInv'
  OBVIOUS
<1>1. CASE Pipeline!PipelineNext
  BY <1>1, AnswerPipeline
<1>2. CASE Worker!WorkerNext /\ UNCHANGED pipelineOnly
  <2>1. /\ EntryInv' /\ UNCHANGED staged
        /\ \A j \in Jobs : job'[j].state = "none" <=> job[j].state = "none"
    BY <1>2, WorkerJobs DEF AnswerInv
  <2>2. ASSUME NEW i \in Items PROVE PostInv(i)'
    <3>1. \A a \in Accounts : Enqueued(i, a)' <=> Enqueued(i, a)
      BY <2>1 DEF Enqueued
    <3>2. PostInv(i) /\ UNCHANGED <<post, rows, staged>>
      BY <1>2, <2>1 DEF AnswerInv, pipelineOnly
    <3> QED
      BY <3>1, <3>2 DEF PostInv
  <2> QED
    BY <1>2, <2>1, <2>2 DEF AnswerInv, PageInv, pipelineOnly
<1>3. CASE UNCHANGED vars
  BY <1>3 DEF AnswerInv, EntryInv, PostInv, PageInv, Enqueued, vars, pipelineOnly, shared, workerOnly
<1> QED
  BY <1>1, <1>2, <1>3 DEF Next

LEMMA AnswerHolds == Spec => [](TypeInv /\ AnswerInv)
BY TypeInit, TypeStep, AnswerInit, AnswerStep, PTL DEF Spec

(* Whatever fails and whoever is cut off, "queued" is answered only for a   *)
(* file that has all its rows, its staged file, and a job for every chosen  *)
(* account and no other.                                                    *)
THEOREM QueuedComplete == Spec => []QueuedIsComplete
<1>1. TypeInv /\ AnswerInv => QueuedIsComplete
  BY DEF AnswerInv, PostInv, QueuedIsComplete, Enqueued, Pipeline!Accepting
<1> QED
  BY <1>1, AnswerHolds, PTL

(* Only a refused post takes the staged file away from a job.               *)
THEOREM FileKept == Spec => []JobsKeepFile
<1>1. ASSUME TypeInv, AnswerInv, NEW j \in Jobs, job[j].state # "none", j[1] \notin staged
      PROVE post[j[1]].at = "refused"
  <2>1. PICK i \in Items, a \in Accounts : j = <<i, a>>
    OBVIOUS
  <2>2. Enqueued(i, a) /\ i \notin staged
    BY <1>1, <2>1 DEF Enqueued
  <2>3. post[i].at \in PostState
    BY <1>1 DEF TypeInv, TypeOK
  <2>4. PostInv(i)
    BY <1>1 DEF AnswerInv
  <2>5. post[i].at \notin Pipeline!Working \cup Pipeline!Accepting \cup {"cut", "none"}
    BY <2>2, <2>4 DEF PostInv
  <2> QED
    BY <2>1, <2>3, <2>5 DEF PostState
<1>2. TypeInv /\ AnswerInv => JobsKeepFile
  BY <1>1 DEF JobsKeepFile
<1> QED
  BY <1>2, AnswerHolds, PTL

(* The page says "staged" only of files that the API accepted and keeps.    *)
THEOREM StagedMessage == Spec => []StagedMessageIsTrue
<1>1. TypeInv /\ AnswerInv => StagedMessageIsTrue
  BY DEF AnswerInv, PageInv, PostInv, StagedMessageIsTrue, TypeInv, TypeOK
<1> QED
  BY <1>1, AnswerHolds, PTL

-----------------------------------------------------------------------------
\* The executions of a job that are at one of some steps.
Doing(j, Steps) == {w \in Workers : run[w].job = j /\ run[w].at \in Steps}
One(r, j, Steps) == IF r.job = j /\ r.at \in Steps THEN 1 ELSE 0

Before == {"upload", "open", "send"}

\* How often a job was given to a worker or used up without one.
Given(q) == q.tries + q.stalls + IF q.state \in {"active", "done"} THEN 1 ELSE 0

\* A copy, or an execution that may still make one, was given the job; an
\* object, or an execution that may still store one, has a copy.
CopyInv(j) ==
  /\ objects[j] + Cardinality(Doing(j, {"object"})) <= remote[j]
  /\ remote[j] + Cardinality(Doing(j, Before)) <= Given(job[j])
  /\ \/ Doing(j, {"finish"}) # {} \/ attempt[j] = "synced" \/ job[j].state = "done"
     => objects[j] > 0

LEMMA CopyInit == Init => \A j \in Jobs : CopyInv(j)
<1> SUFFICES ASSUME Init, NEW j \in Jobs PROVE CopyInv(j)
  OBVIOUS
<1>1. \A w \in Workers : run[w].at = "idle"
  BY DEF Init, Worker!WorkerInit, Worker!IdleRun
<1>2. Doing(j, {"object"}) = {} /\ Doing(j, Before) = {} /\ Doing(j, {"finish"}) = {}
  BY <1>1 DEF Doing, Before
<1>3. objects[j] = 0 /\ remote[j] = 0 /\ attempt[j] = "none" /\ job[j] = Pipeline!NoJob
  BY DEF Init, Worker!WorkerInit, Pipeline!PipelineInit
<1>4. Given(job[j]) = 0 /\ job[j].state = "none"
  BY <1>3 DEF Given, Pipeline!NoJob
<1>5. Cardinality(Doing(j, {"object"})) = 0 /\ Cardinality(Doing(j, Before)) = 0
  BY <1>2, FS_EmptySet
<1> QED
  BY <1>2, <1>3, <1>4, <1>5 DEF CopyInv

\* A job is never given less often than before.
LEMMA GivenGrows ==
  ASSUME NEW q \in QueueEntry
  PROVE  /\ Given(q) \in Nat
         /\ Given(Worker!TriedAgain(q)) >= Given(q)
         /\ Given(Worker!GivenAgain(q)) >= Given(q)
         /\ q.state = "active" => Given([q EXCEPT !.state = "done", !.owner = Nil]) = Given(q)
         /\ q.state = "waiting" =>
              \A w \in Workers : Given([q EXCEPT !.state = "active", !.owner = w]) = Given(q) + 1
<1>1. q.tries \in Nat /\ q.stalls \in Nat
  BY DEF QueueEntry
<1>2. /\ Worker!TriedAgain(q).tries = q.tries + 1 /\ Worker!TriedAgain(q).stalls = q.stalls
      /\ Worker!TriedAgain(q).state \notin {"active", "done"}
  BY DEF QueueEntry, Worker!TriedAgain
<1>3. /\ Worker!GivenAgain(q).tries = q.tries /\ Worker!GivenAgain(q).stalls = q.stalls + 1
      /\ Worker!GivenAgain(q).state \notin {"active", "done"}
  BY DEF QueueEntry, Worker!GivenAgain
<1>4. \A w \in Workers :
        /\ [q EXCEPT !.state = "active", !.owner = w].tries = q.tries
        /\ [q EXCEPT !.state = "active", !.owner = w].stalls = q.stalls
        /\ [q EXCEPT !.state = "active", !.owner = w].state = "active"
  BY DEF QueueEntry
<1>5. /\ [q EXCEPT !.state = "done", !.owner = Nil].tries = q.tries
      /\ [q EXCEPT !.state = "done", !.owner = Nil].stalls = q.stalls
      /\ [q EXCEPT !.state = "done", !.owner = Nil].state = "done"
  BY DEF QueueEntry
<1> QED
  BY <1>1, <1>2, <1>3, <1>4, <1>5 DEF Given

\* One execution comes or goes, and is counted so.
LEMMA CountStep ==
  ASSUME NEW w \in Workers, NEW r, run \in [Workers -> RunType], run' = [run EXCEPT ![w] = r],
         NEW j, NEW Steps
  PROVE  /\ Cardinality(Doing(j, Steps)) \in Nat /\ Cardinality(Doing(j, Steps)') \in Nat
         /\ Cardinality(Doing(j, Steps)') + One(run[w], j, Steps)
              = Cardinality(Doing(j, Steps)) + One(r, j, Steps)
<1> DEFINE D == Doing(j, Steps)
           Rest == D \ {w}
<1>1. IsFiniteSet(D) /\ Cardinality(D) \in Nat
  BY FS_Subset, FS_CardinalityType, WorkerAssumption DEF Doing
<1>2. IsFiniteSet(Rest) /\ Cardinality(Rest) = IF w \in D THEN Cardinality(D) - 1 ELSE Cardinality(D)
  BY <1>1, FS_RemoveElement
<1>3. \A u \in Workers : run'[u] = IF u = w THEN r ELSE run[u]
  OBVIOUS
<1>4. D' = IF r.job = j /\ r.at \in Steps THEN Rest \cup {w} ELSE Rest
  BY <1>3 DEF Doing
<1>5. Cardinality(Rest \cup {w}) = Cardinality(Rest) + 1 /\ Cardinality(Rest) \in Nat
  BY <1>2, FS_AddElement, FS_CardinalityType
<1>6. w \in D <=> run[w].job = j /\ run[w].at \in Steps
  BY DEF Doing
<1>7. Cardinality(D') = Cardinality(Rest) + One(r, j, Steps)
  BY <1>4, <1>5 DEF One
<1>8. Cardinality(D) = Cardinality(Rest) + One(run[w], j, Steps)
  BY <1>1, <1>2, <1>5, <1>6 DEF One
<1>9. One(r, j, Steps) \in Nat /\ One(run[w], j, Steps) \in Nat
  BY DEF One
<1> QED
  BY <1>1, <1>5, <1>7, <1>8, <1>9

\* When the step of an execution keeps the account of a job.
LEMMA CopyKept ==
  ASSUME TypeInv, TypeInv', NEW j \in Jobs, CopyInv(j),
         NEW w \in Workers, NEW r, run' = [run EXCEPT ![w] = r],
         remote'[j] + One(r, j, Before) + Given(job[j])
           <= remote[j] + One(run[w], j, Before) + Given(job'[j]),
         objects'[j] + One(r, j, {"object"}) + remote[j]
           <= objects[j] + One(run[w], j, {"object"}) + remote'[j],
         objects[j] <= objects'[j],
         \/ r.job = j /\ r.at = "finish"
         \/ attempt'[j] = "synced" /\ attempt[j] # "synced"
         \/ job'[j].state = "done" /\ job[j].state # "done"
         => objects'[j] > 0
  PROVE  CopyInv(j)'
<1>a. run \in [Workers -> RunType] /\ job[j] \in QueueEntry /\ job'[j] \in QueueEntry
      /\ objects[j] \in Nat /\ remote[j] \in Nat /\ objects'[j] \in Nat /\ remote'[j] \in Nat
  BY DEF TypeInv, TypeOK, RunType
<1>b. Given(job[j]) \in Nat /\ Given(job'[j]) \in Nat
  BY <1>a, GivenGrows
<1>c. \A x, S : One(x, j, S) \in Nat
  BY DEF One
<1>d. \A S : /\ Cardinality(Doing(j, S)) \in Nat /\ Cardinality(Doing(j, S)') \in Nat
             /\ Cardinality(Doing(j, S)') + One(run[w], j, S) = Cardinality(Doing(j, S)) + One(r, j, S)
  BY <1>a, CountStep
<1>1. objects'[j] + Cardinality(Doing(j, {"object"})') <= remote'[j]
  <2>1. objects[j] + Cardinality(Doing(j, {"object"})) <= remote[j]
    BY DEF CopyInv
  <2> DEFINE c == Cardinality(Doing(j, {"object"}))
             d == Cardinality(Doing(j, {"object"})')
             x == One(r, j, {"object"})
             y == One(run[w], j, {"object"})
  <2>2. c \in Nat /\ d \in Nat /\ x \in Nat /\ y \in Nat /\ d + y = c + x
    BY <1>c, <1>d
  <2>3. objects'[j] + x + remote[j] <= objects[j] + y + remote'[j] /\ objects[j] + c <= remote[j]
    BY <2>1
  <2> HIDE DEF c, d, x, y
  <2>4. objects'[j] + d <= remote'[j]
    BY <1>a, <2>2, <2>3
  <2> QED
    BY <2>4 DEF d
<1>2. remote'[j] + Cardinality(Doing(j, Before)') <= Given(job'[j])
  <2>1. remote[j] + Cardinality(Doing(j, Before)) <= Given(job[j])
    BY DEF CopyInv
  <2> DEFINE c == Cardinality(Doing(j, Before))
             d == Cardinality(Doing(j, Before)')
             x == One(r, j, Before)
             y == One(run[w], j, Before)
  <2>2. c \in Nat /\ d \in Nat /\ x \in Nat /\ y \in Nat /\ d + y = c + x
    BY <1>c, <1>d
  <2>3. remote'[j] + x + Given(job[j]) <= remote[j] + y + Given(job'[j]) /\ remote[j] + c <= Given(job[j])
    BY <2>1
  <2> HIDE DEF c, d, x, y
  <2>4. remote'[j] + d <= Given(job'[j])
    BY <1>a, <1>b, <2>2, <2>3
  <2> QED
    BY <2>4 DEF d
<1>3. ASSUME Doing(j, {"finish"})' # {} \/ attempt'[j] = "synced" \/ job'[j].state = "done"
      PROVE objects'[j] > 0
  <2>1. Doing(j, {"finish"})' # {} => Doing(j, {"finish"}) # {} \/ (r.job = j /\ r.at = "finish")
    <3>1. ASSUME NEW u \in Workers, run'[u].job = j, run'[u].at = "finish"
          PROVE Doing(j, {"finish"}) # {} \/ (r.job = j /\ r.at = "finish")
      BY <1>a, <3>1 DEF Doing
    <3> QED
      BY <3>1 DEF Doing
  <2> QED
    BY <1>a, <1>3, <2>1 DEF CopyInv
<1> QED
  BY <1>1, <1>2, <1>3 DEF CopyInv, Given

\* The steps of a worker keep the account of every job.
LEMMA CopyWorker ==
  ASSUME TypeInv, TypeInv', EntryInv, Worker!WorkerNext,
         \A j \in Jobs : CopyInv(j)
  PROVE  \A j \in Jobs : CopyInv(j)'
<1>a. /\ run \in [Workers -> RunType] /\ job \in [Jobs -> QueueEntry]
      /\ objects \in [Jobs -> Nat] /\ remote \in [Jobs -> Nat]
      /\ attempt \in [Jobs -> {"none", "processing", "synced", "failed"}]
      /\ \A w \in Workers : run[w].at # "idle" => run[w].job \in Jobs
  BY DEF TypeInv, TypeOK, RunType
<1>b. \A j \in Jobs : Given(job[j]) \in Nat /\ Given(job'[j]) \in Nat
  <2>1. \A j \in Jobs : job[j] \in QueueEntry /\ job'[j] \in QueueEntry
    BY DEF TypeInv, TypeOK
  <2> QED
    BY <2>1, GivenGrows
<1>c. ASSUME NEW w \in Workers, NEW at, Worker!Goto(w, at)
      PROVE /\ run' = [run EXCEPT ![w] = [run[w] EXCEPT !.at = at]]
            /\ [run[w] EXCEPT !.at = at].job = run[w].job /\ [run[w] EXCEPT !.at = at].at = at
  BY <1>a, <1>c DEF Worker!Goto, RunType
<1>d. ASSUME NEW w \in Workers, Worker!Rest(w)
      PROVE /\ run' = [run EXCEPT ![w] = Worker!IdleRun]
            /\ Worker!IdleRun.at = "idle"
  BY <1>d DEF Worker!Rest, Worker!IdleRun
<1>e. ASSUME NEW w \in Workers, run[w].at # "idle", job[run[w].job].owner = w
      PROVE run[w].job \in Jobs /\ job[run[w].job].state = "active"
  BY <1>a, <1>e, WorkerAssumption DEF EntryInv
\* Executions that only move on, or stop.
<1>f. ASSUME NEW w \in Workers, NEW r, run' = [run EXCEPT ![w] = r],
             r.at \in Before => run[w].at \in Before /\ r.job = run[w].job,
             r.at \notin {"object", "finish"},
             UNCHANGED <<objects, remote>>,
             NEW j \in Jobs, Given(job'[j]) >= Given(job[j]),
             (attempt'[j] = "synced" /\ attempt[j] # "synced") => objects[j] > 0,
             (job'[j].state = "done" /\ job[j].state # "done") => objects[j] > 0
      PROVE CopyInv(j)'
  <2>1. One(r, j, Before) <= One(run[w], j, Before) /\ One(r, j, {"object"}) <= One(run[w], j, {"object"})
    BY <1>f DEF One
  <2>2. \A x, S : One(x, j, S) \in Nat
    BY DEF One
  <2>3. objects[j] \in Nat /\ remote[j] \in Nat /\ Given(job[j]) \in Nat /\ Given(job'[j]) \in Nat
    BY <1>a, <1>b
  <2>4. /\ remote'[j] + One(r, j, Before) + Given(job[j])
             <= remote[j] + One(run[w], j, Before) + Given(job'[j])
        /\ objects'[j] + One(r, j, {"object"}) + remote[j]
             <= objects[j] + One(run[w], j, {"object"}) + remote'[j]
        /\ objects[j] <= objects'[j]
    BY <1>f, <2>1, <2>2, <2>3
  <2> QED
    BY <1>f, <2>4, CopyKept
\* The queue takes a job back: what it was given stays counted.
<1>g. ASSUME NEW k \in Jobs, NEW q \in QueueEntry, job' = [job EXCEPT ![k] = q],
             Given(q) >= Given(job[k]), NEW j \in Jobs
      PROVE Given(job'[j]) >= Given(job[j])
  <2>1. job'[j] = IF j = k THEN q ELSE job[j]
    BY <1>a, <1>g
  <2> QED
    BY <1>b, <1>g, <2>1
<1>1. ASSUME NEW w \in Workers, NEW k \in Jobs, Worker!Take(w, k), NEW j \in Jobs PROVE CopyInv(j)'
  <2>1. job[k] \in QueueEntry /\ job[k].state = "waiting" /\ run[w].at = "idle"
        /\ UNCHANGED <<objects, remote>>
    BY <1>a, <1>1 DEF Worker!Take
  <2>2. ASSUME job' = [job EXCEPT ![k] = [job[k] EXCEPT !.state = "active", !.owner = w]],
               attempt' = [attempt EXCEPT ![k] = "processing"],
               run' = [run EXCEPT ![w] = [at |-> "upload", job |-> k]]
        PROVE CopyInv(j)'
    <3> DEFINE r == [at |-> "upload", job |-> k]
    <3>1. /\ One(r, j, Before) = IF j = k THEN 1 ELSE 0
          /\ One(r, j, {"object"}) = 0 /\ One(run[w], j, {"object"}) = 0
          /\ One(run[w], j, Before) = 0
      BY <2>1 DEF One, Before
    <3>2. job'[j] = IF j = k THEN [job[k] EXCEPT !.state = "active", !.owner = w] ELSE job[j]
      BY <1>a, <2>2
    <3>3. Given(job'[j]) = Given(job[j]) + IF j = k THEN 1 ELSE 0
      <4>1. CASE j = k
        BY <2>1, <3>2, <4>1, GivenGrows
      <4>2. CASE j # k
        BY <1>b, <3>2, <4>2
      <4> QED
        BY <4>1, <4>2
    <3>4. (job'[j].state = "done" => job[j].state = "done")
          /\ (attempt'[j] = "synced" => attempt[j] = "synced")
      BY <1>a, <2>1, <2>2, <3>2 DEF QueueEntry
    <3>5. objects[j] \in Nat /\ remote[j] \in Nat /\ Given(job[j]) \in Nat
      BY <1>a, <1>b
    <3>6. /\ remote'[j] + One(r, j, Before) + Given(job[j])
               <= remote[j] + One(run[w], j, Before) + Given(job'[j])
          /\ objects'[j] + One(r, j, {"object"}) + remote[j]
               <= objects[j] + One(run[w], j, {"object"}) + remote'[j]
          /\ objects[j] <= objects'[j]
      BY <2>1, <3>1, <3>3, <3>5
    <3> QED
      BY <2>2, <3>4, <3>6, CopyKept
  <2>3. ASSUME job' = [job EXCEPT ![k] = Worker!TriedAgain(job[k])], UNCHANGED run,
               attempt' \in {attempt, [attempt EXCEPT ![k] = "processing"]}
        PROVE CopyInv(j)'
    <3>1. Given(job'[j]) >= Given(job[j])
      BY <1>g, <2>1, <2>3, EntryType, GivenGrows
    <3>2. job'[j].state = "done" => job[j].state = "done"
      BY <1>a, <2>3 DEF Worker!TriedAgain, QueueEntry
    <3>3. run' = [run EXCEPT ![w] = run[w]]
      BY <1>a, <2>3
    <3>4. attempt'[j] = "synced" => attempt[j] = "synced"
      BY <1>a, <2>3
    <3> QED
      BY <1>f, <2>1, <3>1, <3>2, <3>3, <3>4 DEF Before
  <2> QED
    BY <1>1, <2>2, <2>3 DEF Worker!Take
<1>2. ASSUME NEW w \in Workers, NEW at \in {"open", "send"}, run[w].at \in Before, Worker!Goes(w, at),
             NEW j \in Jobs
      PROVE CopyInv(j)'
  <2>1. UNCHANGED <<job, attempt, objects, remote>> /\ Given(job[j]) \in Nat
    BY <1>b, <1>2 DEF Worker!Goes
  <2>2. \/ Worker!Goto(w, at) \/ Worker!Goto(w, "fail")
    BY <1>2 DEF Worker!Goes
  <2>3. ASSUME NEW to \in {at, "fail"}, Worker!Goto(w, to) PROVE CopyInv(j)'
    <3> DEFINE r == [run[w] EXCEPT !.at = to]
    <3>1. run' = [run EXCEPT ![w] = r] /\ r.job = run[w].job /\ r.at = to
      BY <1>c, <2>3
    <3>2. r.at \notin {"object", "finish"}
      BY <3>1
    <3> HIDE DEF r
    <3>3. Given(job'[j]) >= Given(job[j])
      BY <2>1
    <3> QED
      BY <1>f, <1>2, <2>1, <3>1, <3>2, <3>3
  <2> QED
    BY <2>2, <2>3
<1>3. ASSUME NEW w \in Workers, run[w].at \in Before, Worker!Sent(w), NEW j \in Jobs PROVE CopyInv(j)'
  <2>1. /\ UNCHANGED <<job, attempt, objects>> /\ Given(job[j]) \in Nat
        /\ run[w].job \in Jobs /\ objects[j] \in Nat /\ remote[j] \in Nat
    BY <1>a, <1>b, <1>3 DEF Worker!Sent, Before
  <2>2. PICK n \in {0, 1}, at \in {"object", "fail"} :
          /\ remote' = [remote EXCEPT ![run[w].job] = @ + n]
          /\ Worker!Goto(w, at) /\ (at = "object" => n = 1)
    <3>1. UNCHANGED remote => remote' = [remote EXCEPT ![run[w].job] = @ + 0]
      BY <1>a, <2>1
    <3> QED
      BY <1>3, <3>1 DEF Worker!Sent
  <2> DEFINE r == [run[w] EXCEPT !.at = at]
  <2>3. run' = [run EXCEPT ![w] = r] /\ r.job = run[w].job /\ r.at = at
    BY <1>c, <2>2
  <2>4. remote'[j] = remote[j] + IF j = run[w].job THEN n ELSE 0
    BY <1>a, <2>1, <2>2
  <2> HIDE DEF r
  <2>5. /\ One(r, j, Before) = 0 /\ One(run[w], j, Before) = IF j = run[w].job THEN 1 ELSE 0
        /\ One(run[w], j, {"object"}) = 0
        /\ One(r, j, {"object"}) <= IF j = run[w].job THEN n ELSE 0
        /\ One(r, j, {"object"}) \in Nat
    BY <1>3, <2>2, <2>3 DEF One, Before
  <2>6. /\ remote'[j] + One(r, j, Before) + Given(job[j])
             <= remote[j] + One(run[w], j, Before) + Given(job'[j])
        /\ objects'[j] + One(r, j, {"object"}) + remote[j]
             <= objects[j] + One(run[w], j, {"object"}) + remote'[j]
        /\ objects[j] <= objects'[j]
    BY <2>1, <2>2, <2>4, <2>5
  <2>7. r.at # "finish"
    BY <2>2, <2>3
  <2> QED
    BY <2>1, <2>3, <2>6, <2>7, CopyKept
<1>4. ASSUME NEW w \in Workers, Worker!StoreObject(w), NEW j \in Jobs PROVE CopyInv(j)'
  <2>1. /\ UNCHANGED <<job, attempt, remote>> /\ Given(job[j]) \in Nat /\ run[w].at = "object"
        /\ run[w].job \in Jobs /\ objects[j] \in Nat /\ remote[j] \in Nat
    BY <1>a, <1>b, <1>4 DEF Worker!StoreObject
  <2>2. PICK n \in {0, 1}, at \in {"finish", "fail"} :
          /\ objects' = [objects EXCEPT ![run[w].job] = @ + n]
          /\ Worker!Goto(w, at) /\ (at = "finish" => n = 1)
    BY <1>4 DEF Worker!StoreObject
  <2> DEFINE r == [run[w] EXCEPT !.at = at]
  <2>3. run' = [run EXCEPT ![w] = r] /\ r.job = run[w].job /\ r.at = at
    BY <1>c, <2>2
  <2>4. objects'[j] = objects[j] + IF j = run[w].job THEN n ELSE 0
    BY <1>a, <2>1, <2>2
  <2> HIDE DEF r
  <2>5. /\ One(r, j, Before) = 0 /\ One(run[w], j, Before) = 0
        /\ One(run[w], j, {"object"}) = IF j = run[w].job THEN 1 ELSE 0
        /\ One(r, j, {"object"}) = 0
    BY <2>1, <2>2, <2>3 DEF One, Before
  <2>6. /\ remote'[j] + One(r, j, Before) + Given(job[j])
             <= remote[j] + One(run[w], j, Before) + Given(job'[j])
        /\ objects'[j] + One(r, j, {"object"}) + remote[j]
             <= objects[j] + One(run[w], j, {"object"}) + remote'[j]
        /\ objects[j] <= objects'[j]
    BY <2>1, <2>2, <2>4, <2>5
  <2>7. r.job = j /\ r.at = "finish" => objects'[j] > 0
    BY <2>1, <2>2, <2>3, <2>4
  <2> QED
    BY <2>1, <2>3, <2>6, <2>7, CopyKept
<1>5. ASSUME NEW w \in Workers, Worker!Finish(w), NEW j \in Jobs PROVE CopyInv(j)'
  <2> DEFINE k == run[w].job
  <2>1. k \in Jobs /\ run[w].at = "finish" /\ UNCHANGED <<objects, remote>>
    BY <1>a, <1>5 DEF Worker!Finish
  <2>2. objects[k] > 0
    <3>1. w \in Doing(k, {"finish"})
      BY <2>1 DEF Doing
    <3> QED
      BY <2>1, <3>1 DEF CopyInv
  <2>3. PICK r : run' = [run EXCEPT ![w] = r] /\ r.at \in {"idle", "fail"}
    <3>1. CASE Worker!Rest(w)
      BY <1>d, <3>1
    <3>2. CASE Worker!Goto(w, "fail")
      <4>1. /\ run' = [run EXCEPT ![w] = [run[w] EXCEPT !.at = "fail"]]
            /\ [run[w] EXCEPT !.at = "fail"].at = "fail"
        BY <1>c, <3>2
      <4> QED
        BY <4>1
    <3> QED
      BY <1>5, <3>1, <3>2 DEF Worker!Finish
  <2>4. attempt'[j] = "synced" /\ attempt[j] # "synced" => j = k
    BY <1>a, <1>5, <2>1 DEF Worker!Finish
  <2>5. /\ Given(job'[j]) >= Given(job[j])
        /\ job'[j].state = "done" /\ job[j].state # "done" => j = k
    <3>1. CASE job[k].owner = w /\ job' = [job EXCEPT ![k] = [job[k] EXCEPT !.state = "done", !.owner = Nil]]
      <4>1. job[k].state = "active" /\ job[k] \in QueueEntry
        BY <1>a, <1>e, <2>1, <3>1
      <4>2. /\ [job[k] EXCEPT !.state = "done", !.owner = Nil] \in QueueEntry
            /\ Given([job[k] EXCEPT !.state = "done", !.owner = Nil]) = Given(job[k])
        BY <4>1, EntryType, GivenGrows
      <4>3. Given([job[k] EXCEPT !.state = "done", !.owner = Nil]) >= Given(job[k])
        BY <1>b, <2>1, <4>2
      <4>4. Given(job'[j]) >= Given(job[j])
        BY <1>g, <2>1, <3>1, <4>2, <4>3
      <4>5. j # k => job'[j] = job[j]
        BY <1>a, <2>1, <3>1
      <4> QED
        BY <4>4, <4>5
    <3>2. CASE UNCHANGED job
      BY <1>b, <3>2
    <3> QED
      BY <1>5, <3>1, <3>2 DEF Worker!Finish, Worker!Completed
  <2> QED
    BY <1>f, <2>1, <2>2, <2>3, <2>4, <2>5 DEF Before
<1>6. ASSUME NEW w \in Workers, Worker!Fail(w), NEW j \in Jobs PROVE CopyInv(j)'
  <2> DEFINE k == run[w].job
  <2>1. k \in Jobs /\ run[w].at # "idle" /\ UNCHANGED <<objects, remote>>
    BY <1>a, <1>6 DEF Worker!Fail
  <2>2. attempt'[j] = "synced" => attempt[j] = "synced"
    BY <1>a, <1>6, <2>1 DEF Worker!Fail
  <2>3. Given(job'[j]) >= Given(job[j]) /\ (job'[j].state = "done" => job[j].state = "done")
    <3>1. CASE job' = [job EXCEPT ![k] = Worker!TriedAgain(job[k])]
      <4>1. job[k] \in QueueEntry
        BY <1>a, <2>1
      <4>2. Given(job'[j]) >= Given(job[j])
        BY <1>g, <2>1, <3>1, <4>1, EntryType, GivenGrows
      <4>3. job'[j].state = "done" => job[j].state = "done"
        BY <1>a, <2>1, <3>1, <4>1 DEF Worker!TriedAgain, QueueEntry
      <4> QED
        BY <4>2, <4>3
    <3>2. CASE UNCHANGED job
      BY <1>b, <3>2
    <3> QED
      BY <1>6, <3>1, <3>2 DEF Worker!Fail, Worker!Failed
  <2>4. run' = [run EXCEPT ![w] = Worker!IdleRun] /\ Worker!IdleRun.at = "idle"
    BY <1>d, <1>6 DEF Worker!Fail
  <2> QED
    BY <1>f, <2>1, <2>2, <2>3, <2>4 DEF Before
<1>7. ASSUME NEW w \in Workers, Worker!Stall(w), NEW j \in Jobs PROVE CopyInv(j)'
  <2> DEFINE k == run[w].job
  <2>1. k \in Jobs /\ job[k] \in QueueEntry /\ UNCHANGED <<attempt, objects, remote>>
        /\ job' = [job EXCEPT ![k] = Worker!GivenAgain(job[k])]
    BY <1>a, <1>7 DEF Worker!Stall
  <2>2. Given(job'[j]) >= Given(job[j])
    BY <1>g, <2>1, EntryType, GivenGrows
  <2>3. job'[j].state = "done" => job[j].state = "done"
    BY <1>a, <2>1 DEF Worker!GivenAgain, QueueEntry
  <2>4. CASE Worker!Rest(w)
    BY <1>d, <1>f, <2>1, <2>2, <2>3, <2>4 DEF Before
  <2>5. CASE UNCHANGED run
    <3>1. Doing(j, {"object"})' = Doing(j, {"object"}) /\ Doing(j, Before)' = Doing(j, Before)
          /\ Doing(j, {"finish"})' = Doing(j, {"finish"})
      BY <2>5 DEF Doing
    <3>2. Cardinality(Doing(j, Before)) \in Nat /\ remote[j] \in Nat
      BY <1>a, FS_Subset, FS_CardinalityType, WorkerAssumption DEF Doing
    <3>3. remote'[j] + Cardinality(Doing(j, Before)') <= Given(job'[j])
      BY <1>b, <2>1, <2>2, <3>1, <3>2 DEF CopyInv
    <3> QED
      BY <2>1, <2>3, <3>1, <3>3 DEF CopyInv, Given
  <2> QED
    BY <1>7, <2>4, <2>5 DEF Worker!Stall
<1>8. ASSUME NEW w \in Workers, Worker!Execute(w), NEW j \in Jobs PROVE CopyInv(j)'
  <2>1. CASE Worker!AccessToken(w)
    BY <1>2, <2>1 DEF Worker!AccessToken, Before
  <2>2. CASE Worker!OpenSession(w)
    BY <1>2, <2>2 DEF Worker!OpenSession, Before
  <2>3. CASE Worker!SendToDrive(w)
    BY <1>3, <2>3 DEF Worker!SendToDrive, Before
  <2>4. CASE Worker!SendToTelegram(w)
    BY <1>3, <2>4 DEF Worker!SendToTelegram, Before
  <2> QED
    BY <1>1, <1>4, <1>5, <1>6, <1>8, <2>1, <2>2, <2>3, <2>4 DEF Worker!Execute
<1>9. ASSUME NEW a \in Accounts, Worker!Revoke(a), NEW j \in Jobs PROVE CopyInv(j)'
  BY <1>9 DEF Worker!Revoke, CopyInv, Doing, Given
<1> QED
  BY <1>7, <1>8, <1>9 DEF Worker!WorkerNext

LEMMA CopyStep ==
  ASSUME TypeInv, TypeInv', AnswerInv, \A j \in Jobs : CopyInv(j), [Next]_vars
  PROVE  \A j \in Jobs : CopyInv(j)'
<1>1. ASSUME Pipeline!PipelineNext, UNCHANGED workerOnly, NEW j \in Jobs PROVE CopyInv(j)'
  <2>1. job'[j] = job[j] \/ (job[j] = Pipeline!NoJob /\ job'[j] = Pipeline!NewJob)
    BY <1>1, PipelineJobs
  <2>2. Given(job'[j]) = Given(job[j]) /\ (job'[j].state = "done" => job[j].state = "done")
    BY <2>1 DEF Given, Pipeline!NoJob, Pipeline!NewJob
  <2>3. UNCHANGED <<attempt, objects, remote, run>>
    BY <1>1 DEF workerOnly
  <2>4. /\ Doing(j, {"object"})' = Doing(j, {"object"}) /\ Doing(j, Before)' = Doing(j, Before)
        /\ Doing(j, {"finish"})' = Doing(j, {"finish"})
    BY <2>3 DEF Doing
  <2>5. remote'[j] + Cardinality(Doing(j, Before)') <= Given(job'[j])
    BY <2>2, <2>3, <2>4 DEF CopyInv
  <2> QED
    BY <2>2, <2>3, <2>4, <2>5 DEF CopyInv, Given
<1>2. CASE Worker!WorkerNext
  BY <1>2, CopyWorker DEF AnswerInv
<1>3. CASE UNCHANGED vars
  BY <1>3 DEF CopyInv, Doing, Given, vars, shared, workerOnly
<1> QED
  BY <1>1, <1>2, <1>3 DEF Next

AllCopies == \A j \in Jobs : CopyInv(j)

LEMMA CopyHolds == Spec => [](TypeInv /\ AllCopies)
<1>1. TypeInv /\ AnswerInv /\ AllCopies /\ [Next]_vars => AllCopies'
  BY TypeStep, CopyStep DEF AllCopies
<1>2. Init => AllCopies
  BY CopyInit DEF AllCopies
<1> QED
  BY <1>1, <1>2, TypeInit, TypeStep, AnswerInit, AnswerStep, PTL DEF Spec

(* What is called synced or done is stored, object by object.               *)
THEOREM SyncedStored == Spec => []SyncedIsStored
<1>1. ASSUME TypeInv, AllCopies PROVE SyncedIsStored
  <2>1. ASSUME NEW j \in Jobs PROVE objects[j] <= remote[j]
    <3>1. Cardinality(Doing(j, {"object"})) \in Nat
      BY FS_Subset, FS_CardinalityType, WorkerAssumption DEF Doing
    <3>2. objects[j] \in Nat /\ remote[j] \in Nat
      BY <1>1 DEF TypeInv, TypeOK
    <3> QED
      BY <1>1, <3>1, <3>2 DEF AllCopies, CopyInv
  <2> QED
    BY <1>1, <2>1 DEF AllCopies, CopyInv, SyncedIsStored
<1> QED
  BY <1>1, CopyHolds, PTL

(* A job leaves at most one copy for each failure and each stall, and one.  *)
THEOREM CopiesCounted == Spec => []CopiesAccountedFor
<1>1. ASSUME TypeInv, AllCopies PROVE CopiesAccountedFor
  <2>1. ASSUME NEW j \in Jobs
        PROVE /\ remote[j] <= 1 + job[j].tries + job[j].stalls
              /\ job[j] = [state |-> "done", owner |-> Nil, tries |-> 0, stalls |-> 0] => remote[j] = 1
    <3>1. Cardinality(Doing(j, {"object"})) \in Nat /\ Cardinality(Doing(j, Before)) \in Nat
      BY FS_Subset, FS_CardinalityType, WorkerAssumption DEF Doing
    <3>2. objects[j] \in Nat /\ remote[j] \in Nat /\ job[j].tries \in Nat /\ job[j].stalls \in Nat
      BY <1>1 DEF TypeInv, TypeOK, QueueEntry
    <3>3. remote[j] <= Given(job[j]) /\ objects[j] <= remote[j]
          /\ (job[j].state = "done" => objects[j] > 0)
      <4>1. Given(job[j]) \in Nat
        BY <3>2 DEF Given
      <4> QED
        BY <1>1, <3>1, <3>2, <4>1 DEF AllCopies, CopyInv
    <3> QED
      BY <3>2, <3>3 DEF Given
  <2> QED
    BY <2>1 DEF CopiesAccountedFor
<1> QED
  BY <1>1, CopyHolds, PTL
=============================================================================
