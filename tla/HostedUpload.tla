---------------------------- MODULE HostedUpload ----------------------------
(***************************************************************************)
(* The web page, the API and the worker together: they share the queue and *)
(* the directory of staged files, and nothing else orders their steps.     *)
(***************************************************************************)
EXTENDS Naturals, FiniteSets

CONSTANTS Items, Accounts, Drives, Sessions, Configs, Routes, Workers,
          Revocable, MaxAttempts, MaxStalls, MaxFaults, Nil

VARIABLES config, page, session, expired, post, rows, staged, job, faults,
          revoked, attempt, objects, remote, run

ASSUME PipelineAssumption ==
  /\ Configs \subseteq {"full", "noRedis", "noDatabase"}
  /\ Routes \in [Items -> SUBSET SUBSET Accounts]
  /\ Nil \notin Sessions \cup Items
ASSUME WorkerAssumption ==
  /\ Revocable \subseteq Accounts /\ Drives \subseteq Accounts
  /\ MaxAttempts \in Nat \ {0} /\ MaxStalls \in Nat /\ MaxFaults \in Nat
  /\ IsFiniteSet(Workers) /\ Nil \notin Workers /\ Nil \notin Items \X Accounts

Pipeline == INSTANCE UploadPipeline
Worker == INSTANCE UploadWorker

pipelineOnly == <<config, page, session, expired, post, rows>>
shared == <<staged, job, faults>>
workerOnly == <<revoked, attempt, objects, remote, run>>
vars == <<pipelineOnly, shared, workerOnly>>

Init == Pipeline!PipelineInit /\ Worker!WorkerInit

Handle(i) == Pipeline!Handle(i) /\ UNCHANGED workerOnly
Execute(w) == Worker!Execute(w) /\ UNCHANGED pipelineOnly

Next ==
  \/ Pipeline!PipelineNext /\ UNCHANGED workerOnly
  \/ Worker!WorkerNext /\ UNCHANGED pipelineOnly

Spec == Init /\ [][Next]_vars

\* The continuations of Node.js go on, and a free worker takes a job.  Users
\* pick files, pages post them and sessions expire when they do.
Fairness ==
  /\ \A i \in Items : WF_vars(Handle(i))
  /\ \A w \in Workers : WF_vars(Execute(w))

FairSpec == Spec /\ Fairness

-----------------------------------------------------------------------------
Jobs == Items \X Accounts
PostState == {"none", "cut", "refused"} \cup Pipeline!Working \cup Pipeline!Accepting
QueueEntry ==
  [state : {"none", "waiting", "active", "done", "failed"}, owner : Workers \cup {Nil},
   tries : Nat, stalls : Nat]

TypeOK ==
  /\ config \in Configs
  /\ page \in [at : {"idle", "create", "post", "wait", "staged", "preview"},
               session : Sessions \cup {Nil}, todo : SUBSET Items,
               current : Items \cup {Nil}, done : SUBSET Items]
  /\ session \in [Sessions -> [memory : BOOLEAN, row : BOOLEAN]]
  /\ expired \subseteq Sessions
  /\ post \in [Items -> [at : PostState, session : Sessions \cup {Nil},
                         chosen : SUBSET Accounts, left : SUBSET Accounts]]
  /\ rows \in [Items -> SUBSET Pipeline!AllRows]
  /\ staged \subseteq Items /\ revoked \subseteq Accounts
  /\ job \in [Jobs -> QueueEntry]
  /\ attempt \in [Jobs -> {"none", "processing", "synced", "failed"}]
  /\ objects \in [Jobs -> Nat] /\ remote \in [Jobs -> Nat]
  /\ run \in [Workers -> [at : {"idle", "upload", "open", "send", "object", "finish", "fail"},
                          job : Jobs \cup {Nil}]]
  /\ faults \in Nat

(* "queued" is answered only when everything is in place: the rows of the   *)
(* item, its resource and the decision, a job for every chosen account and  *)
(* for no other, and the staged file they read.                             *)
QueuedIsComplete ==
  \A i \in Items : post[i].at = "queued" =>
    /\ rows[i] = Pipeline!AllRows /\ post[i].chosen # {} /\ i \in staged
    /\ \A a \in Accounts : job[<<i, a>>].state # "none" <=> a \in post[i].chosen

(* A job loses its file only to a post that was answered with an error, or  *)
(* that is: the controller removes the file whatever was enqueued before    *)
(* (uploads.controller.ts:40), and nothing else removes one.                *)
JobsKeepFile ==
  \A j \in Jobs : job[j].state # "none" /\ j[1] \notin staged => post[j[1]].at = "refused"

(* What the database calls synced, and what the queue calls done, is at the *)
(* provider, and every storage object stands for a copy of its own.         *)
SyncedIsStored ==
  \A j \in Jobs :
    /\ attempt[j] = "synced" \/ job[j].state = "done" => objects[j] > 0
    /\ objects[j] <= remote[j]

(* Every copy but one is the price of a failure: a job leaves at most one   *)
(* copy per execution that failed or stalled, and one that was neither left *)
(* exactly one.  The keys given to the adapters prevent none of them.       *)
CopiesAccountedFor ==
  \A j \in Jobs :
    /\ remote[j] <= 1 + job[j].tries + job[j].stalls
    /\ job[j] = [state |-> "done", owner |-> Nil, tries |-> 0, stalls |-> 0] => remote[j] = 1

(* The page says that files are staged only when the API has accepted and   *)
(* keeps every one of them.                                                 *)
StagedMessageIsTrue ==
  page.at = "staged" =>
    page.todo = {} /\ \A i \in page.done : post[i].at \in Pipeline!Accepting /\ i \in staged

(* A file answered as queued reaches every chosen account, however the      *)
(* failures fall, as long as they are fewer than the attempts of a job, its *)
(* account stays and BullMQ does not give it up.                            *)
QueuedArrives ==
  \A i \in Items :
    post[i].at = "queued"
      ~> \A a \in post[i].chosen : \/ remote[<<i, a>>] > 0 \/ a \in revoked
                                  \/ job[<<i, a>>].stalls > MaxStalls
=============================================================================
