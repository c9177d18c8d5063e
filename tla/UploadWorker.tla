---------------------------- MODULE UploadWorker ----------------------------
(***************************************************************************)
(* The worker (apps/worker/src/main.ts) that takes upload jobs from the    *)
(* BullMQ queue, with what it writes to the database and what the provider *)
(* adapters of packages/providers leave at the provider.  The queue gives a*)
(* job at least once: after a failure it is tried again up to MaxAttempts  *)
(* times, and a job whose worker lost its lock is given to another while   *)
(* the first may still be at it.  An adapter writes the idempotency key    *)
(* into the copy and never looks for a copy that has it.                   *)
(***************************************************************************)
EXTENDS Naturals, FiniteSets

CONSTANTS
  Items, Accounts,  \* a job uploads an item to an account
  Drives,           \* the accounts at Google Drive; the others are Telegram chats
  Workers,          \* executions at a time (WORKER_CONCURRENCY, processes)
  MaxAttempts,      \* upload.queue.ts: attempts
  MaxStalls,        \* how often BullMQ gives a stalled job again
  Revocable,        \* bound: accounts that may be revoked
  MaxFaults,        \* bound, shared with the pipeline
  Nil

VARIABLES
  job,      \* the queue
  staged,   \* the staged files on disk
  faults,
  revoked,  \* accounts that are revoked or gone from the database
  attempt,  \* provider_upload_attempts, by idempotency key: a job has one
  objects,  \* the number of storage_objects of a job
  remote,   \* the copies at the provider
  run       \* the executions

queueVars == <<job, staged, faults>>
workerOnly == <<revoked, attempt, objects, remote, run>>

Jobs == Items \X Accounts
IdleRun == [at |-> "idle", job |-> Nil]

WorkerInit ==
  /\ revoked = {}
  /\ attempt = [j \in Jobs |-> "none"]
  /\ objects = [j \in Jobs |-> 0]
  /\ remote = [j \in Jobs |-> 0]
  /\ run = [w \in Workers |-> IdleRun]

Fault == faults < MaxFaults /\ faults' = faults + 1
Goto(w, at) == run' = [run EXCEPT ![w].at = at]
Rest(w) == run' = [run EXCEPT ![w] = IdleRun]

-----------------------------------------------------------------------------
(* The queue's side of an execution: what it reports counts only while it   *)
(* still has the job.                                                       *)

Completed(w) ==
  LET j == run[w].job IN
  job' = IF job[j].owner = w
         THEN [job EXCEPT ![j] = [@ EXCEPT !.state = "done", !.owner = Nil]] ELSE job

(* Mutant: a job that failed is not tried again.                            *)
TriedOnce(q) == [q EXCEPT !.tries = @ + 1, !.owner = Nil, !.state = "failed"]

TriedAgain(q) ==
  [q EXCEPT !.tries = @ + 1, !.owner = Nil,
            !.state = IF q.tries + 1 < MaxAttempts THEN "waiting" ELSE "failed"]

Failed(w) ==
  LET j == run[w].job IN
  job' = IF job[j].owner = w THEN [job EXCEPT ![j] = TriedAgain(@)] ELSE job

\* The account is looked up and the attempt's record is set to "processing",
\* whatever it was.  An error of these two is not caught: a record that was
\* written all the same stays "processing".
Take(w, j) ==
  /\ run[w].at = "idle" /\ job[j].state = "waiting"
  /\ \/ /\ j[2] \notin revoked
        /\ job' = [job EXCEPT ![j] = [@ EXCEPT !.state = "active", !.owner = w]]
        /\ attempt' = [attempt EXCEPT ![j] = "processing"]
        /\ run' = [run EXCEPT ![w] = [at |-> "upload", job |-> j]]
        /\ UNCHANGED faults
     \/ /\ j[2] \in revoked
        /\ job' = [job EXCEPT ![j] = TriedAgain(@)]
        /\ UNCHANGED <<attempt, run, faults>>
     \/ /\ Fault
        /\ job' = [job EXCEPT ![j] = TriedAgain(@)]
        /\ attempt' \in {attempt, [attempt EXCEPT ![j] = "processing"]}
        /\ UNCHANGED run
  /\ UNCHANGED <<staged, revoked, objects, remote>>

-----------------------------------------------------------------------------
(* uploadObject of the two adapters.  The file is not touched before it is  *)
(* sent; an error may follow a copy that the provider has stored.           *)

Goes(w, at) ==
  /\ \/ Goto(w, at) /\ UNCHANGED faults
     \/ Fault /\ Goto(w, "fail")
  /\ UNCHANGED <<job, staged, revoked, attempt, objects, remote>>

\* The stored access token, or a new one, which this adapter alone ever knows.
AccessToken(w) == run[w].at = "upload" /\ run[w].job[2] \in Drives /\ Goes(w, "open")

\* Google opens a session for the upload; it is never resumed.
OpenSession(w) == run[w].at = "open" /\ Goes(w, "send")

(* Mutant: the staged file is removed once it is sent.                      *)
SentRemoves(w) ==
  LET j == run[w].job IN
  /\ j[1] \in staged
  /\ remote' = [remote EXCEPT ![j] = @ + 1]
  /\ staged' = staged \ {j[1]}
  /\ Goto(w, "object")
  /\ UNCHANGED <<job, faults, revoked, attempt, objects>>

(* Mutant: the adapter sends again what was not answered.                   *)
SentAgain(w) ==
  LET j == run[w].job IN
  /\ j[1] \in staged
  /\ \E n \in {1, 2} : remote' = [remote EXCEPT ![j] = @ + n]
  /\ Goto(w, "object")
  /\ UNCHANGED <<job, staged, faults, revoked, attempt, objects>>

\* Whatever is not the answer to a stored file is an error to the worker.
Sent(w) ==
  LET j == run[w].job IN
  /\ \/ /\ j[1] \in staged
        /\ remote' = [remote EXCEPT ![j] = @ + 1]
        /\ Goto(w, "object") /\ UNCHANGED faults
     \/ /\ j[1] \in staged /\ Fault
        /\ \E n \in {0, 1} : remote' = [remote EXCEPT ![j] = @ + n]
        /\ Goto(w, "fail")
     \/ j[1] \notin staged /\ Goto(w, "fail") /\ UNCHANGED <<remote, faults>>
  /\ UNCHANGED <<job, staged, revoked, attempt, objects>>

SendToDrive(w) == run[w].at = "send" /\ Sent(w)

\* One request has the file and its destination; routing has refused a file that
\* is too large for it.
SendToTelegram(w) ==
  run[w].at = "upload" /\ run[w].job[2] \notin Drives /\ Sent(w)

-----------------------------------------------------------------------------
(* Mutant: the attempt is synced before its object is stored.               *)
StoreObjectUnchecked(w) ==
  LET j == run[w].job IN
  /\ run[w].at = "object"
  /\ \/ objects' = [objects EXCEPT ![j] = @ + 1] /\ UNCHANGED faults
     \/ Fault /\ UNCHANGED objects
  /\ Goto(w, "finish")
  /\ UNCHANGED <<job, staged, revoked, attempt, remote>>

StoreObject(w) ==
  LET j == run[w].job IN
  /\ run[w].at = "object"
  /\ \/ /\ objects' = [objects EXCEPT ![j] = @ + 1]
        /\ Goto(w, "finish") /\ UNCHANGED faults
     \/ /\ Fault /\ Goto(w, "fail")
        /\ \E n \in {0, 1} : objects' = [objects EXCEPT ![j] = @ + n]
  /\ UNCHANGED <<job, staged, revoked, attempt, remote>>

Finish(w) ==
  LET j == run[w].job IN
  /\ run[w].at = "finish"
  /\ \/ /\ attempt' = [attempt EXCEPT ![j] = "synced"]
        /\ Completed(w) /\ Rest(w) /\ UNCHANGED faults
     \/ /\ Fault /\ Goto(w, "fail")
        /\ \E s \in {attempt[j], "synced"} : attempt' = [attempt EXCEPT ![j] = s]
        /\ UNCHANGED job
  /\ UNCHANGED <<staged, revoked, objects, remote>>

\* The catch: the record says "failed", or cannot be written; the error goes
\* on to the queue either way.
Fail(w) ==
  LET j == run[w].job IN
  /\ run[w].at = "fail"
  /\ \/ attempt' = [attempt EXCEPT ![j] = "failed"] /\ UNCHANGED faults
     \/ UNCHANGED attempt /\ Fault
  /\ Failed(w) /\ Rest(w)
  /\ UNCHANGED <<staged, revoked, objects, remote>>

-----------------------------------------------------------------------------
\* The lock of a job runs out: BullMQ gives the job again, or up.
GivenAgain(q) ==
  [q EXCEPT !.owner = Nil, !.stalls = @ + 1,
            !.state = IF q.stalls < MaxStalls THEN "waiting" ELSE "failed"]

\* The execution goes on without it, or its process has ended.
Stall(w) ==
  LET j == run[w].job IN
  /\ run[w].at # "idle" /\ job[j].owner = w /\ Fault
  /\ job' = [job EXCEPT ![j] = GivenAgain(@)]
  /\ UNCHANGED run \/ Rest(w)
  /\ UNCHANGED <<staged, revoked, attempt, objects, remote>>

\* External: an account is revoked or removed in the database.
Revoke(a) ==
  /\ a \in Revocable \ revoked /\ revoked' = revoked \cup {a}
  /\ UNCHANGED <<job, staged, faults, attempt, objects, remote, run>>

Execute(w) ==
  \/ \E j \in Jobs : Take(w, j)
  \/ AccessToken(w) \/ OpenSession(w) \/ SendToDrive(w) \/ SendToTelegram(w)
  \/ StoreObject(w) \/ Finish(w) \/ Fail(w)

WorkerNext ==
  \/ \E w \in Workers : Execute(w) \/ Stall(w)
  \/ \E a \in Accounts : Revoke(a)
=============================================================================
