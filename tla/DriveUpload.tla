---------------------------- MODULE DriveUpload ----------------------------
(***************************************************************************)
(* The resumable upload of one snapshot into one Google Drive account:      *)
(* upload_file (drive.rs), the sessions of Google Drive it talks to, and    *)
(* the session URL it keeps in Windows Credential Manager between runs.     *)
(* Several upload_file calls of the same snapshot may run at a time; all of *)
(* them share that one credential.                                          *)
(*                                                                         *)
(* A file is Size granules long.  Of the bytes a request carries only their *)
(* place is kept: the offset they are labelled with and the position in the *)
(* snapshot they were read from.  A session whose granules all sit at the   *)
(* place they came from is intact.  The file of a completed session is      *)
(* named by the session, and carries the SHA-256 of the snapshot in its     *)
(* appProperties whatever its bytes are.                                    *)
(***************************************************************************)
EXTENDS Naturals, FiniteSets

CONSTANTS
    Clients,      \* upload_file calls that can run at once (bound)
    Sessions,     \* upload sessions Google Drive can still open (bound)
    Size,         \* granules in the file; an empty file is left out
    Chunk,        \* granules in DRIVE_CHUNK_SIZE
    Attempts,     \* DRIVE_UPLOAD_ATTEMPTS
    FailureSets,  \* sets of what may go wrong besides lost requests and replies
    Nil

AllFailures ==
    {"crash",     \* the process ends
     "keyring",   \* Credential Manager refuses to read, write or delete
     "search",    \* files.list does not show a stored file yet
     "partial",   \* Google Drive keeps only the first part of a chunk
     "delay"}     \* a request arrives after its sender gave up on it

ASSUME SizeAssumption == {Size, Chunk, Attempts} \subseteq Nat \ {0}
ASSUME FailuresAssumption == FailureSets \subseteq SUBSET AllFailures
ASSUME NilAssumption == Nil \notin Sessions

VARIABLES
    sessions,   \* the upload sessions of Google Drive
    key,        \* the session URL in Credential Manager, or Nil
    up,         \* the upload_file calls
    puts,       \* the chunk requests on their way
    acked,      \* the files upload_file returned Ok with
    failures    \* what may go wrong in this behaviour

vars == <<sessions, key, up, puts, acked, failures>>

Session == [used: BOOLEAN, open: BOOLEAN, received: 0 .. Size, intact: BOOLEAN]

PCs == {"idle", "find", "inspect", "start", "save", "send", "wait", "verify"}

Upload ==
    [pc: PCs, url: Sessions \cup {Nil}, offset: 0 .. Size, pos: 0 .. Size,
     attempt: 0 .. Attempts - 1]

IdleUpload ==
    [pc |-> "idle", url |-> Nil, offset |-> 0, pos |-> 0, attempt |-> 0]

Put == [client: Clients, url: Sessions, offset: 0 .. Size, pos: 0 .. Size]

Init ==
    /\ sessions = [s \in Sessions |-> [used |-> FALSE, open |-> FALSE,
                                       received |-> 0, intact |-> TRUE]]
    /\ key = Nil
    /\ up = [u \in Clients |-> IdleUpload]
    /\ puts = {}
    /\ acked = {}
    /\ failures \in FailureSets

Active(s) == sessions[s].open /\ sessions[s].received < Size
Complete(s) == sessions[s].used /\ sessions[s].received = Size
Expired(s) == ~ sessions[s].open

Stored == {s \in Sessions : Complete(s)}

Lesser(m, n) == IF m < n THEN m ELSE n
Greater(m, n) == IF m < n THEN n ELSE m

(* Where the chunk that starts at an offset ends (end + 1 in the code).     *)
End(offset) == Lesser(offset + Chunk, Size)

-----------------------------------------------------------------------------
(* upload_file, one step per request, credential access or return.          *)

To(u, pc) == up' = [up EXCEPT ![u].pc = pc]

(* What the caller sees is in acked; the call itself leaves nothing else.   *)
Leave(u) == up' = [up EXCEPT ![u] = IdleUpload]

(* Requests of a call that nobody waits for any longer.                     *)
Abandoned(u) ==
    puts' = IF "delay" \in failures THEN puts ELSE {r \in puts : r.client # u}

Begin(u) ==
    /\ up[u].pc = "idle"
    /\ To(u, "find")
    /\ UNCHANGED <<sessions, key, puts, acked>>

(* Mutant: an upload that fails forgets its session.                        *)
GiveUpForgets(u) ==
    /\ up[u].pc # "idle"
    /\ Leave(u)
    /\ Abandoned(u)
    /\ key' = Nil
    /\ UNCHANGED <<sessions, acked>>

(* Any request, file or credential access may fail with an error that is    *)
(* not retried; the credential and the session stay.                        *)
GiveUp(u) ==
    /\ up[u].pc # "idle"
    /\ Leave(u)
    /\ Abandoned(u)
    /\ UNCHANGED <<sessions, key, acked>>

Finished(s) == [IdleUpload EXCEPT !.pc = "verify", !.url = s]

Verify(u, s) == up' = [up EXCEPT ![u] = Finished(s)]

FindExistingFile(u) ==
    /\ up[u].pc = "find"
    /\ \/ \E s \in Stored : Verify(u, s)
       \/ (Stored = {} \/ "search" \in failures) /\ To(u, "inspect")
    /\ UNCHANGED <<sessions, key, puts, acked>>

ForgetKey == key' = Nil \/ ("keyring" \in failures /\ key' = key)

NoSession(u) ==
    /\ up[u].pc = "inspect"
    /\ key = Nil \/ "keyring" \in failures
    /\ To(u, "start")
    /\ UNCHANGED <<sessions, key, puts, acked>>

ResumeSession(u) ==
    /\ up[u].pc = "inspect"
    /\ key # Nil
    /\ Active(key)
    /\ up' = [up EXCEPT ![u] = [@ EXCEPT !.pc = "send", !.url = key,
                                         !.offset = sessions[key].received,
                                         !.pos = sessions[key].received]]
    /\ UNCHANGED <<sessions, key, puts, acked>>

(* The session has completed: the reply names the file, or, unreadable,     *)
(* sends the call back to the search, which then returns without verifying. *)
SessionComplete(u) ==
    /\ up[u].pc = "inspect"
    /\ key # Nil
    /\ sessions[key].open /\ Complete(key)
    /\ \/ Verify(u, key) /\ UNCHANGED <<key, acked>>
       \/ \E s \in Stored :
             ForgetKey /\ acked' = acked \cup {s} /\ Leave(u)
    /\ UNCHANGED <<sessions, puts>>

SessionExpired(u) ==
    /\ up[u].pc = "inspect"
    /\ key # Nil
    /\ Expired(key)
    /\ ForgetKey
    /\ To(u, "start")
    /\ UNCHANGED <<sessions, puts, acked>>

StartUploadSession(u) ==
    /\ up[u].pc = "start"
    /\ \E s \in Sessions :
          /\ ~ sessions[s].used
          /\ sessions' = [sessions EXCEPT ![s].used = TRUE, ![s].open = TRUE]
          /\ up' = [up EXCEPT ![u].pc = "save", ![u].url = s]
    /\ UNCHANGED <<key, puts, acked>>

(* Mutant: the session URL is not kept for a later run.                     *)
SaveKeyForgotten(u) ==
    /\ up[u].pc = "save"
    /\ To(u, "send")
    /\ UNCHANGED <<sessions, key, puts, acked>>

SaveKey(u) ==
    /\ up[u].pc = "save"
    /\ key' = up[u].url
    /\ To(u, "send")
    /\ UNCHANGED <<sessions, puts, acked>>

SendChunk(u) ==
    /\ up[u].pc = "send"
    /\ up[u].offset < Size
    /\ up[u].pos + (End(up[u].offset) - up[u].offset) <= Size  \* read_exact
    /\ puts' = puts \cup {[client |-> u, url |-> up[u].url,
                           offset |-> up[u].offset, pos |-> up[u].pos]}
    /\ To(u, "wait")
    /\ UNCHANGED <<sessions, key, acked>>

(* Mutant: a retry starts the count again.                                  *)
RetryChunkUncounted(u) ==
    /\ up[u].pc = "wait"
    /\ up[u].attempt + 1 < Attempts
    /\ Abandoned(u)
    /\ To(u, "send")
    /\ UNCHANGED <<sessions, key, acked>>

(* A broken connection, a timeout, 401, 429 or 5xx.                         *)
RetryChunk(u) ==
    /\ up[u].pc = "wait"
    /\ up[u].attempt + 1 < Attempts
    /\ Abandoned(u)
    /\ up' = [up EXCEPT ![u].pc = "send", ![u].attempt = @ + 1]
    /\ UNCHANGED <<sessions, key, acked>>

(* All chunks are sent: the session must have completed.                    *)
CloseSession(u) ==
    /\ up[u].pc = "send"
    /\ up[u].offset = Size
    /\ sessions[up[u].url].open /\ Complete(up[u].url)
    /\ Verify(u, up[u].url)
    /\ UNCHANGED <<sessions, key, puts, acked>>

(* verify_remote_file compares the size and the recorded SHA-256, which are *)
(* those of the session's creation.                                         *)
VerifyRemoteFile(u) ==
    /\ up[u].pc = "verify"
    /\ ForgetKey
    /\ acked' = acked \cup {up[u].url}
    /\ Leave(u)
    /\ UNCHANGED <<sessions, puts>>

-----------------------------------------------------------------------------
(* Google Drive.  The reply reaches the call that still waits for that very *)
(* request; the same request of two attempts is one element of puts, so it  *)
(* may be answered once for both.                                           *)

Awaits(r) ==
    LET u == up[r.client] IN
    u.pc = "wait" /\ u.url = r.url /\ u.offset = r.offset /\ u.pos = r.pos

Answer(r, u) ==
    /\ puts' = puts \ {r}
    /\ \/ up' = up  \* the reply is lost, or nobody waits for it
       \/ Awaits(r) /\ up' = [up EXCEPT ![r.client] = u]

(* Mutant: the next chunk starts where Google Drive says, unsought.         *)
NextChunkAsTold(u, received) ==
    [u EXCEPT !.pc = "send", !.attempt = 0,
              !.offset = received,
              !.pos = @ + (End(u.offset) - u.offset)]

(* 308: the file has been read to the end of the chunk; the offset is taken *)
(* from the reply when that is further.                                     *)
NextChunk(u, received) ==
    [u EXCEPT !.pc = "send", !.attempt = 0,
              !.offset = Greater(received, End(u.offset)),
              !.pos = @ + (End(u.offset) - u.offset)]

(* How far a session is after a chunk that begins within what it has.       *)
ReceivedAfter(r) ==
    LET have == sessions[r.url].received IN
    IF "partial" \in failures
    THEN have .. Greater(have, End(r.offset))
    ELSE {Greater(have, End(r.offset))}

StoreChunk(r) ==
    LET s == r.url IN
    /\ Active(s)
    /\ r.offset <= sessions[s].received
    /\ \E n \in ReceivedAfter(r) :
          /\ sessions' = [sessions EXCEPT
                             ![s].received = n,
                             ![s].intact = @ /\ (n = sessions[s].received
                                                   \/ r.pos = r.offset)]
          /\ Answer(r, IF n = Size THEN Finished(s)
                       ELSE NextChunk(up[r.client], n))
    /\ UNCHANGED <<key, acked>>

(* A chunk that begins further on is refused or answered with 308.          *)
RefuseGap(r) ==
    /\ Active(r.url)
    /\ r.offset > sessions[r.url].received
    /\ \/ Answer(r, NextChunk(up[r.client], sessions[r.url].received))
       \/ Answer(r, IdleUpload)
    /\ UNCHANGED <<sessions, key, acked>>

AnswerDone(r) ==
    /\ sessions[r.url].open /\ Complete(r.url)
    /\ Answer(r, Finished(r.url))
    /\ UNCHANGED <<sessions, key, acked>>

AnswerExpired(r) ==
    /\ Expired(r.url)
    /\ Answer(r, IdleUpload)
    /\ UNCHANGED <<sessions, key, acked>>

(* Sessions last a week: one that has completed does not expire within the  *)
(* few requests of a call that is running.                                  *)
SessionExpires(s) ==
    /\ sessions[s].open
    /\ Complete(s) => \A u \in Clients : up[u].pc = "idle"
    /\ sessions' = [sessions EXCEPT ![s].open = FALSE]
    /\ UNCHANGED <<key, up, puts, acked>>

Crash ==
    /\ "crash" \in failures
    /\ up' = [u \in Clients |-> IdleUpload]
    /\ puts' = IF "delay" \in failures THEN puts ELSE {}
    /\ UNCHANGED <<sessions, key, acked>>

-----------------------------------------------------------------------------
UploadStep(u) ==
    \/ GiveUp(u) \/ FindExistingFile(u)
    \/ NoSession(u) \/ ResumeSession(u) \/ SessionComplete(u) \/ SessionExpired(u)
    \/ StartUploadSession(u) \/ SaveKey(u)
    \/ SendChunk(u) \/ RetryChunk(u) \/ CloseSession(u) \/ VerifyRemoteFile(u)

Drive ==
    \/ \E r \in puts : StoreChunk(r) \/ RefuseGap(r) \/ AnswerDone(r) \/ AnswerExpired(r)
    \/ \E s \in Sessions : SessionExpires(s)

Next ==
    /\ \/ \E u \in Clients : Begin(u) \/ UploadStep(u)
       \/ Drive
       \/ Crash
    /\ UNCHANGED failures

Spec == Init /\ [][Next]_vars

(* A call that was started goes on: each request is answered or times out   *)
(* (the client's timeout is 180 s), and the retry sleeps are finite.        *)
Fairness == \A u \in Clients : WF_vars(UploadStep(u) /\ UNCHANGED failures)

FairSpec == Spec /\ Fairness

-----------------------------------------------------------------------------
TypeOK ==
    /\ sessions \in [Sessions -> Session]
    /\ key \in Sessions \cup {Nil}
    /\ up \in [Clients -> Upload]
    /\ puts \subseteq Put
    /\ acked \subseteq Sessions
    /\ failures \subseteq AllFailures

(* A file that upload_file returned Ok with holds the bytes of the snapshot,*)
(* each at its place (docs/architecture/system-overview.md: every upload is *)
(* verified against its expected size and SHA-256); verify_remote_file sees *)
(* only the size and the SHA-256 the upload itself had recorded.  A part of *)
(* a chunk that is stored late, under a run that has resumed further on, is *)
(* the one case left out.                                                   *)
VerifiedContent ==
    ~ {"partial", "delay"} \subseteq failures
        => \A s \in acked : Complete(s) /\ sessions[s].intact

(* The session URL is kept, and search shows every stored file.             *)
Reconciles == {"keyring", "search"} \cap failures = {}

(* Reconciliation: runs that fail, crash or lose replies and start over     *)
(* never leave the snapshot twice in the account.                           *)
OneCopy == Reconciles => Cardinality(Stored) <= 1

(* An unfinished session that still accepts chunks is not dropped: the next *)
(* run resumes it (README.md: resumable Drive uploads with retries).        *)
KeepsSession ==
    [][\A s \in Sessions : Reconciles /\ key = s /\ Active(s) => key' = s]_vars

(* Every upload_file call returns: no reply makes the chunk loop spin.      *)
UploadReturns == \A u \in Clients : up[u].pc # "idle" ~> up[u].pc = "idle"
=============================================================================
