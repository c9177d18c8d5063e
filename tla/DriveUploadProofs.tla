-------------------------- MODULE DriveUploadProofs --------------------------
(***************************************************************************)
(* While one upload_file call of a snapshot runs at a time, every file it   *)
(* acknowledges holds the bytes of the snapshot, the snapshot is stored at  *)
(* most once, and no session that still accepts chunks is dropped: for      *)
(* every size, number of attempts and sequence of failures.                 *)
(***************************************************************************)
EXTENDS DriveUpload, FiniteSetTheorems, TLAPS

LEMMA EndBound ==
  ASSUME NEW n \in 0 .. Size
  PROVE  /\ End(n) \in 0 .. Size
         /\ n <= End(n)
         /\ n < Size => n < End(n)
         /\ \A m \in 0 .. n : End(m) <= End(n)
  BY SizeAssumption DEF End, Lesser

LEMMA GreaterType ==
  ASSUME NEW m \in 0 .. Size, NEW n \in 0 .. Size
  PROVE  /\ Greater(m, n) \in 0 .. Size
         /\ m <= Greater(m, n) /\ n <= Greater(m, n)
         /\ m <= n => Greater(m, n) = n
  BY DEF Greater

LEMMA IdleType ==
  IdleUpload \in Upload /\ \A s \in Sessions : Finished(s) \in Upload
  <1>1. 0 \in 0 .. Size /\ 0 \in 0 .. Attempts - 1
    BY SizeAssumption
  <1>2. IdleUpload \in Upload
    BY <1>1 DEF IdleUpload, Upload, PCs
  <1>3. ASSUME NEW s \in Sessions PROVE Finished(s) \in Upload
    BY <1>1 DEF IdleUpload, Finished, Upload, PCs
  <1> QED
    BY <1>2, <1>3

(* The type invariant, with the calls that hold a session and the room the  *)
(* read_exact of an outstanding chunk left in the file.                     *)
HoldsSession(u) ==
  up[u].pc \in {"save", "send", "wait", "verify"} => up[u].url \in Sessions

WithinFile(u) ==
  up[u].pc = "wait" =>
    up[u].offset < Size /\ up[u].pos + (End(up[u].offset) - up[u].offset) <= Size

TypeInv ==
  /\ TypeOK
  /\ \A u \in Clients : HoldsSession(u) /\ WithinFile(u)
  /\ \A r \in puts : r.offset < Size

LEMMA TypeInit == Init => TypeInv
  <1> SUFFICES ASSUME Init PROVE TypeInv
    OBVIOUS
  <1>1. \A s \in Sessions : sessions[s] \in Session
    BY SizeAssumption DEF Init, Session
  <1>2. \A u \in Clients : up[u] = IdleUpload
    BY DEF Init
  <1> QED
    BY <1>1, <1>2, IdleType, FailuresAssumption
    DEF Init, TypeInv, TypeOK, IdleUpload, HoldsSession, WithinFile

(* What one call's new value must satisfy to keep the types of all calls.   *)
Fits(x) ==
  /\ x \in Upload
  /\ x.pc \in {"save", "send", "wait", "verify"} => x.url \in Sessions
  /\ x.pc = "wait" =>
       x.offset < Size /\ x.pos + (End(x.offset) - x.offset) <= Size

CallsOK ==
  /\ up \in [Clients -> Upload]
  /\ \A u \in Clients : HoldsSession(u) /\ WithinFile(u)

LEMMA SetUp ==
  ASSUME TypeInv, NEW u \in Clients, NEW x, Fits(x),
         up' = [up EXCEPT ![u] = x]
  PROVE  CallsOK'
  BY DEF TypeInv, TypeOK, CallsOK, Fits, HoldsSession, WithinFile

LEMMA IdleFits == Fits(IdleUpload) /\ \A s \in Sessions : Fits(Finished(s))
  BY IdleType DEF Fits, IdleUpload, Finished

LEMMA SetPc ==
  ASSUME TypeInv, NEW u \in Clients, NEW pc \in PCs \ {"wait"}, To(u, pc),
         pc \in {"save", "send", "verify"} => up[u].url \in Sessions
  PROVE  CallsOK'
  BY DEF TypeInv, TypeOK, To, Upload, CallsOK, HoldsSession, WithinFile

LEMMA AbandonType ==
  ASSUME NEW u \in Clients, Abandoned(u)
  PROVE  puts' \subseteq puts
  BY DEF Abandoned

LEMMA AnswerType ==
  ASSUME TypeInv, NEW r \in puts, NEW x, Answer(r, x), Awaits(r) => Fits(x)
  PROVE  puts' \subseteq puts /\ CallsOK'
  <1>1. r.client \in Clients
    BY DEF TypeInv, TypeOK, Put
  <1>2. CASE Awaits(r) /\ up' = [up EXCEPT ![r.client] = x]
    BY <1>1, <1>2, SetUp DEF Answer
  <1>3. CASE up' = up
    BY <1>3 DEF Answer, TypeInv, TypeOK, CallsOK, HoldsSession, WithinFile
  <1> QED
    BY <1>2, <1>3 DEF Answer

(* The chunk a call waits for has been answered: the next one fits.         *)
LEMMA NextChunkFits ==
  ASSUME TypeInv, NEW r \in puts, Awaits(r), NEW n \in 0 .. Size
  PROVE  Fits(NextChunk(up[r.client], n))
  <1> DEFINE u == up[r.client]
  <1>1. u \in Upload /\ u.url \in Sessions /\ u.pc = "wait"
    BY DEF TypeInv, TypeOK, Put, Awaits, HoldsSession
  <1>2. /\ u.offset \in 0 .. Size /\ u.pos \in 0 .. Size
        /\ u.pos + (End(u.offset) - u.offset) <= Size
    BY <1>1 DEF TypeInv, TypeOK, Put, Awaits, WithinFile, Upload
  <1>3. End(u.offset) \in 0 .. Size /\ u.offset <= End(u.offset)
    BY <1>2, EndBound
  <1>4. Greater(n, End(u.offset)) \in 0 .. Size
    BY <1>3, GreaterType
  <1>5. u.pos + (End(u.offset) - u.offset) \in 0 .. Size
    BY <1>2, <1>3, SizeAssumption
  <1>6. 0 \in 0 .. Attempts - 1
    BY SizeAssumption
  <1>7. NextChunk(u, n) \in Upload
    BY <1>1, <1>4, <1>5, <1>6 DEF NextChunk, Upload, PCs
  <1> QED
    BY <1>1, <1>7 DEF NextChunk, Fits, Upload

LEMMA ReceivedType ==
  ASSUME TypeInv, NEW r \in puts, NEW n \in ReceivedAfter(r)
  PROVE  n \in 0 .. Size /\ sessions[r.url].received <= n
  <1>1. /\ r.url \in Sessions /\ r.offset \in 0 .. Size
        /\ sessions[r.url].received \in 0 .. Size
    BY DEF TypeInv, TypeOK, Put, Session
  <1>2. End(r.offset) \in 0 .. Size
    BY <1>1, EndBound
  <1>3. /\ Greater(sessions[r.url].received, End(r.offset)) \in 0 .. Size
        /\ sessions[r.url].received <= Greater(sessions[r.url].received, End(r.offset))
    BY <1>1, <1>2, GreaterType
  <1> QED
    BY <1>1, <1>3, SizeAssumption DEF ReceivedAfter

LEMMA TypeStep == TypeInv /\ [Next]_vars => TypeInv'
  <1> SUFFICES ASSUME TypeInv, [Next]_vars PROVE TypeInv'
    OBVIOUS
  <1> USE DEF PCs
  <1>0. /\ sessions' \in [Sessions -> Session]
        /\ key' \in Sessions \cup {Nil} /\ acked' \subseteq Sessions
        /\ puts' \subseteq Put /\ \A r \in puts' : r.offset < Size
        /\ CallsOK'
        => TypeInv'
    <2>1. failures' = failures
      BY DEF Next, vars
    <2> QED
      BY <2>1 DEF TypeInv, TypeOK, CallsOK, HoldsSession, WithinFile
  <1>a. /\ sessions \in [Sessions -> Session]
        /\ key \in Sessions \cup {Nil} /\ acked \subseteq Sessions
        /\ puts \subseteq Put /\ \A r \in puts : r.offset < Size
        /\ up \in [Clients -> Upload] /\ CallsOK
    BY DEF TypeInv, TypeOK, CallsOK
  <1>b. Stored \subseteq Sessions
    BY DEF Stored
  <1>1. ASSUME NEW u \in Clients, Begin(u) PROVE TypeInv'
    BY <1>0, <1>1, <1>a, SetPc DEF Begin
  <1>2. ASSUME NEW u \in Clients, GiveUp(u) PROVE TypeInv'
    BY <1>0, <1>2, <1>a, SetUp, IdleFits, AbandonType DEF GiveUp, Leave
  <1>3. ASSUME NEW u \in Clients, FindExistingFile(u) PROVE TypeInv'
    BY <1>0, <1>3, <1>a, <1>b, SetUp, SetPc, IdleFits DEF FindExistingFile, Verify
  <1>4. ASSUME NEW u \in Clients, NoSession(u) PROVE TypeInv'
    BY <1>0, <1>4, <1>a, SetPc DEF NoSession
  <1>5. ASSUME NEW u \in Clients, ResumeSession(u) PROVE TypeInv'
    <2> DEFINE x == [up[u] EXCEPT !.pc = "send", !.url = key,
                                  !.offset = sessions[key].received,
                                  !.pos = sessions[key].received]
    <2>1. key \in Sessions /\ sessions[key].received \in 0 .. Size
      BY <1>5, <1>a DEF ResumeSession, Session
    <2>2. Fits(x)
      BY <2>1, <1>a DEF Fits, Upload
    <2> QED
      BY <2>2, <1>0, <1>5, <1>a, SetUp DEF ResumeSession
  <1>6. ASSUME NEW u \in Clients, SessionComplete(u) PROVE TypeInv'
    <2>1. CASE Verify(u, key) /\ UNCHANGED <<key, acked>>
      BY <2>1, <1>0, <1>6, <1>a, SetUp, IdleFits DEF SessionComplete, Verify
    <2>2. CASE \E s \in Stored : ForgetKey /\ acked' = acked \cup {s} /\ Leave(u)
      BY <2>2, <1>0, <1>6, <1>a, <1>b, SetUp, IdleFits
      DEF SessionComplete, Leave, ForgetKey
    <2> QED
      BY <2>1, <2>2, <1>6 DEF SessionComplete
  <1>7. ASSUME NEW u \in Clients, SessionExpired(u) PROVE TypeInv'
    BY <1>0, <1>7, <1>a, SetPc DEF SessionExpired, ForgetKey
  <1>8. ASSUME NEW u \in Clients, StartUploadSession(u) PROVE TypeInv'
    <2>1. PICK s \in Sessions :
            /\ sessions' = [sessions EXCEPT ![s].used = TRUE, ![s].open = TRUE]
            /\ up' = [up EXCEPT ![u].pc = "save", ![u].url = s]
      BY <1>8 DEF StartUploadSession
    <2>2. sessions' \in [Sessions -> Session]
      BY <2>1, <1>a DEF Session
    <2>3. Fits([up[u] EXCEPT !.pc = "save", !.url = s])
      BY <1>a DEF Fits, Upload
    <2>4. CallsOK'
      BY <2>1, <2>3, <1>a, SetUp
    <2> QED
      BY <2>2, <2>4, <1>0, <1>8, <1>a DEF StartUploadSession
  <1>9. ASSUME NEW u \in Clients, SaveKey(u) PROVE TypeInv'
    BY <1>0, <1>9, <1>a, SetPc DEF SaveKey, CallsOK, HoldsSession
  <1>10. ASSUME NEW u \in Clients, SendChunk(u) PROVE TypeInv'
    <2> DEFINE r == [client |-> u, url |-> up[u].url,
                     offset |-> up[u].offset, pos |-> up[u].pos]
    <2>1. up[u] \in Upload /\ up[u].url \in Sessions
      BY <1>10, <1>a DEF SendChunk, CallsOK, HoldsSession
    <2>2. r \in Put /\ r.offset < Size
      BY <1>10, <2>1 DEF SendChunk, Put, Upload
    <2>3. Fits([up[u] EXCEPT !.pc = "wait"])
      BY <1>10, <2>1 DEF SendChunk, Fits, Upload
    <2>4. CallsOK'
      BY <1>10, <2>3, <1>a, SetUp DEF SendChunk, To
    <2> QED
      BY <2>2, <2>4, <1>0, <1>10, <1>a DEF SendChunk
  <1>11. ASSUME NEW u \in Clients, RetryChunk(u) PROVE TypeInv'
    <2>1. up[u] \in Upload /\ up[u].url \in Sessions
      BY <1>11, <1>a DEF RetryChunk, CallsOK, HoldsSession
    <2>2. up[u].attempt + 1 \in 0 .. Attempts - 1
      BY <1>11, <2>1, SizeAssumption DEF RetryChunk, Upload
    <2>3. Fits([up[u] EXCEPT !.pc = "send", !.attempt = @ + 1])
      BY <2>1, <2>2 DEF Fits, Upload
    <2>4. CallsOK'
      BY <1>11, <2>3, <1>a, SetUp DEF RetryChunk
    <2> QED
      BY <2>4, <1>0, <1>11, <1>a, AbandonType DEF RetryChunk
  <1>12. ASSUME NEW u \in Clients, CloseSession(u) PROVE TypeInv'
    <2>1. Fits(Finished(up[u].url))
      BY <1>12, <1>a, IdleFits DEF CloseSession, CallsOK, HoldsSession
    <2> QED
      BY <2>1, <1>0, <1>12, <1>a, SetUp DEF CloseSession, Verify
  <1>13. ASSUME NEW u \in Clients, VerifyRemoteFile(u) PROVE TypeInv'
    <2>1. up[u].url \in Sessions
      BY <1>13, <1>a DEF VerifyRemoteFile, CallsOK, HoldsSession
    <2> QED
      BY <2>1, <1>0, <1>13, <1>a, SetUp, IdleFits DEF VerifyRemoteFile, Leave, ForgetKey
  <1>14. ASSUME NEW r \in puts, StoreChunk(r) PROVE TypeInv'
    <2>1. PICK n \in ReceivedAfter(r) :
            /\ sessions' = [sessions EXCEPT
                              ![r.url].received = n,
                              ![r.url].intact = @ /\ (n = sessions[r.url].received
                                                        \/ r.pos = r.offset)]
            /\ Answer(r, IF n = Size THEN Finished(r.url)
                         ELSE NextChunk(up[r.client], n))
      BY <1>14 DEF StoreChunk
    <2>2. n \in 0 .. Size /\ r.url \in Sessions
      BY <1>a, ReceivedType DEF Put
    <2>3. sessions' \in [Sessions -> Session]
      BY <2>1, <2>2, <1>a DEF Session
    <2>4. Awaits(r) => Fits(IF n = Size THEN Finished(r.url)
                            ELSE NextChunk(up[r.client], n))
      BY <2>2, IdleFits, NextChunkFits
    <2>5. puts' \subseteq puts /\ CallsOK'
      BY <2>1, <2>4, AnswerType
    <2> QED
      BY <2>3, <2>5, <1>0, <1>14, <1>a DEF StoreChunk
  <1>15. ASSUME NEW r \in puts, RefuseGap(r) PROVE TypeInv'
    <2>1. sessions[r.url].received \in 0 .. Size
      BY <1>a DEF Put, Session
    <2>2. puts' \subseteq puts /\ CallsOK'
      BY <1>15, <2>1, AnswerType, IdleFits, NextChunkFits DEF RefuseGap
    <2> QED
      BY <2>2, <1>0, <1>15, <1>a DEF RefuseGap
  <1>16. ASSUME NEW r \in puts, AnswerDone(r) PROVE TypeInv'
    <2>1. r.url \in Sessions
      BY <1>a DEF Put
    <2>2. puts' \subseteq puts /\ CallsOK'
      BY <1>16, <2>1, AnswerType, IdleFits DEF AnswerDone
    <2> QED
      BY <2>2, <1>0, <1>16, <1>a DEF AnswerDone
  <1>17. ASSUME NEW r \in puts, AnswerExpired(r) PROVE TypeInv'
    <2>1. puts' \subseteq puts /\ CallsOK'
      BY <1>17, AnswerType, IdleFits DEF AnswerExpired
    <2> QED
      BY <2>1, <1>0, <1>17, <1>a DEF AnswerExpired
  <1>18. ASSUME NEW s \in Sessions, SessionExpires(s) PROVE TypeInv'
    <2>1. sessions' \in [Sessions -> Session]
      BY <1>18, <1>a DEF SessionExpires, Session
    <2>2. CallsOK'
      BY <1>18, <1>a DEF SessionExpires, CallsOK, HoldsSession, WithinFile
    <2> QED
      BY <2>1, <2>2, <1>0, <1>18, <1>a DEF SessionExpires
  <1>19. CASE Crash
    <2>1. CallsOK'
      BY <1>19, IdleFits DEF Crash, CallsOK, Fits, HoldsSession, WithinFile
    <2> QED
      BY <2>1, <1>0, <1>19, <1>a DEF Crash
  <1>20. CASE UNCHANGED vars
    BY <1>20, <1>0, <1>a DEF vars, CallsOK, HoldsSession, WithinFile
  <1> QED
    BY <1>1, <1>2, <1>3, <1>4, <1>5, <1>6, <1>7, <1>8, <1>9, <1>10, <1>11,
       <1>12, <1>13, <1>14, <1>15, <1>16, <1>17, <1>18, <1>19, <1>20
    DEF Next, UploadStep, Drive

LEMMA TypeInvariant == Spec => []TypeInv
  BY TypeInit, TypeStep, PTL DEF Spec

(* The bounds of the upload loop hold for every file size, chunk size and   *)
(* number of attempts: no offset, no read and no attempt leaves its range.  *)
THEOREM TypeCorrect == Spec => []TypeOK
  BY TypeInvariant, PTL DEF TypeInv

-----------------------------------------------------------------------------
(* One call at a time: the failures do not change, and, unless requests may *)
(* be late, the only request on its way is the one the call waits for.      *)

OneCall == \A u, v \in Clients : u = v

Whole == "partial" \notin failures
Prompt == "delay" \notin failures

PromptInv == Prompt => \A r \in puts : Awaits(r)

LEMMA PromptStep ==
  ASSUME OneCall, TypeInv, PromptInv, [Next]_vars
  PROVE  PromptInv' /\ failures' = failures
  <1>1. failures' = failures
    BY DEF Next, vars
  <1> SUFFICES ASSUME Prompt PROVE PromptInv'
    BY <1>1 DEF PromptInv, Prompt
  <1>a. \A r \in puts : Awaits(r) /\ r \in Put
    BY DEF PromptInv, TypeInv, TypeOK
  <1>b. ASSUME NEW u \in Clients, up[u].pc # "wait" PROVE puts = {}
    BY <1>a, <1>b, OneCall DEF Awaits, OneCall, Put
  <1>c. puts' = {} => PromptInv'
    BY DEF PromptInv
  <1>d. ASSUME NEW u \in Clients, Abandoned(u) PROVE puts' = {}
    BY <1>a, <1>d, OneCall DEF Abandoned, Prompt, OneCall, Put
  <1>e. ASSUME NEW r \in puts, NEW x, Answer(r, x) PROVE puts' = {}
    <2>1. ASSUME NEW q \in puts PROVE q = r
      <3>1. /\ q \in Put /\ r \in Put /\ q.client = r.client
            /\ q.url = r.url /\ q.offset = r.offset /\ q.pos = r.pos
        BY <1>a, OneCall DEF Awaits, OneCall, Put
      <3> QED
        BY <3>1 DEF Put
    <2> QED
      BY <2>1, <1>e DEF Answer
  <1>f. ASSUME UNCHANGED <<up, puts>> PROVE PromptInv'
    BY <1>a, <1>f DEF PromptInv, Awaits
  <1>2. ASSUME NEW u \in Clients, UploadStep(u) PROVE PromptInv'
    <2>1. CASE SendChunk(u)
      <3> DEFINE r == [client |-> u, url |-> up[u].url,
                       offset |-> up[u].offset, pos |-> up[u].pos]
      <3>1. puts = {} /\ puts' = {r} /\ up' = [up EXCEPT ![u].pc = "wait"]
        BY <2>1, <1>b DEF SendChunk, To
      <3>2. /\ up'[u].pc = "wait" /\ up'[u].url = up[u].url
            /\ up'[u].offset = up[u].offset /\ up'[u].pos = up[u].pos
        BY <3>1 DEF TypeInv, TypeOK, Upload
      <3>3. Awaits(r)'
        BY <3>2 DEF Awaits
      <3> QED
        BY <3>1, <3>3 DEF PromptInv
    <2>2. CASE GiveUp(u) \/ RetryChunk(u)
      BY <2>2, <1>c, <1>d DEF GiveUp, RetryChunk
    <2>3. CASE ~ (SendChunk(u) \/ GiveUp(u) \/ RetryChunk(u))
      <3>1. puts' = puts /\ up[u].pc # "wait"
        BY <2>3, <1>2
        DEF UploadStep, FindExistingFile, NoSession, ResumeSession, SessionComplete,
            SessionExpired, StartUploadSession, SaveKey, CloseSession, VerifyRemoteFile
      <3> QED
        BY <3>1, <1>b, <1>c
    <2> QED
      BY <2>1, <2>2, <2>3
  <1>3. ASSUME NEW u \in Clients, Begin(u) PROVE PromptInv'
    BY <1>3, <1>b, <1>c DEF Begin
  <1>4. CASE Drive
    <2>1. ASSUME NEW r \in puts, StoreChunk(r) PROVE PromptInv'
      BY <2>1, <1>c, <1>e DEF StoreChunk
    <2>2. ASSUME NEW r \in puts, RefuseGap(r) \/ AnswerDone(r) \/ AnswerExpired(r)
          PROVE  PromptInv'
      BY <2>2, <1>c, <1>e DEF RefuseGap, AnswerDone, AnswerExpired
    <2>3. ASSUME NEW s \in Sessions, SessionExpires(s) PROVE PromptInv'
      BY <2>3, <1>f DEF SessionExpires
    <2> QED
      BY <2>1, <2>2, <2>3, <1>4 DEF Drive
  <1>5. CASE Crash
    BY <1>5, <1>c DEF Crash, Prompt
  <1>6. CASE UNCHANGED vars
    BY <1>6, <1>f DEF vars
  <1> QED
    BY <1>1, <1>2, <1>3, <1>4, <1>5, <1>6 DEF Next

-----------------------------------------------------------------------------
(* What keeps the bytes at their place: the read position of a call never   *)
(* leaves the offset it labels its chunks with, because the session is      *)
(* never further than the end of the chunk the call is at.                  *)

Ordered == Whole \/ Prompt

IntactSession(s) ==
  /\ sessions[s].intact
  /\ sessions[s].open => sessions[s].used
  /\ ~ sessions[s].used => sessions[s].received = 0

AlignedPut(r) ==
  /\ r.pos = r.offset
  /\ sessions[r.url].used
  /\ Whole => r.offset <= sessions[r.url].received

Aligned(u) ==
  /\ sessions[up[u].url].used
  /\ up[u].pos = up[u].offset
  /\ Whole => up[u].offset <= sessions[up[u].url].received
  /\ sessions[up[u].url].received <= End(up[u].offset)
  /\ \A r \in puts : r.url = up[u].url => r.offset <= up[u].offset

AlignedCall(u) ==
  /\ up[u].pc \in {"save", "send", "wait"} => Aligned(u)
  /\ up[u].pc \in {"idle", "find", "inspect", "start"} =>
       up[u].offset = 0 /\ up[u].pos = 0
  /\ up[u].pc = "verify" => Complete(up[u].url)

ContentInv ==
  /\ \A s \in Sessions : IntactSession(s)
  /\ \A r \in puts : AlignedPut(r)
  /\ \A u \in Clients : AlignedCall(u)
  /\ acked \subseteq Stored

LEMMA ContentInit == Init => ContentInv
  <1> SUFFICES ASSUME Init PROVE ContentInv
    OBVIOUS
  <1>1. \A s \in Sessions : IntactSession(s)
    BY DEF Init, IntactSession
  <1>2. \A u \in Clients : AlignedCall(u)
    BY DEF Init, AlignedCall, IdleUpload
  <1> QED
    BY <1>1, <1>2 DEF Init, ContentInv

(* A step that leaves the sessions alone, adds no request and moves one call*)
(* to an aligned place.                                                     *)
LEMMA SameSessions ==
  ASSUME TypeInv, ContentInv, UNCHANGED <<sessions, failures>>,
         puts' \subseteq puts, acked' \subseteq Stored
  PROVE  /\ \A s \in Sessions : IntactSession(s)'
         /\ \A r \in puts' : AlignedPut(r)'
         /\ acked' \subseteq Stored'
         /\ \A u \in Clients : up'[u] = up[u] => AlignedCall(u)'
         /\ (\A u \in Clients : AlignedCall(u)') => ContentInv'
  <1>1. \A s \in Sessions : IntactSession(s)'
    BY DEF ContentInv, IntactSession
  <1>2. \A r \in puts' : AlignedPut(r)'
    BY DEF ContentInv, AlignedPut, Whole
  <1>3. Stored' = Stored
    BY DEF Stored, Complete
  <1>4. ASSUME NEW u \in Clients, up'[u] = up[u] PROVE AlignedCall(u)'
    BY <1>4 DEF ContentInv, AlignedCall, Aligned, Complete, Whole
  <1> QED
    BY <1>1, <1>2, <1>3, <1>4 DEF ContentInv

LEMMA IdleAligned ==
  ASSUME NEW u \in Clients, up'[u] = IdleUpload
  PROVE  AlignedCall(u)'
  BY DEF AlignedCall, IdleUpload

LEMMA FinishedAligned ==
  ASSUME NEW u \in Clients, NEW s, up'[u] = Finished(s), Complete(s)'
  PROVE  AlignedCall(u)'
  BY DEF AlignedCall, Finished, IdleUpload

(* The next place of a call after an answer that leaves the sessions alone. *)
LEMMA AnswerAligned ==
  ASSUME TypeInv, ContentInv, UNCHANGED <<sessions, acked, failures>>,
         NEW r \in puts, NEW x, Answer(r, x),
         x = IdleUpload \/ (x = Finished(r.url) /\ Complete(r.url))
  PROVE  ContentInv'
  <1>1. puts' \subseteq puts /\ acked' \subseteq Stored /\ r.client \in Clients
    BY DEF Answer, ContentInv, TypeInv, TypeOK, Put
  <1>2. ASSUME NEW u \in Clients PROVE AlignedCall(u)'
    <2>1. CASE up' # up /\ u = r.client
      <3>1. up'[u] = x
        BY <2>1 DEF Answer, TypeInv, TypeOK
      <3>2. Complete(r.url) => Complete(r.url)'
        BY DEF Complete
      <3> QED
        BY <3>1, <3>2, IdleAligned, FinishedAligned
    <2>2. CASE ~ (up' # up /\ u = r.client)
      BY <2>2, <1>1, SameSessions DEF Answer, TypeInv, TypeOK
    <2> QED
      BY <2>1, <2>2
  <1> QED
    BY <1>1, <1>2, SameSessions

(* A call step that leaves the sessions alone.                              *)
LEMMA MoveAligned ==
  ASSUME TypeInv, ContentInv, UNCHANGED <<sessions, failures>>,
         puts' \subseteq puts, acked' \subseteq Stored, NEW u \in Clients, NEW x,
         up' = [up EXCEPT ![u] = x], AlignedCall(u)'
  PROVE  ContentInv'
  <1>1. ASSUME NEW v \in Clients, v # u PROVE AlignedCall(v)'
    BY <1>1, SameSessions DEF TypeInv, TypeOK
  <1> QED
    BY <1>1, SameSessions

(* Entering a pc where nothing is held: offset and position are still 0.    *)
LEMMA SearchAligned ==
  ASSUME TypeInv, ContentInv, UNCHANGED <<sessions, failures>>,
         puts' \subseteq puts, acked' \subseteq Stored, NEW u \in Clients,
         NEW pc \in {"find", "inspect", "start"}, To(u, pc),
         up[u].pc \in {"idle", "find", "inspect", "start"}
  PROVE  ContentInv'
  <1>1. /\ up'[u].pc = pc /\ up'[u].offset = up[u].offset /\ up'[u].pos = up[u].pos
    BY DEF To, TypeInv, TypeOK, Upload
  <1>2. AlignedCall(u)'
    BY <1>1 DEF AlignedCall, ContentInv
  <1> QED
    BY <1>2, MoveAligned DEF To

(* The stored chunk: the session stays within the end of that chunk, and,   *)
(* when chunks are stored whole, reaches it.                                *)
LEMMA StoreAligned ==
  ASSUME TypeInv, ContentInv, NEW r \in puts, StoreChunk(r), failures' = failures,
         Ordered
  PROVE  ContentInv'
  <1>p. PICK n \in ReceivedAfter(r) :
          /\ sessions' = [sessions EXCEPT
                            ![r.url].received = n,
                            ![r.url].intact = @ /\ (n = sessions[r.url].received
                                                      \/ r.pos = r.offset)]
          /\ Answer(r, IF n = Size THEN Finished(r.url)
                       ELSE NextChunk(up[r.client], n))
    BY DEF StoreChunk
  <1> DEFINE s == r.url
             x == IF n = Size THEN Finished(s) ELSE NextChunk(up[r.client], n)
  <1>1. /\ s \in Sessions /\ r.client \in Clients /\ r.offset \in 0 .. Size
        /\ r.pos = r.offset /\ sessions[s].used /\ Active(s)
        /\ sessions[s].received \in 0 .. Size
        /\ sessions[s] \in Session
    BY DEF StoreChunk, ContentInv, AlignedPut, TypeInv, TypeOK, Put, Session
  <1>2. /\ sessions' = [sessions EXCEPT
                          ![s].received = n,
                          ![s].intact = @ /\ (n = sessions[s].received
                                                \/ r.pos = r.offset)]
        /\ Answer(r, x)
        /\ acked' = acked
    BY <1>p DEF StoreChunk
  <1>3. /\ End(r.offset) \in 0 .. Size
        /\ n \in 0 .. Size /\ sessions[s].received <= n
        /\ n <= Greater(sessions[s].received, End(r.offset))
        /\ n = sessions[s].received \/ n <= End(r.offset)
        /\ Whole => End(r.offset) <= n
    <2>1. End(r.offset) \in 0 .. Size
      BY <1>1, EndBound
    <2>2. n \in 0 .. Size /\ sessions[s].received <= n
      BY ReceivedType
    <2>3. n <= Greater(sessions[s].received, End(r.offset))
      BY <1>1, <2>1, <2>2 DEF ReceivedAfter, Greater
    <2>4. Whole => n = Greater(sessions[s].received, End(r.offset))
      BY DEF ReceivedAfter, Whole
    <2> QED
      BY <1>1, <2>1, <2>2, <2>3, <2>4 DEF Greater
  <1>4. /\ \A t \in Sessions : t # s => sessions'[t] = sessions[t]
        /\ sessions'[s].received = n
        /\ sessions'[s].used = sessions[s].used
        /\ sessions'[s].open = sessions[s].open
        /\ sessions'[s].intact = (sessions[s].intact /\ (n = sessions[s].received
                                                \/ r.pos = r.offset))
    BY <1>1, <1>2 DEF TypeInv, TypeOK, Session
  <1>5. \A t \in Sessions : /\ sessions'[t].used = sessions[t].used
                            /\ sessions[t].received <= sessions'[t].received
    BY <1>3, <1>4 DEF TypeInv, TypeOK, Session
  <1>6. \A t \in Sessions : IntactSession(t)'
    BY <1>1, <1>4 DEF ContentInv, IntactSession
  <1>7. puts' \subseteq puts
    BY <1>2 DEF Answer
  <1>8. \A q \in puts' : AlignedPut(q)'
    <2> SUFFICES ASSUME NEW q \in puts' PROVE AlignedPut(q)'
      OBVIOUS
    <2>1. q \in puts /\ q.url \in Sessions /\ q.offset \in 0 .. Size /\ AlignedPut(q)
      BY <1>7 DEF TypeInv, TypeOK, Put, ContentInv
    <2>2. /\ sessions[q.url].received \in 0 .. Size
          /\ sessions'[q.url].received \in 0 .. Size
      BY <2>1, <1>3, <1>4 DEF TypeInv, TypeOK, Session
    <2> QED
      BY <2>1, <2>2, <1>5 DEF AlignedPut, Whole
  <1>9. ASSUME NEW t \in Sessions, Complete(t) PROVE Complete(t)' /\ t # s
    BY <1>1, <1>4, <1>9 DEF Complete, Active
  <1>10. acked' \subseteq Stored'
    BY <1>2, <1>9 DEF ContentInv, Stored
  <1>11. ASSUME NEW u \in Clients, up'[u] = up[u] PROVE AlignedCall(u)'
    <2>1. up[u] \in Upload /\ AlignedCall(u)
      BY DEF TypeInv, TypeOK, ContentInv
    <2>2. ASSUME up[u].pc \in {"save", "send", "wait"} PROVE Aligned(u)'
      <3>1. up[u].url \in Sessions /\ Aligned(u) /\ up[u].offset \in 0 .. Size
        BY <2>1, <2>2 DEF TypeInv, HoldsSession, AlignedCall, Upload
      <3>2. sessions[up[u].url].received \in 0 .. Size
            /\ sessions'[up[u].url].received \in 0 .. Size
        BY <3>1, <1>3, <1>4 DEF TypeInv, TypeOK, Session
      <3>3. sessions'[up[u].url].received <= End(up[u].offset)
        <4>1. CASE up[u].url = s
          <5>1. r.offset <= up[u].offset
            BY <3>1, <4>1 DEF Aligned
          <5>2. r.offset \in 0 .. up[u].offset
            BY <5>1, <3>1, <1>1
          <5>3. End(r.offset) <= End(up[u].offset)
            BY <5>2, <3>1, EndBound
          <5>4. /\ sessions[s].received \in 0 .. Size
                /\ sessions[s].received <= End(up[u].offset)
                /\ End(up[u].offset) \in 0 .. Size
            BY <3>1, <4>1, <1>1, EndBound DEF Aligned
          <5>5. n <= End(up[u].offset)
            BY <5>3, <5>4, <1>3
          <5> QED
            BY <5>5, <4>1, <1>4
        <4>2. CASE up[u].url # s
          BY <4>2, <3>1, <1>4 DEF Aligned
        <4> QED
          BY <4>1, <4>2
      <3>4. Whole => up[u].offset <= sessions'[up[u].url].received
        BY <3>1, <3>2, <1>5 DEF Aligned
      <3> QED
        BY <3>1, <3>3, <3>4, <1>5, <1>7, <1>11 DEF Aligned, Whole
    <2>3. ASSUME up[u].pc = "verify" PROVE Complete(up[u].url)'
      <3>1. up[u].url \in Sessions /\ Complete(up[u].url)
        BY <2>1, <2>3 DEF TypeInv, HoldsSession, AlignedCall
      <3> QED
        BY <3>1, <1>9, <1>11 DEF Complete
    <2> QED
      BY <2>1, <2>2, <2>3, <1>11 DEF AlignedCall
  <1>12. ASSUME NEW u \in Clients, u = r.client, Awaits(r), up' # up
         PROVE  AlignedCall(u)'
    <2>1. up'[u] = x
      BY <1>2, <1>12 DEF Answer, TypeInv, TypeOK
    <2>2. CASE n = Size
      <3>1. Complete(s)'
        BY <2>2, <1>1, <1>4 DEF Complete
      <3> QED
        BY <2>1, <2>2, <3>1, FinishedAligned
    <2>3. CASE n # Size
      <3>1. /\ up[u] \in Upload /\ up[u].url = s /\ up[u].offset = r.offset
            /\ up[u].pos = r.offset /\ Aligned(u) /\ up[u].offset \in 0 .. Size
        BY <1>1, <1>12 DEF Awaits, TypeInv, TypeOK, ContentInv, AlignedCall, Upload
      <3>2. LET e == End(r.offset) IN
            e \in 0 .. Size /\ n <= e /\ r.offset <= e /\ (Whole => n = e)
        BY <3>1, <1>1, <1>3, EndBound DEF Aligned
      <3>3. Greater(n, End(r.offset)) = End(r.offset)
        BY <3>2, <1>3 DEF Greater
      <3>4. r.pos + (End(r.offset) - r.offset) = End(r.offset)
        BY <3>2, <1>1
      <3>5. /\ up'[u].pc = "send" /\ up'[u].url = s
            /\ up'[u].offset = End(r.offset) /\ up'[u].pos = End(r.offset)
        BY <2>1, <2>3, <3>1, <3>3, <3>4, <1>1, <1>12 DEF NextChunk, Upload
      <3>6. n <= End(End(r.offset))
        <4>1. End(r.offset) <= End(End(r.offset)) /\ End(End(r.offset)) \in 0 .. Size
          BY <3>2, EndBound
        <4> QED
          BY <4>1, <3>2, <1>3
      <3>7. ASSUME NEW q \in puts', q.url = s PROVE q.offset <= End(r.offset)
        <4>1. q.offset \in 0 .. Size /\ q.offset <= r.offset
          BY <1>7, <3>1, <3>7 DEF TypeInv, TypeOK, Put, Aligned
        <4> QED
          BY <4>1, <3>2, <1>1, <1>3
      <3>8. Whole' => End(r.offset) <= n
        BY <1>3 DEF Whole
      <3> QED
        BY <1>1, <1>3, <1>4, <3>5, <3>6, <3>7, <3>8 DEF AlignedCall, Aligned
    <2> QED
      BY <2>2, <2>3
  <1>13. \A u \in Clients : AlignedCall(u)'
    BY <1>2, <1>11, <1>12, <1>1 DEF Answer, TypeInv, TypeOK
  <1> QED
    BY <1>6, <1>8, <1>10, <1>13 DEF ContentInv

LEMMA ContentStep ==
  ASSUME OneCall, TypeInv, PromptInv, Ordered, ContentInv, [Next]_vars
  PROVE  ContentInv'
  <1>f. failures' = failures
    BY DEF Next, vars
  <1>a. acked \subseteq Stored /\ failures' = failures /\ Whole' = Whole
    BY <1>f DEF ContentInv, Whole
  <1>1. ASSUME NEW u \in Clients, Begin(u) PROVE ContentInv'
    BY <1>1, <1>a, SearchAligned DEF Begin
  <1>2. ASSUME NEW u \in Clients, GiveUp(u) PROVE ContentInv'
    <2>1. puts' \subseteq puts
      BY <1>2, AbandonType DEF GiveUp
    <2>2. AlignedCall(u)'
      BY <1>2, IdleAligned DEF GiveUp, Leave, TypeInv, TypeOK
    <2> QED
      BY <2>1, <2>2, <1>2, <1>a, MoveAligned DEF GiveUp, Leave
  <1>3. ASSUME NEW u \in Clients, FindExistingFile(u) PROVE ContentInv'
    <2>1. ASSUME NEW s \in Stored, Verify(u, s) PROVE ContentInv'
      <3>1. up'[u] = Finished(s)
        BY <2>1 DEF Verify, TypeInv, TypeOK
      <3>2. Complete(s)'
        BY <2>1, <1>3 DEF FindExistingFile, Stored, Complete
      <3> QED
        BY <3>1, <3>2, <2>1, <1>3, <1>a, FinishedAligned, MoveAligned
        DEF FindExistingFile, Verify
    <2>2. CASE To(u, "inspect")
      BY <2>2, <1>3, <1>a, SearchAligned DEF FindExistingFile
    <2> QED
      BY <2>1, <2>2, <1>3 DEF FindExistingFile
  <1>4. ASSUME NEW u \in Clients, NoSession(u) PROVE ContentInv'
    BY <1>4, <1>a, SearchAligned DEF NoSession
  <1>5. ASSUME NEW u \in Clients, ResumeSession(u) PROVE ContentInv'
    <2> DEFINE n == sessions[key].received
               x == [up[u] EXCEPT !.pc = "send", !.url = key,
                                  !.offset = n, !.pos = n]
    <2>0. Whole \/ puts = {}
      BY <1>5, OneCall
      DEF ResumeSession, Ordered, PromptInv, Awaits, OneCall, TypeInv, TypeOK, Put
    <2>1. /\ key \in Sessions /\ n \in 0 .. Size /\ sessions[key].used
          /\ \A r \in puts : r.url = key => r.offset <= n
      BY <1>5, <2>0 DEF ResumeSession, Active, ContentInv, IntactSession, AlignedPut,
                  TypeInv, TypeOK, Session
    <2>2. up' = [up EXCEPT ![u] = x] /\ UNCHANGED <<sessions, puts, acked>>
      BY <1>5 DEF ResumeSession
    <2>3. /\ up'[u].pc = "send" /\ up'[u].url = key
          /\ up'[u].offset = n /\ up'[u].pos = n
      BY <2>2 DEF TypeInv, TypeOK, Upload
    <2>4. n <= n /\ n <= End(n)
      BY <2>1, EndBound
    <2>5. AlignedCall(u)'
      BY <2>1, <2>2, <2>3, <2>4 DEF AlignedCall, Aligned
    <2> QED
      BY <2>2, <2>5, <1>a, MoveAligned
  <1>6. ASSUME NEW u \in Clients, SessionComplete(u) PROVE ContentInv'
    <2>1. CASE Verify(u, key) /\ UNCHANGED <<key, acked>>
      <3>1. up'[u] = Finished(key) /\ Complete(key)'
        BY <2>1, <1>6 DEF SessionComplete, Verify, Complete, TypeInv, TypeOK
      <3> QED
        BY <3>1, <2>1, <1>6, <1>a, FinishedAligned, MoveAligned
        DEF SessionComplete, Verify
    <2>2. ASSUME NEW s \in Stored, acked' = acked \cup {s}, Leave(u)
          PROVE  ContentInv'
      <3>1. AlignedCall(u)'
        BY <2>2, IdleAligned DEF Leave, TypeInv, TypeOK
      <3> QED
        BY <3>1, <2>2, <1>6, <1>a, MoveAligned DEF SessionComplete, Leave
    <2> QED
      BY <2>1, <2>2, <1>6 DEF SessionComplete
  <1>7. ASSUME NEW u \in Clients, SessionExpired(u) PROVE ContentInv'
    BY <1>7, <1>a, SearchAligned DEF SessionExpired
  <1>8. ASSUME NEW u \in Clients, StartUploadSession(u) PROVE ContentInv'
    <2>1. PICK s \in Sessions :
            /\ ~ sessions[s].used
            /\ sessions' = [sessions EXCEPT ![s].used = TRUE, ![s].open = TRUE]
            /\ up' = [up EXCEPT ![u].pc = "save", ![u].url = s]
      BY <1>8 DEF StartUploadSession
    <2>2. UNCHANGED <<puts, acked>> /\ up[u].pc = "start"
      BY <1>8 DEF StartUploadSession
    <2>3. /\ \A t \in Sessions : t # s => sessions'[t] = sessions[t]
          /\ sessions'[s].used /\ sessions'[s].received = 0
          /\ sessions'[s].intact
      BY <2>1 DEF TypeInv, TypeOK, Session, ContentInv, IntactSession
    <2>4. \A t \in Sessions : IntactSession(t)'
      BY <2>3 DEF ContentInv, IntactSession
    <2>5. \A r \in puts : r.url \in Sessions /\ r.url # s /\ AlignedPut(r)
      BY <2>1 DEF ContentInv, AlignedPut, TypeInv, TypeOK, Put
    <2>6. \A r \in puts' : AlignedPut(r)'
      BY <2>2, <2>3, <2>5, <1>a DEF AlignedPut
    <2>7. \A t \in Sessions : Complete(t) => Complete(t)'
      BY <2>1, <2>3 DEF Complete
    <2>8. AlignedCall(u)'
      <3>1. /\ up'[u].pc = "save" /\ up'[u].url = s
            /\ up'[u].offset = 0 /\ up'[u].pos = 0
        BY <2>1, <2>2 DEF ContentInv, AlignedCall, TypeInv, TypeOK, Upload
      <3>2. 0 \in 0 .. Size /\ 0 <= End(0)
        BY SizeAssumption, EndBound
      <3> QED
        BY <2>2, <2>3, <2>5, <3>1, <3>2 DEF AlignedCall, Aligned
    <2>9. ASSUME NEW v \in Clients PROVE AlignedCall(v)'
      BY <2>8, OneCall DEF OneCall
    <2> QED
      BY <2>2, <2>4, <2>6, <2>7, <2>9 DEF ContentInv, Stored
  <1>9. ASSUME NEW u \in Clients, SaveKey(u) PROVE ContentInv'
    <2>1. /\ up' = [up EXCEPT ![u].pc = "send"] /\ up[u].pc = "save"
          /\ UNCHANGED <<sessions, puts, acked>>
      BY <1>9 DEF SaveKey, To
    <2>2. AlignedCall(u)'
      BY <2>1, <1>a DEF ContentInv, AlignedCall, Aligned, TypeInv, TypeOK, Upload
    <2> QED
      BY <2>1, <2>2, <1>a, MoveAligned
  <1>10. ASSUME NEW u \in Clients, SendChunk(u) PROVE ContentInv'
    <2> DEFINE r == [client |-> u, url |-> up[u].url,
                     offset |-> up[u].offset, pos |-> up[u].pos]
    <2>1. /\ puts' = puts \cup {r} /\ up' = [up EXCEPT ![u].pc = "wait"]
          /\ up[u].pc = "send" /\ UNCHANGED <<sessions, acked>>
      BY <1>10 DEF SendChunk, To
    <2>2. Aligned(u) /\ up[u].offset \in 0 .. Size
      BY <2>1 DEF ContentInv, AlignedCall, TypeInv, TypeOK, Upload
    <2>3. \A q \in puts' : AlignedPut(q)'
      BY <2>1, <2>2, <1>a DEF ContentInv, AlignedPut, Aligned
    <2>4. AlignedCall(u)'
      BY <2>1, <2>2, <1>a DEF AlignedCall, Aligned, TypeInv, TypeOK, Upload
    <2>5. \A v \in Clients : AlignedCall(v)'
      BY <2>4, OneCall DEF OneCall
    <2> QED
      BY <2>1, <2>3, <2>5 DEF ContentInv, IntactSession, Stored, Complete
  <1>11. ASSUME NEW u \in Clients, RetryChunk(u) PROVE ContentInv'
    <2> DEFINE x == [up[u] EXCEPT !.pc = "send", !.attempt = @ + 1]
    <2>1. /\ up' = [up EXCEPT ![u] = x] /\ up[u].pc = "wait"
          /\ UNCHANGED <<sessions, acked>> /\ puts' \subseteq puts
      BY <1>11, AbandonType DEF RetryChunk
    <2>2. /\ up'[u].pc = "send" /\ up'[u].url = up[u].url
          /\ up'[u].offset = up[u].offset /\ up'[u].pos = up[u].pos
      BY <2>1 DEF TypeInv, TypeOK, Upload
    <2>3. AlignedCall(u)'
      BY <2>1, <2>2, <1>a DEF ContentInv, AlignedCall, Aligned
    <2> QED
      BY <2>1, <2>3, <1>a, MoveAligned
  <1>12. ASSUME NEW u \in Clients, CloseSession(u) PROVE ContentInv'
    <2>1. up'[u] = Finished(up[u].url) /\ UNCHANGED <<sessions, puts, acked>>
      BY <1>12 DEF CloseSession, Verify, TypeInv, TypeOK
    <2>2. up'[u].url = up[u].url /\ up'[u].pc = "verify"
      BY <2>1 DEF Finished, IdleUpload
    <2>3. AlignedCall(u)'
      BY <2>1, <2>2, <1>12 DEF CloseSession, AlignedCall, Complete
    <2> QED
      BY <2>1, <2>3, <1>12, <1>a, MoveAligned DEF CloseSession, Verify
  <1>13. ASSUME NEW u \in Clients, VerifyRemoteFile(u) PROVE ContentInv'
    <2>1. acked' \subseteq Stored
      BY <1>13, <1>a DEF VerifyRemoteFile, ContentInv, AlignedCall, Stored,
                         TypeInv, HoldsSession
    <2>2. AlignedCall(u)'
      BY <1>13, IdleAligned DEF VerifyRemoteFile, Leave, TypeInv, TypeOK
    <2> QED
      BY <2>1, <2>2, <1>13, <1>a, MoveAligned DEF VerifyRemoteFile, Leave
  <1>14. ASSUME NEW r \in puts, StoreChunk(r) PROVE ContentInv'
    BY <1>14, <1>a, StoreAligned
  <1>15. ASSUME NEW r \in puts, RefuseGap(r) PROVE ContentInv'
    <2>1. /\ r.offset \in 0 .. Size /\ sessions[r.url].received \in 0 .. Size
          /\ AlignedPut(r) /\ r.client \in Clients /\ r.url \in Sessions
      BY DEF ContentInv, TypeInv, TypeOK, Put, Session
    <2>2. ~ Whole /\ Awaits(r)
      BY <2>1, <1>15 DEF RefuseGap, AlignedPut, Ordered, PromptInv
    <2>3. CASE Answer(r, IdleUpload)
      BY <2>3, <1>15, <1>a, AnswerAligned DEF RefuseGap
    <2>4. CASE up' = up
      <3>1. Answer(r, IdleUpload)
        BY <1>15, <2>4 DEF RefuseGap, Answer
      <3> QED
        BY <3>1, <1>15, <1>a, AnswerAligned DEF RefuseGap
    <2>5. CASE /\ Answer(r, NextChunk(up[r.client], sessions[r.url].received))
               /\ up' # up
      <3> DEFINE u == r.client
                 n == sessions[r.url].received
                 e == End(r.offset)
      <3>1. /\ up[u] \in Upload /\ up[u].url = r.url /\ up[u].offset = r.offset
            /\ up[u].pos = r.offset /\ Aligned(u)
        BY <2>1, <2>2 DEF Awaits, TypeInv, TypeOK, ContentInv, AlignedCall, AlignedPut
      <3>2. e \in 0 .. Size /\ n <= e /\ r.offset <= e /\ n < r.offset
        BY <3>1, <2>1, <1>15, EndBound DEF Aligned, RefuseGap
      <3>3. Greater(n, e) = e /\ r.offset + (e - r.offset) = e
        BY <3>2, <2>1 DEF Greater
      <3>4. up' = [up EXCEPT ![u] = NextChunk(up[u], n)] /\ puts' = puts \ {r}
        BY <2>2, <2>5 DEF Answer
      <3>5. up'[u] = NextChunk(up[u], n)
        BY <2>1, <3>4 DEF TypeInv, TypeOK
      <3>6. /\ up'[u].pc = "send" /\ up'[u].url = r.url
            /\ up'[u].offset = e /\ up'[u].pos = e
        BY <3>1, <3>3, <3>5 DEF NextChunk, Upload
      <3>7. n <= End(e)
        <4>1. e <= End(e) /\ End(e) \in 0 .. Size
          BY <3>2, EndBound
        <4> QED
          BY <4>1, <3>2, <2>1
      <3>8. ASSUME NEW q \in puts', q.url = r.url PROVE q.offset <= e
        <4>1. q.offset \in 0 .. Size /\ q.offset <= r.offset
          BY <3>1, <3>4, <3>8 DEF TypeInv, TypeOK, Put, Aligned
        <4> QED
          BY <4>1, <3>2, <2>1
      <3>9. AlignedCall(u)'
        BY <2>1, <2>2, <3>1, <3>6, <3>7, <3>8, <1>15, <1>a
        DEF RefuseGap, AlignedCall, Aligned
      <3> QED
        BY <2>1, <3>4, <3>9, <1>15, <1>a, MoveAligned DEF RefuseGap
    <2> QED
      BY <2>3, <2>4, <2>5, <1>15 DEF RefuseGap
  <1>16. ASSUME NEW r \in puts, AnswerDone(r) PROVE ContentInv'
    BY <1>16, <1>a, AnswerAligned DEF AnswerDone
  <1>17. ASSUME NEW r \in puts, AnswerExpired(r) PROVE ContentInv'
    BY <1>17, <1>a, AnswerAligned DEF AnswerExpired
  <1>18. ASSUME NEW s \in Sessions, SessionExpires(s) PROVE ContentInv'
    <2>1. \A t \in Sessions : /\ sessions'[t].used = sessions[t].used
                              /\ sessions'[t].received = sessions[t].received
                              /\ sessions'[t].intact = sessions[t].intact
                              /\ sessions'[t].open => sessions[t].open
      BY <1>18 DEF SessionExpires, TypeInv, TypeOK, Session
    <2>2. \A t \in Sessions : IntactSession(t)' /\ Complete(t)' = Complete(t)
      BY <2>1 DEF ContentInv, IntactSession, Complete
    <2>3. \A r \in puts' : AlignedPut(r)'
      BY <2>1, <1>18, <1>a
      DEF SessionExpires, ContentInv, AlignedPut, TypeInv, TypeOK, Put
    <2>4. ASSUME NEW u \in Clients PROVE AlignedCall(u)'
      BY <2>1, <2>2, <1>18, <1>a
      DEF SessionExpires, ContentInv, AlignedCall, Aligned, Complete,
          TypeInv, HoldsSession
    <2> QED
      BY <2>2, <2>3, <2>4, <1>18 DEF SessionExpires, ContentInv, Stored
  <1>19. CASE Crash
    <2>1. puts' \subseteq puts /\ acked' \subseteq Stored
      BY <1>19, <1>a DEF Crash
    <2>2. \A u \in Clients : AlignedCall(u)'
      BY <1>19, IdleAligned DEF Crash
    <2> QED
      BY <2>1, <2>2, <1>19, <1>a, SameSessions DEF Crash
  <1>20. CASE UNCHANGED vars
    BY <1>20, <1>a, SameSessions DEF vars
  <1> QED
    BY <1>1, <1>2, <1>3, <1>4, <1>5, <1>6, <1>7, <1>8, <1>9, <1>10, <1>11,
       <1>12, <1>13, <1>14, <1>15, <1>16, <1>17, <1>18, <1>19, <1>20
    DEF Next, UploadStep, Drive

(* One call at a time, against a Google Drive that stores whole chunks or   *)
(* gets no late requests: what upload_file returns Ok with is complete and  *)
(* every byte is at its place, whatever requests and replies are lost,      *)
(* whatever credential accesses and searches fail, and however often the    *)
(* process ends and starts.                                                 *)
THEOREM ContentCorrect ==
  ASSUME OneCall
  PROVE  Spec => []VerifiedContent
  <1> DEFINE I == PromptInv /\ (Ordered => ContentInv)
  <1>1. Init => I
    BY ContentInit DEF PromptInv, Init
  <1>2. TypeInv /\ I /\ [Next]_vars => I'
    BY PromptStep, ContentStep DEF Ordered, Whole, Prompt
  <1>3. I => VerifiedContent
    BY DEF ContentInv, VerifiedContent, Stored, IntactSession, Ordered, Whole, Prompt
  <1> QED
    BY TypeInvariant, <1>1, <1>2, <1>3, PTL DEF Spec

-----------------------------------------------------------------------------
(* What keeps the snapshot stored once: only the session whose URL is kept  *)
(* gets chunks, no session is begun while one is kept or a file is stored,  *)
(* and the URL goes only when its session no longer accepts chunks.         *)

KeyedCall(u) ==
  /\ up[u].pc \in {"save", "send", "wait"} => sessions[up[u].url].used
  /\ up[u].pc \in {"send", "wait"} /\ Active(up[u].url) => key = up[u].url
  /\ up[u].pc \in {"start", "save"} => key = Nil /\ Stored = {}
  /\ up[u].pc = "inspect" => \A s \in Stored : s = key /\ sessions[s].open
  /\ up[u].pc = "verify" => up[u].url \in Stored

KeyedInv ==
  /\ \A s \in Sessions :
       ~ sessions[s].used => sessions[s].received = 0 /\ ~ sessions[s].open
  /\ \A r \in puts : sessions[r.url].used /\ (Active(r.url) => key = r.url)
  /\ \A s, t \in Stored : s = t
  /\ \A s \in Sessions : key = s /\ Active(s) => Stored = {}
  /\ \A u \in Clients : KeyedCall(u)

(* What a step may do to the URL that is kept.                              *)
KeptKey == \A s \in Sessions : key = s /\ Active(s) => key' = s

LEMMA KeyedInit == Init => KeyedInv
  <1> SUFFICES ASSUME Init PROVE KeyedInv
    OBVIOUS
  <1>1. Stored = {} /\ puts = {}
    BY DEF Init, Stored, Complete
  <1>2. \A u \in Clients : KeyedCall(u)
    BY DEF Init, KeyedCall, IdleUpload
  <1> QED
    BY <1>1, <1>2 DEF Init, KeyedInv

(* A step of the one call that leaves the sessions alone, adds no request,  *)
(* and keeps the URL or removes that of a session that accepts no chunks.   *)
LEMMA KeyedMove ==
  ASSUME OneCall, TypeInv, KeyedInv, sessions' = sessions, puts' \subseteq puts,
         key' = key \/ (key' = Nil /\ \A s \in Sessions : key = s => ~ Active(s)),
         NEW u \in Clients, KeyedCall(u)'
  PROVE  KeyedInv' /\ KeptKey
  <1>1. Stored' = Stored /\ \A s : Active(s)' = Active(s)
    BY DEF Stored, Complete, Active
  <1>2. \A v \in Clients : KeyedCall(v)'
    BY OneCall DEF OneCall
  <1>3. \A r \in puts' : sessions'[r.url].used /\ (Active(r.url) => key' = r.url)
    BY DEF KeyedInv, TypeInv, TypeOK, Put
  <1>4. \A s \in Sessions : key' = s /\ Active(s) => Stored = {}
    BY NilAssumption DEF KeyedInv
  <1> QED
    BY <1>1, <1>2, <1>3, <1>4 DEF KeyedInv, KeptKey

(* Google Drive's answer leaves the call it reaches idle, at a stored file, *)
(* or sending to the same session.                                          *)
LEMMA KeyedAnswer ==
  ASSUME OneCall, TypeInv, KeyedInv, UNCHANGED <<sessions, key>>,
         NEW r \in puts, NEW x, Answer(r, x),
         \/ x = IdleUpload
         \/ x = Finished(r.url) /\ Complete(r.url)
         \/ \E n : x = NextChunk(up[r.client], n)
  PROVE  KeyedInv' /\ KeptKey
  <1>1. r.client \in Clients /\ puts' \subseteq puts /\ r.url \in Sessions
    BY DEF TypeInv, TypeOK, Put, Answer
  <1>2. Stored' = Stored /\ \A s : Active(s)' = Active(s)
    BY DEF Stored, Complete, Active
  <1>3. KeyedCall(r.client)'
    <2>1. CASE Awaits(r) /\ up' # up
      <3>1. up'[r.client] = x /\ up[r.client].pc = "wait" /\ KeyedCall(r.client)
            /\ up[r.client] \in Upload
        BY <1>1, <2>1 DEF Answer, Awaits, TypeInv, TypeOK, KeyedInv
      <3>2. CASE x = IdleUpload
        BY <3>1, <3>2 DEF KeyedCall, IdleUpload
      <3>3. CASE x = Finished(r.url) /\ Complete(r.url)
        BY <1>1, <1>2, <3>1, <3>3 DEF KeyedCall, Finished, IdleUpload, Stored
      <3>4. ASSUME NEW n, x = NextChunk(up[r.client], n) PROVE KeyedCall(r.client)'
        <4>1. up'[r.client].pc = "send" /\ up'[r.client].url = up[r.client].url
          BY <3>1, <3>4 DEF NextChunk, Upload
        <4> QED
          BY <4>1, <3>1, <1>2 DEF KeyedCall
      <3> QED
        BY <3>2, <3>3, <3>4
    <2>2. CASE up' = up
      BY <1>1, <1>2, <2>2 DEF KeyedInv, KeyedCall
    <2> QED
      BY <2>1, <2>2 DEF Answer
  <1> QED
    BY <1>1, <1>3, KeyedMove

(* A stored chunk: its session is the one whose URL is kept, and no file is *)
(* stored yet, so that at most this session completes.                      *)
LEMMA KeyedStore ==
  ASSUME OneCall, TypeInv, KeyedInv, NEW r \in puts, StoreChunk(r)
  PROVE  KeyedInv' /\ KeptKey
  <1> DEFINE s == r.url
             c == r.client
  <1>1. PICK n \in ReceivedAfter(r) :
          /\ sessions' = [sessions EXCEPT
                            ![s].received = n,
                            ![s].intact = @ /\ (n = sessions[s].received
                                                  \/ r.pos = r.offset)]
          /\ Answer(r, IF n = Size THEN Finished(s) ELSE NextChunk(up[c], n))
    BY DEF StoreChunk
  <1>2. /\ key' = key /\ Active(s) /\ s \in Sessions /\ c \in Clients
        /\ sessions[s].used /\ key = s
    BY DEF StoreChunk, KeyedInv, TypeInv, TypeOK, Put
  <1>3. Stored = {} /\ n \in 0 .. Size
    BY <1>2, ReceivedType DEF KeyedInv
  <1>4. /\ \A t \in Sessions : t # s => sessions'[t] = sessions[t]
        /\ sessions'[s].received = n
        /\ sessions'[s].used = sessions[s].used
        /\ sessions'[s].open = sessions[s].open
    BY <1>1, <1>2 DEF TypeInv, TypeOK, Session
  <1>5. \A t \in Sessions : Active(t)' => Active(t)
    BY <1>2, <1>4 DEF Active
  <1>6. /\ \A t \in Stored' : t = s
        /\ s \in Stored' <=> n = Size
    BY <1>2, <1>3, <1>4 DEF Stored, Complete
  <1>7. Active(s)' => Stored' = {}
    <2>1. Active(s)' => n # Size
      BY <1>3, <1>4, SizeAssumption DEF Active
    <2> QED
      BY <2>1, <1>6
  <1>8. puts' \subseteq puts /\ \A q \in puts : q.url \in Sessions
    BY <1>1 DEF Answer, TypeInv, TypeOK, Put
  <1>9. \A q \in puts' : sessions'[q.url].used /\ (Active(q.url)' => key' = q.url)
    BY <1>2, <1>4, <1>5, <1>8 DEF KeyedInv
  <1>10. KeyedCall(c)'
    <2>1. CASE Awaits(r) /\ up' # up
      <3>1. /\ up'[c] = IF n = Size THEN Finished(s) ELSE NextChunk(up[c], n)
            /\ up[c] \in Upload /\ up[c].url = s
        BY <1>1, <1>2, <2>1 DEF Answer, Awaits, TypeInv, TypeOK
      <3>2. CASE n = Size
        BY <1>6, <3>1, <3>2 DEF KeyedCall, Finished, IdleUpload
      <3>3. CASE n # Size
        <4>1. up'[c].pc = "send" /\ up'[c].url = s
          BY <3>1, <3>3 DEF NextChunk, Upload
        <4> QED
          BY <4>1, <1>2, <1>4 DEF KeyedCall
      <3> QED
        BY <3>2, <3>3
    <2>2. CASE up' = up
      <3>1. up' = up /\ KeyedCall(c) /\ HoldsSession(c)
        BY <1>2, <2>2 DEF KeyedInv, TypeInv
      <3>2. /\ up[c].pc \notin {"start", "save"}
            /\ up[c].pc # "verify"
        BY <3>1, <1>2, <1>3, NilAssumption DEF KeyedCall
      <3>3. up[c].pc \in {"send", "wait"} =>
              sessions'[up[c].url].used /\ (Active(up[c].url)' => key = up[c].url)
        BY <3>1, <1>2, <1>4, <1>5 DEF KeyedCall, HoldsSession
      <3>4. \A t \in Stored' : t = key' /\ sessions'[t].open
        BY <1>2, <1>4, <1>6 DEF Active
      <3> QED
        BY <3>1, <3>2, <3>3, <3>4, <1>2 DEF KeyedCall
    <2> QED
      BY <1>1, <2>1, <2>2 DEF Answer
  <1>11. \A v \in Clients : KeyedCall(v)'
    BY <1>2, <1>10, OneCall DEF OneCall
  <1>12. \A t \in Sessions :
           ~ sessions'[t].used => sessions'[t].received = 0 /\ ~ sessions'[t].open
    BY <1>2, <1>4 DEF KeyedInv
  <1> QED
    BY <1>2, <1>6, <1>7, <1>9, <1>11, <1>12 DEF KeyedInv, KeptKey

LEMMA KeyedStart ==
  ASSUME OneCall, TypeInv, KeyedInv, NEW u \in Clients, StartUploadSession(u)
  PROVE  KeyedInv' /\ KeptKey
  <1>1. PICK s \in Sessions :
          /\ ~ sessions[s].used
          /\ sessions' = [sessions EXCEPT ![s].used = TRUE, ![s].open = TRUE]
          /\ up' = [up EXCEPT ![u].pc = "save", ![u].url = s]
    BY DEF StartUploadSession
  <1>2. /\ up[u].pc = "start" /\ UNCHANGED <<key, puts>>
        /\ key = Nil /\ Stored = {}
    BY DEF StartUploadSession, KeyedInv, KeyedCall
  <1>3. /\ \A t \in Sessions : t # s => sessions'[t] = sessions[t]
        /\ sessions'[s].used /\ sessions'[s].received = 0
    BY <1>1 DEF TypeInv, TypeOK, Session, KeyedInv
  <1>4. Stored' = {}
    BY <1>2, <1>3, SizeAssumption DEF Stored, Complete
  <1>5. \A r \in puts : r.url \in Sessions /\ r.url # s
    BY <1>1 DEF KeyedInv, TypeInv, TypeOK, Put
  <1>6. \A r \in puts' : sessions'[r.url].used /\ (Active(r.url)' => key' = r.url)
    BY <1>2, <1>3, <1>5 DEF KeyedInv, Active
  <1>7. up'[u].pc = "save" /\ up'[u].url = s
    BY <1>1 DEF TypeInv, TypeOK, Upload
  <1>8. KeyedCall(u)'
    BY <1>2, <1>3, <1>4, <1>7 DEF KeyedCall
  <1>9. \A v \in Clients : KeyedCall(v)'
    BY <1>8, OneCall DEF OneCall
  <1> QED
    BY <1>2, <1>3, <1>4, <1>6, <1>9 DEF KeyedInv, KeptKey

LEMMA KeyedExpiry ==
  ASSUME TypeInv, KeyedInv, NEW s \in Sessions, SessionExpires(s)
  PROVE  KeyedInv' /\ KeptKey
  <1>1. /\ UNCHANGED <<key, up, puts>>
        /\ Complete(s) => \A u \in Clients : up[u].pc = "idle"
    BY DEF SessionExpires
  <1>2. \A t \in Sessions : /\ sessions'[t].used = sessions[t].used
                            /\ sessions'[t].received = sessions[t].received
                            /\ sessions'[t].open => sessions[t].open
                            /\ t # s => sessions'[t] = sessions[t]
    BY DEF SessionExpires, TypeInv, TypeOK, Session
  <1>3. Stored' = Stored /\ \A t \in Sessions : Active(t)' => Active(t)
    BY <1>2 DEF Stored, Complete, Active
  <1>4. ASSUME NEW u \in Clients PROVE KeyedCall(u)'
    <2>1. KeyedCall(u) /\ HoldsSession(u)
      BY DEF KeyedInv, TypeInv
    <2>2. ASSUME up[u].pc = "inspect", NEW t \in Stored
          PROVE  t = key /\ sessions'[t].open
      <3>1. t # s /\ t \in Sessions
        BY <1>1, <2>2 DEF Stored
      <3> QED
        BY <3>1, <2>1, <2>2, <1>2 DEF KeyedCall
    <2> QED
      BY <1>1, <1>2, <1>3, <2>1, <2>2 DEF KeyedCall, HoldsSession
  <1>5. \A r \in puts' : sessions'[r.url].used /\ (Active(r.url)' => key' = r.url)
    BY <1>1, <1>2, <1>3 DEF KeyedInv, TypeInv, TypeOK, Put
  <1> QED
    BY <1>1, <1>2, <1>3, <1>4, <1>5 DEF KeyedInv, KeptKey

LEMMA KeyedStep ==
  ASSUME OneCall, Reconciles, TypeInv, KeyedInv, [Next]_vars
  PROVE  KeyedInv' /\ KeptKey
  <1> DEFINE Goal == KeyedInv' /\ KeptKey
  <1>f. "keyring" \notin failures /\ "search" \notin failures
    BY DEF Reconciles
  <1>c. ASSUME NEW s PROVE Complete(s) => ~ Active(s) /\ (UNCHANGED sessions => Complete(s)')
    <2>1. ~ (Size < Size)
      BY SizeAssumption
    <2> QED
      BY <2>1 DEF Complete, Active
  <1>d. UNCHANGED sessions => Stored' = Stored
    BY DEF Stored, Complete
  <1>1. ASSUME NEW u \in Clients, Begin(u) \/ NoSession(u) PROVE Goal
    <2>1. /\ UNCHANGED <<sessions, key, puts>>
          /\ \/ up[u].pc = "idle" /\ up'[u].pc = "find"
             \/ up[u].pc = "inspect" /\ key = Nil /\ up'[u].pc = "start"
      BY <1>1, <1>f DEF Begin, NoSession, To, TypeInv, TypeOK, Upload
    <2>2. up[u].pc = "inspect" /\ key = Nil => Stored = {}
      BY NilAssumption DEF KeyedInv, KeyedCall, Stored
    <2>3. KeyedCall(u)'
      BY <2>1, <2>2, <1>d DEF KeyedCall
    <2> QED
      BY <2>1, <2>3, KeyedMove
  <1>2. ASSUME NEW u \in Clients, GiveUp(u) PROVE Goal
    <2>1. UNCHANGED <<sessions, key>> /\ puts' \subseteq puts /\ up'[u].pc = "idle"
      BY <1>2, AbandonType DEF GiveUp, Leave, IdleUpload, TypeInv, TypeOK
    <2> QED
      BY <2>1, KeyedMove DEF KeyedCall
  <1>3. ASSUME NEW u \in Clients, FindExistingFile(u) PROVE Goal
    <2>1. /\ UNCHANGED <<sessions, key, puts>>
          /\ \/ up'[u].pc = "verify" /\ up'[u].url \in Stored
             \/ up'[u].pc = "inspect" /\ Stored = {}
      <3>1. CASE \E s \in Stored : Verify(u, s)
        BY <3>1, <1>3
        DEF FindExistingFile, Verify, Finished, IdleUpload, TypeInv, TypeOK
      <3>2. CASE To(u, "inspect") /\ Stored = {}
        BY <3>2, <1>3 DEF FindExistingFile, To, TypeInv, TypeOK
      <3> QED
        BY <1>3, <1>f, <3>1, <3>2 DEF FindExistingFile
    <2> QED
      BY <2>1, <1>d, KeyedMove DEF KeyedCall
  <1>4. ASSUME NEW u \in Clients, ResumeSession(u) PROVE Goal
    <2>1. /\ UNCHANGED <<sessions, key, puts>> /\ key \in Sessions /\ Active(key)
          /\ up'[u].pc = "send" /\ up'[u].url = key /\ sessions[key].used
      BY <1>4 DEF ResumeSession, Active, KeyedInv, TypeInv, TypeOK, Upload
    <2>2. KeyedCall(u)'
      BY <2>1 DEF KeyedCall
    <2> QED
      BY <2>1, <2>2, KeyedMove
  <1>5. ASSUME NEW u \in Clients, SessionComplete(u) PROVE Goal
    <2>1. /\ UNCHANGED <<sessions, puts>> /\ key \in Sessions /\ Complete(key)
          /\ \/ Verify(u, key) /\ key' = key
             \/ ForgetKey /\ Leave(u)
      BY <1>5 DEF SessionComplete, TypeInv, TypeOK
    <2>2. key' = key \/ key' = Nil
      BY <2>1 DEF ForgetKey
    <2>3. \/ up'[u].pc = "verify" /\ up'[u].url = key
          \/ up'[u].pc = "idle"
      <3>1. CASE Verify(u, key)
        BY <3>1 DEF Verify, Finished, IdleUpload, TypeInv, TypeOK
      <3>2. CASE Leave(u)
        BY <3>2 DEF Leave, IdleUpload, TypeInv, TypeOK
      <3> QED
        BY <2>1, <3>1, <3>2
    <2>4. key \in Stored'
      BY <2>1, <1>d DEF Stored
    <2>5. KeyedCall(u)'
      BY <2>3, <2>4 DEF KeyedCall
    <2> QED
      BY <2>1, <2>2, <2>5, <1>c, KeyedMove
  <1>6. ASSUME NEW u \in Clients, SessionExpired(u) PROVE Goal
    <2>1. /\ UNCHANGED <<sessions, puts>> /\ key \in Sessions /\ ~ sessions[key].open
          /\ key' = Nil /\ up[u].pc = "inspect" /\ up'[u].pc = "start"
      BY <1>6, <1>f
      DEF SessionExpired, Expired, ForgetKey, To, TypeInv, TypeOK, Upload
    <2>2. Stored = {}
      BY <2>1 DEF KeyedInv, KeyedCall
    <2>3. KeyedCall(u)'
      BY <2>1, <2>2, <1>d DEF KeyedCall
    <2> QED
      BY <2>1, <2>3, KeyedMove DEF Active
  <1>7. ASSUME NEW u \in Clients, SaveKey(u) PROVE Goal
    <2>1. /\ UNCHANGED <<sessions, puts>> /\ key = Nil /\ Stored = {}
          /\ key' = up[u].url /\ up'[u].pc = "send" /\ up'[u].url = up[u].url
          /\ sessions[up[u].url].used
      BY <1>7 DEF SaveKey, To, KeyedInv, KeyedCall, TypeInv, TypeOK, Upload
    <2>2. \A s : Active(s)' = Active(s)
      BY <2>1 DEF Active
    <2>3. \A r \in puts : r.url \in Sessions
      BY DEF TypeInv, TypeOK, Put
    <2>4. \A r \in puts' : sessions'[r.url].used /\ (Active(r.url)' => key' = r.url)
      BY <2>1, <2>2, <2>3, NilAssumption DEF KeyedInv
    <2>5. KeyedCall(u)'
      BY <2>1 DEF KeyedCall
    <2>6. \A v \in Clients : KeyedCall(v)'
      BY <2>5, OneCall DEF OneCall
    <2> QED
      BY <2>1, <2>4, <2>6, <1>d, NilAssumption DEF KeyedInv, KeptKey
  <1>s. ASSUME NEW u \in Clients, StartUploadSession(u) PROVE Goal
    BY <1>s, KeyedStart
  <1>8. ASSUME NEW u \in Clients, SendChunk(u) PROVE Goal
    <2> DEFINE r == [client |-> u, url |-> up[u].url,
                     offset |-> up[u].offset, pos |-> up[u].pos]
    <2>1. /\ UNCHANGED <<sessions, key>> /\ puts' = puts \cup {r}
          /\ up[u].pc = "send" /\ up'[u].pc = "wait" /\ up'[u].url = up[u].url
      BY <1>8 DEF SendChunk, To, TypeInv, TypeOK, Upload
    <2>2. /\ \A s : Active(s)' = Active(s)
          /\ sessions[r.url].used /\ (Active(r.url) => key = r.url)
      BY <2>1 DEF Active, KeyedInv, KeyedCall
    <2>3. KeyedCall(u)'
      BY <2>1, <2>2 DEF KeyedCall
    <2>4. \A v \in Clients : KeyedCall(v)'
      BY <2>3, OneCall DEF OneCall
    <2>5. \A q \in puts' : sessions'[q.url].used /\ (Active(q.url)' => key' = q.url)
      BY <2>1, <2>2 DEF KeyedInv
    <2> QED
      BY <2>1, <2>2, <2>4, <2>5, <1>d DEF KeyedInv, KeptKey
  <1>9. ASSUME NEW u \in Clients, RetryChunk(u) PROVE Goal
    <2>1. /\ UNCHANGED <<sessions, key>> /\ puts' \subseteq puts
          /\ up[u].pc = "wait" /\ up'[u].pc = "send" /\ up'[u].url = up[u].url
      BY <1>9, AbandonType DEF RetryChunk, TypeInv, TypeOK, Upload
    <2>2. KeyedCall(u)'
      BY <2>1 DEF KeyedInv, KeyedCall, Active
    <2> QED
      BY <2>1, <2>2, KeyedMove
  <1>10. ASSUME NEW u \in Clients, CloseSession(u) PROVE Goal
    <2>1. /\ UNCHANGED <<sessions, key, puts>>
          /\ up'[u].pc = "verify" /\ up'[u].url \in Stored
      BY <1>10
      DEF CloseSession, Verify, Finished, IdleUpload, Stored, TypeInv, TypeOK, HoldsSession
    <2> QED
      BY <2>1, <1>d, KeyedMove DEF KeyedCall
  <1>11. ASSUME NEW u \in Clients, VerifyRemoteFile(u) PROVE Goal
    <2>1. /\ UNCHANGED <<sessions, puts>> /\ key' = Nil
          /\ up[u].pc = "verify" /\ up'[u].pc = "idle"
      BY <1>11, <1>f DEF VerifyRemoteFile, ForgetKey, Leave, IdleUpload, TypeInv, TypeOK
    <2>2. Stored # {}
      BY <2>1 DEF KeyedInv, KeyedCall
    <2>3. KeyedCall(u)'
      BY <2>1 DEF KeyedCall
    <2> QED
      BY <2>1, <2>2, <2>3, KeyedMove DEF KeyedInv
  <1>12. ASSUME NEW r \in puts, StoreChunk(r) PROVE Goal
    BY <1>12, KeyedStore
  <1>13. ASSUME NEW r \in puts, RefuseGap(r) PROVE Goal
    BY <1>13, KeyedAnswer DEF RefuseGap
  <1>14. ASSUME NEW r \in puts, AnswerDone(r) \/ AnswerExpired(r) PROVE Goal
    BY <1>14, KeyedAnswer DEF AnswerDone, AnswerExpired
  <1>15. ASSUME NEW s \in Sessions, SessionExpires(s) PROVE Goal
    BY <1>15, KeyedExpiry
  <1>16. ASSUME Crash PROVE Goal
    <2>1. /\ UNCHANGED <<sessions, key>> /\ puts' \subseteq puts
          /\ \A u \in Clients : up'[u].pc = "idle"
      BY <1>16 DEF Crash, IdleUpload
    <2>2. \A s : Active(s)' = Active(s)
      BY <2>1 DEF Active
    <2> QED
      BY <2>1, <2>2, <1>d DEF KeyedInv, KeyedCall, KeptKey
  <1>17. ASSUME UNCHANGED vars PROVE Goal
    <2>1. UNCHANGED <<sessions, key, up, puts>>
      BY <1>17 DEF vars
    <2> QED
      BY <2>1, <1>d DEF KeyedInv, KeyedCall, KeptKey, Active
  <1> HIDE DEF Goal
  <1>18. ASSUME NEW u \in Clients, UploadStep(u) PROVE Goal
    BY <1>1, <1>2, <1>3, <1>4, <1>5, <1>6, <1>7, <1>8, <1>9, <1>10, <1>11, <1>18, <1>s
    DEF UploadStep
  <1>19. ASSUME Drive PROVE Goal
    <2>1. ASSUME NEW r \in puts,
                 StoreChunk(r) \/ RefuseGap(r) \/ AnswerDone(r) \/ AnswerExpired(r)
          PROVE  Goal
      BY <2>1, <1>12, <1>13, <1>14
    <2> QED
      BY <2>1, <1>15, <1>19 DEF Drive
  <1>20. ASSUME Next PROVE Goal
    <2>1. ASSUME NEW u \in Clients, Begin(u) PROVE Goal
      BY <2>1, <1>1
    <2> QED
      BY <2>1, <1>16, <1>18, <1>19, <1>20 DEF Next
  <1> QED
    BY <1>17, <1>20 DEF Goal

LEMMA FailuresStay == [Next]_vars => failures' = failures
  BY DEF Next, vars

LEMMA KeyedInvariant ==
  ASSUME OneCall
  PROVE  Spec => [](Reconciles => KeyedInv)
  <1>1. TypeInv /\ (Reconciles => KeyedInv) /\ [Next]_vars => (Reconciles => KeyedInv)'
    BY KeyedStep, FailuresStay DEF Reconciles
  <1> QED
    BY TypeInvariant, KeyedInit, <1>1, PTL DEF Spec

(* Runs of one snapshot, one at a time, each of which may fail, be killed   *)
(* or lose replies at any step, while their chunks arrive late, in part or  *)
(* not at all, never leave the snapshot twice in the account.               *)
THEOREM OneCopyCorrect ==
  ASSUME OneCall
  PROVE  Spec => []OneCopy
  <1>1. ASSUME \A s, t \in Stored : s = t PROVE Cardinality(Stored) <= 1
    <2>1. CASE Stored = {}
      BY <2>1, FS_EmptySet
    <2>2. CASE Stored # {}
      <3>1. PICK s \in Stored : Stored = {s}
        BY <1>1, <2>2
      <3>2. Cardinality(Stored) = 1
        BY <3>1, FS_Singleton
      <3> QED
        BY <3>2
    <2> QED
      BY <2>1, <2>2
  <1>2. (Reconciles => KeyedInv) => OneCopy
    BY <1>1 DEF KeyedInv, OneCopy
  <1> QED
    BY KeyedInvariant, <1>2, PTL

(* In the same runs, the URL of a session that accepts more chunks is kept  *)
(* by every step, so that the next run resumes it.                          *)
THEOREM SessionKept ==
  ASSUME OneCall
  PROVE  Spec => KeepsSession
  <1>1. TypeInv /\ (Reconciles => KeyedInv) /\ [Next]_vars
          => [\A s \in Sessions : Reconciles /\ key = s /\ Active(s) => key' = s]_vars
    BY KeyedStep DEF KeptKey
  <1> QED
    BY TypeInvariant, KeyedInvariant, <1>1, PTL DEF Spec, KeepsSession
=============================================================================
