---------------------------- MODULE AuthSessions ----------------------------
(***************************************************************************)
(* Sign-in of the hosted foundation: the refresh sessions that             *)
(* apps/api/src/auth keeps in PostgreSQL or in memory, the handlers of     *)
(* login, refresh and logout cut at their awaits, and the page of apps/web *)
(* that signs in and keeps its tokens in the browser's localStorage.       *)
(*                                                                         *)
(* A signed token is the pair of its user and the second it was issued in: *)
(* issue() signs nothing else that differs, so two tokens issued to a user *)
(* in the same second are the same string.  An access token and a refresh  *)
(* token are issued together and are told apart by their use here.         *)
(***************************************************************************)
EXTENDS Naturals, FiniteSets

CONSTANTS
  Clients,     \* browsers and other clients of the API, each with one user
  Requests,    \* requests the API handles at a time
  Users,
  UserOf,      \* the user of each client, when users are in the database
  DevUser,     \* the only user without a database (DEV_LOGIN_EMAIL)
  Stores,      \* where sessions may be kept: a subset of {"database", "memory"}
  AccessTtl, RefreshTtl,  \* seconds a token is valid
  MaxTime,     \* bound: the clock stops here
  MaxFaults,   \* bound: failed statements, lost answers and restarts
  Nil

ASSUME ClientsAssumption ==
  UserOf \in [Clients -> Users] /\ DevUser \in Users /\ Nil \notin Clients
ASSUME StoresAssumption == Stores \subseteq {"database", "memory"}
ASSUME TimeAssumption ==
  AccessTtl \in Nat /\ RefreshTtl \in Nat /\ MaxTime \in Nat /\ MaxFaults \in Nat

Token == [user : Users, iat : 0 .. MaxTime]
ASSUME NilAssumption == Nil \notin Token

VARIABLES
  store,    \* this deployment keeps its sessions in the database or in memory
  now,      \* the second
  session,  \* the row of each refresh token; the token's hash is its key
  req,      \* the requests
  holds,    \* the tokens a client has saved: the pair issued last to it
  page,     \* the web page of a client
  failed,   \* history: clients of which a request failed or lost its answer
  ended,    \* history: tokens whose exchange or logout was answered
  faults

vars == <<store, now, session, req, holds, page, failed, ended, faults>>

Row == {"none", "live", "rotated", "logout"}
At == {"idle", "find", "rotate", "create", "revoke", "reply"}
Page == {"checking", "anonymous", "open"}
Kind == {"login", "refresh", "logout"}

Idle == [at |-> "idle", kind |-> "login", client |-> Nil, token |-> Nil, new |-> Nil]

Init ==
  /\ store \in Stores
  /\ now = 0
  /\ session = [t \in Token |-> "none"]
  /\ req = [r \in Requests |-> Idle]
  /\ holds = [c \in Clients |-> Nil]
  /\ page = [c \in Clients |-> "anonymous"]
  /\ failed = {} /\ ended = {} /\ faults = 0

-----------------------------------------------------------------------------
User(c) == IF store = "memory" THEN DevUser ELSE UserOf[c]

\* parse() refuses a token from the second of its expiry on.
AccessValid(t) == now < t.iat + AccessTtl
RefreshValid(t) == now < t.iat + RefreshTtl

Goto(r, at) == req' = [req EXCEPT ![r].at = at]
End(r) == req' = [req EXCEPT ![r] = Idle]
Fails(r) == failed' = failed \cup ({req[r].client} \ {Nil})

-----------------------------------------------------------------------------
(* The clients.  A page that wants its user to sign in starts with "Loading*)
(* your workspace..."; its effect, which runs once, replaces that by the   *)
(* sign-in form when localStorage has no token, and by nothing when it has.*)

\* The page is loaded again; the answer to a login it has sent reaches nobody.
LoadPage(c) ==
  /\ page' = [page EXCEPT ![c] = IF holds[c] = Nil THEN "anonymous" ELSE "checking"]
  /\ req' = [r \in Requests |-> IF req[r].kind = "login" /\ req[r].client = c
                                THEN [req[r] EXCEPT !.client = Nil] ELSE req[r]]
  /\ UNCHANGED <<store, now, session, holds, failed, ended, faults>>

\* The page disables its button while it submits.  A login presents no token:
\* the token here names the user.
SendLogin(r, c) ==
  /\ req[r].at = "idle" /\ page[c] = "anonymous"
  /\ \A q \in Requests : req[q].client = c => req[q].kind # "login"
  /\ req' = [req EXCEPT ![r] =
               [at |-> "find", kind |-> "login", client |-> c,
                token |-> [user |-> User(c), iat |-> 0], new |-> Nil]]
  /\ UNCHANGED <<store, now, session, holds, page, failed, ended, faults>>

Send(r, c, kind) ==
  /\ req[r].at = "idle" /\ holds[c] # Nil
  /\ req' = [req EXCEPT ![r] =
               [at |-> IF kind = "refresh" THEN "find" ELSE "revoke",
                kind |-> kind, client |-> c, token |-> holds[c], new |-> Nil]]
  /\ UNCHANGED <<store, now, session, holds, page, failed, ended, faults>>

SendRefresh(r, c) == Send(r, c, "refresh")
SendLogout(r, c) == Send(r, c, "logout")

-----------------------------------------------------------------------------
(* The handlers of AuthService.                                            *)

Issued(r) == [user |-> req[r].token.user, iat |-> now]
Sign(r) == req' = [req EXCEPT ![r].at = "create", ![r].new = Issued(r)]

\* Without a database a handler has no await: issue() sets the token's entry,
\* whatever the entry was.
IssueInMemory(r, before) ==
  /\ session' = [before EXCEPT ![Issued(r)] = "live"]
  /\ req' = [req EXCEPT ![r].at = "reply", ![r].new = Issued(r)]
  /\ ended' = ended \ {Issued(r)}

\* login: the user is found and the password compared, or it is refused.
HandleLogin(r) ==
  /\ req[r].at = "find" /\ req[r].kind = "login"
  /\ \/ store = "database" /\ Sign(r) /\ UNCHANGED <<session, ended>>
     \/ store = "memory" /\ IssueInMemory(r, session)
     \/ End(r) /\ UNCHANGED <<session, ended>>
  /\ UNCHANGED <<store, now, holds, page, failed, faults>>

\* refresh, up to its first await: the signature and the row are checked.
\* In memory the same step goes on to revoke the entry and to issue.
Accepts(t) == RefreshValid(t) /\ session[t] = "live"

HandleRefresh(r) ==
  LET t == req[r].token IN
  /\ req[r].at = "find" /\ req[r].kind = "refresh"
  /\ \/ ~Accepts(t) /\ End(r) /\ UNCHANGED <<session, ended>>
     \/ Accepts(t) /\ store = "database" /\ Goto(r, "rotate") /\ UNCHANGED <<session, ended>>
     \/ /\ Accepts(t) /\ store = "memory"
        /\ IssueInMemory(r, [session EXCEPT ![t] = "rotated"])
  /\ UNCHANGED <<store, now, holds, page, failed, faults>>

(* Mutant: the exchanged session is left as it is.                         *)
RotateForgotten(r) ==
  /\ req[r].at = "rotate"
  /\ Sign(r)
  /\ UNCHANGED <<store, now, session, holds, page, failed, ended, faults>>

\* session.update has no condition on the state the row has by now.
Rotate(r) ==
  /\ req[r].at = "rotate"
  /\ session' = [session EXCEPT ![req[r].token] = "rotated"]
  /\ Sign(r)
  /\ UNCHANGED <<store, now, holds, page, failed, ended, faults>>

(* Mutant: the hash of a refresh token is not unique.                      *)
CreateAnyway(r) ==
  /\ req[r].at = "create"
  /\ session' = [session EXCEPT ![req[r].new] = "live"]
  /\ Goto(r, "reply")
  /\ UNCHANGED <<store, now, holds, page, failed, ended, faults>>

\* session.create: refresh_token_hash is unique, whatever became of the row.
Create(r) ==
  /\ req[r].at = "create"
  /\ IF session[req[r].new] = "none"
     THEN /\ session' = [session EXCEPT ![req[r].new] = "live"]
          /\ Goto(r, "reply") /\ UNCHANGED failed
     ELSE /\ End(r) /\ Fails(r)
          /\ UNCHANGED session
  /\ UNCHANGED <<store, now, holds, page, ended, faults>>

(* Mutant: logout revokes every session of the user.                       *)
RevokeAll(r) ==
  LET t == req[r].token IN
  /\ req[r].at = "revoke"
  /\ AccessValid(t) /\ RefreshValid(t)
  /\ session' = [u \in Token |-> IF u.user = t.user /\ session[u] = "live"
                                 THEN "logout" ELSE session[u]]
  /\ Goto(r, "reply")
  /\ UNCHANGED <<store, now, holds, page, failed, ended, faults>>

\* logout: AccessTokenGuard wants the access token to be valid still.
Revoke(r) ==
  LET t == req[r].token IN
  /\ req[r].at = "revoke"
  /\ IF AccessValid(t) /\ RefreshValid(t)
     THEN /\ session' = IF session[t] = "live" THEN [session EXCEPT ![t] = "logout"]
                        ELSE session
          /\ Goto(r, "reply")
     ELSE /\ End(r) /\ UNCHANGED session
  /\ UNCHANGED <<store, now, holds, page, failed, ended, faults>>

\* A token that memory issued again within its own second has not ended.
Answer(r) ==
  LET q == req[r] IN
  /\ q.at = "reply"
  /\ IF q.client = Nil THEN UNCHANGED <<holds, page, ended>>
     ELSE /\ holds' = [holds EXCEPT ![q.client] = q.new]
          /\ page' = [page EXCEPT ![q.client] = IF q.kind = "login" THEN "open" ELSE @]
          /\ ended' = IF \/ q.kind = "login"
                         \/ store = "memory" /\ session[q.token] = "live"
                      THEN ended ELSE ended \cup {q.token}
  /\ End(r)
  /\ UNCHANGED <<store, now, session, failed, faults>>

-----------------------------------------------------------------------------
(* Faults and time.                                                        *)

\* A statement fails or an answer is lost.
Fail(r) ==
  /\ req[r].at \in {"rotate", "create", "reply"} /\ faults < MaxFaults
  /\ faults' = faults + 1
  /\ Fails(r) /\ End(r)
  /\ UNCHANGED <<store, now, session, holds, page, ended>>

\* The API starts again: requests are cut off and the maps are empty.
Restart ==
  /\ faults < MaxFaults /\ faults' = faults + 1
  /\ failed' = failed \cup ({req[r].client : r \in Requests} \ {Nil})
  /\ req' = [r \in Requests |-> Idle]
  /\ session' = IF store = "memory" THEN [t \in Token |-> "none"] ELSE session
  /\ UNCHANGED <<store, now, holds, page, ended>>

Tick ==
  /\ now < MaxTime /\ now' = now + 1
  /\ UNCHANGED <<store, session, req, holds, page, failed, ended, faults>>

Handle(r) ==
  \/ HandleLogin(r) \/ HandleRefresh(r) \/ Rotate(r) \/ Create(r)
  \/ Revoke(r) \/ Answer(r)

Next ==
  \/ \E c \in Clients : LoadPage(c)
  \/ \E r \in Requests, c \in Clients :
       SendLogin(r, c) \/ SendRefresh(r, c) \/ SendLogout(r, c)
  \/ \E r \in Requests : Handle(r) \/ Fail(r)
  \/ Restart \/ Tick

Spec == Init /\ [][Next]_vars

\* The event loop of Node.js runs every continuation, and PostgreSQL answers
\* or fails.
Fairness == \A r \in Requests : WF_vars(Handle(r))

FairSpec == Spec /\ Fairness

-----------------------------------------------------------------------------
Request ==
  [at : At, kind : Kind, client : Clients \cup {Nil},
   token : Token \cup {Nil}, new : Token \cup {Nil}]

TypeOK ==
  /\ store \in Stores /\ now \in 0 .. MaxTime
  /\ session \in [Token -> Row]
  /\ req \in [Requests -> Request]
  /\ holds \in [Clients -> Token \cup {Nil}]
  /\ page \in [Clients -> Page]
  /\ failed \subseteq Clients /\ ended \subseteq Token
  /\ faults \in 0 .. MaxFaults

(* With a database no two clients hold the same refresh token, although the *)
(* tokens of a user differ in their second only: the unique hash lets one   *)
(* of two logins of a second fail (schema.prisma, refreshTokenHash).        *)
OneHolder ==
  store = "database" =>
    \A c, d \in Clients : c # d /\ holds[c] = holds[d] => holds[c] = Nil

(* With a database the token that a client saved last is live whatever other*)
(* requests and other clients did: it loses its session only by a request   *)
(* of its own that failed, or whose answer it lost.                         *)
HeldIsLive ==
  store = "database" =>
    \A c \in Clients \ failed :
      holds[c] # Nil /\ (\A r \in Requests : req[r].client # c)
        => session[holds[c]] = "live"

(* A token whose exchange or logout was answered is refused by every refresh*)
(* handled after that; one that overlaps with it may be accepted too        *)
(* (auth.service.ts:102 reads the row before line 103 revokes it).          *)
EndedStaysEnded ==
  [][\A r \in Requests :
       /\ req[r].at = "find" /\ req[r].kind = "refresh"
       /\ req'[r].at \in {"rotate", "reply"}
       => req[r].token \notin ended]_vars

(* The page that says "Loading your workspace..." (dashboard.tsx:99) goes on*)
(* to the workspace or to the sign-in form.                                 *)
LoadingEnds ==
  \A c \in Clients : page[c] = "checking" ~> page[c] # "checking"
=============================================================================
