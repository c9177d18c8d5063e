------------------------- MODULE AuthSessionsProofs -------------------------
(***************************************************************************)
(* What holds of the refresh sessions for every number of clients, users   *)
(* and requests and for every lifetime of a token.                         *)
(*                                                                         *)
(* The argument: the unique hash gives a new token to one request only, so *)
(* a token is held by at most one client or carried by one answer that is  *)
(* on its way, and only requests of its holder present it.  A held token is*)
(* therefore dead only while a request of its own client has killed it and *)
(* has not been answered yet.                                              *)
(***************************************************************************)
EXTENDS AuthSessions, TLAPS

\* A request that is being handled has a token; one that creates has a new one.
TypeInv ==
  /\ TypeOK
  /\ \A r \in Requests :
       /\ req[r].at # "idle" => req[r].token \in Token
       /\ req[r].at = "create" => req[r].new \in Token

LEMMA TypeInit == Init => TypeInv
  BY StoresAssumption, TimeAssumption
  DEF Init, TypeInv, TypeOK, Request, Idle, At, Kind, Page, Row

LEMMA TypeStep == TypeInv /\ [Next]_vars => TypeInv'
<1> SUFFICES ASSUME TypeInv, [Next]_vars PROVE TypeInv'
  OBVIOUS
<1> USE ClientsAssumption, StoresAssumption, TimeAssumption, NilAssumption
<1>0. \A r \in Requests : req[r] \in Request
  BY DEF TypeInv, TypeOK
<1>1. ASSUME NEW c \in Clients, LoadPage(c) PROVE TypeInv'
  BY <1>0, <1>1 DEF LoadPage, TypeInv, TypeOK, Request, Page
<1>2. ASSUME NEW r \in Requests, NEW c \in Clients, SendLogin(r, c) PROVE TypeInv'
  <2>1. User(c) \in Users
    BY DEF User
  <2>2. [user |-> User(c), iat |-> 0] \in Token
    BY <2>1 DEF Token
  <2> QED
    BY <1>0, <1>2, <2>2 DEF SendLogin, TypeInv, TypeOK, Request, At, Kind
<1>3. ASSUME NEW r \in Requests, NEW c \in Clients, NEW k \in {"refresh", "logout"}, Send(r, c, k)
      PROVE TypeInv'
  BY <1>0, <1>3 DEF Send, TypeInv, TypeOK, Request, At, Kind
<1>4. ASSUME NEW r \in Requests, req[r].at # "idle" PROVE Issued(r) \in Token
  <2>1. req[r].token \in Token
    BY <1>4 DEF TypeInv
  <2> QED
    BY <2>1 DEF Issued, Token, TypeInv, TypeOK
<1>5. ASSUME NEW r \in Requests, req[r].at # "idle", NEW at \in {"create", "reply"},
             req' = [req EXCEPT ![r].at = at, ![r].new = Issued(r)],
             session' \in [Token -> Row], ended' \subseteq Token,
             UNCHANGED <<store, now, holds, page, failed, faults>>
      PROVE TypeInv'
  <2>1. /\ req'[r] = [req[r] EXCEPT !.at = at, !.new = Issued(r)]
        /\ \A q \in Requests \ {r} : req'[q] = req[q]
        /\ req' = [q \in Requests |-> req'[q]]
    BY <1>5 DEF TypeInv, TypeOK
  <2>2. Issued(r) \in Token /\ req[r].token \in Token
    BY <1>4, <1>5 DEF TypeInv
  <2>3. /\ req'[r] \in Request
        /\ req'[r].token \in Token
        /\ req'[r].new \in Token
    <3>1. req[r] \in Request
      BY <1>0
    <3>2. at \in At
      BY DEF At
    <3> QED
      BY <2>1, <2>2, <3>1, <3>2 DEF Request
  <2>4. req' \in [Requests -> Request]
    BY <1>0, <2>1, <2>3
  <2>5. \A q \in Requests :
          /\ req'[q].at # "idle" => req'[q].token \in Token
          /\ req'[q].at = "create" => req'[q].new \in Token
    BY <2>1, <2>3 DEF TypeInv
  <2> QED
    BY <1>5, <2>4, <2>5 DEF TypeInv, TypeOK
<1>6. ASSUME NEW r \in Requests, req[r].at # "idle", Sign(r), session' \in [Token -> Row],
             UNCHANGED <<store, now, holds, page, failed, ended, faults>>
      PROVE TypeInv'
  BY <1>5, <1>6 DEF Sign, TypeInv, TypeOK
<1>7. Idle \in Request
  BY DEF Idle, Request, At, Kind
<1>8. ASSUME NEW r \in Requests, End(r), session' \in [Token -> Row],
             holds' \in [Clients -> Token \cup {Nil}], page' \in [Clients -> Page],
             failed' \subseteq Clients, ended' \subseteq Token, faults' \in 0 .. MaxFaults,
             UNCHANGED <<store, now>>
      PROVE TypeInv'
  <2>1. req' \in [Requests -> Request]
    BY <1>7, <1>8 DEF End, TypeInv, TypeOK
  <2>2. \A q \in Requests :
          /\ req'[q].at # "idle" => req'[q].token \in Token
          /\ req'[q].at = "create" => req'[q].new \in Token
    BY <1>8 DEF End, TypeInv, TypeOK, Idle
  <2> QED
    BY <2>1, <2>2, <1>8 DEF TypeInv, TypeOK
<1>9. ASSUME NEW r \in Requests PROVE Fails(r) => failed' \subseteq Clients
  BY <1>0 DEF Fails, Request, TypeInv, TypeOK
<1>10. ASSUME NEW r \in Requests, HandleLogin(r) PROVE TypeInv'
  <2>1. CASE Sign(r) /\ UNCHANGED <<session, ended>>
    BY <2>1, <1>10, <1>6 DEF HandleLogin, TypeInv, TypeOK
  <2>2. CASE IssueInMemory(r, session)
    <3>1. /\ session' \in [Token -> Row] /\ ended' \subseteq Token
          /\ req' = [req EXCEPT ![r].at = "reply", ![r].new = Issued(r)]
      BY <2>2 DEF IssueInMemory, TypeInv, TypeOK, Row
    <3> QED
      BY <3>1, <1>5, <1>10 DEF HandleLogin
  <2>3. CASE End(r) /\ UNCHANGED <<session, ended>>
    BY <2>3, <1>10, <1>8 DEF HandleLogin, TypeInv, TypeOK
  <2> QED
    BY <1>10, <2>1, <2>2, <2>3 DEF HandleLogin
<1>11. ASSUME NEW r \in Requests, HandleRefresh(r) PROVE TypeInv'
  <2> DEFINE t == req[r].token
  <2>1. [session EXCEPT ![t] = "rotated"] \in [Token -> Row]
    BY DEF TypeInv, TypeOK, Row
  <2>2. CASE ~Accepts(t) /\ End(r) /\ UNCHANGED <<session, ended>>
    BY <2>2, <1>8, <1>11 DEF HandleRefresh, TypeInv, TypeOK
  <2>3. CASE Goto(r, "rotate") /\ UNCHANGED <<session, ended>>
    BY <2>3, <1>0, <1>11 DEF HandleRefresh, Goto, TypeInv, TypeOK, Request, At
  <2>4. CASE IssueInMemory(r, [session EXCEPT ![t] = "rotated"])
    <3>1. /\ session' \in [Token -> Row] /\ ended' \subseteq Token
          /\ req' = [req EXCEPT ![r].at = "reply", ![r].new = Issued(r)]
      BY <2>1, <2>4 DEF IssueInMemory, TypeInv, TypeOK, Row
    <3> QED
      BY <3>1, <1>5, <1>11 DEF HandleRefresh
  <2> QED
    BY <1>11, <2>2, <2>3, <2>4 DEF HandleRefresh
<1>12. ASSUME NEW r \in Requests, Rotate(r) PROVE TypeInv'
  BY <1>12, <1>6 DEF Rotate, TypeInv, TypeOK, Row
<1>13. ASSUME NEW r \in Requests, Create(r) PROVE TypeInv'
  <2>1. CASE session[req[r].new] = "none"
    BY <2>1, <1>13, <1>0 DEF Create, Goto, TypeInv, TypeOK, Request, At, Row
  <2>2. CASE session[req[r].new] # "none"
    BY <2>2, <1>13, <1>8, <1>9 DEF Create, TypeInv, TypeOK
  <2> QED
    BY <2>1, <2>2
<1>14. ASSUME NEW r \in Requests, Revoke(r) PROVE TypeInv'
  <2>1. session' \in [Token -> Row]
    BY <1>14 DEF Revoke, TypeInv, TypeOK, Row
  <2>2. CASE Goto(r, "reply")
    BY <2>1, <2>2, <1>14, <1>0 DEF Revoke, Goto, TypeInv, TypeOK, Request, At
  <2>3. CASE End(r)
    BY <2>1, <2>3, <1>14, <1>8 DEF Revoke, TypeInv, TypeOK
  <2> QED
    BY <1>14, <2>2, <2>3 DEF Revoke
<1>15. ASSUME NEW r \in Requests, Answer(r) PROVE TypeInv'
  <2>1. /\ holds' \in [Clients -> Token \cup {Nil}]
        /\ page' \in [Clients -> Page]
        /\ ended' \subseteq Token
    <3>1. req[r].new \in Token \cup {Nil} /\ req[r].token \in Token
      BY <1>0, <1>15 DEF Answer, Request, TypeInv
    <3> QED
      BY <3>1, <1>15 DEF Answer, TypeInv, TypeOK, Page
  <2> QED
    BY <2>1, <1>15, <1>8 DEF Answer, TypeInv, TypeOK
<1>16. ASSUME NEW r \in Requests, Fail(r) PROVE TypeInv'
  <2>1. faults' \in 0 .. MaxFaults
    BY <1>16 DEF Fail, TypeInv, TypeOK
  <2> QED
    BY <2>1, <1>16, <1>8, <1>9 DEF Fail, TypeInv, TypeOK
<1>17. ASSUME Restart PROVE TypeInv'
  BY <1>0, <1>7, <1>17 DEF Restart, TypeInv, TypeOK, Request, Idle, Row
<1>18. ASSUME Tick PROVE TypeInv'
  BY <1>18 DEF Tick, TypeInv, TypeOK
<1>19. CASE UNCHANGED vars
  BY <1>19 DEF vars, TypeInv, TypeOK
<1> QED
  BY <1>1, <1>2, <1>3, <1>10, <1>11, <1>12, <1>13, <1>14, <1>15, <1>16, <1>17, <1>18, <1>19
  DEF Next, Handle, SendRefresh, SendLogout

(* Every variable of the refresh sessions keeps its type (auth.service.ts,  *)
(* dashboard.tsx).                                                          *)
THEOREM TypeCorrect == Spec => []TypeInv
  BY TypeInit, TypeStep, PTL DEF Spec

-----------------------------------------------------------------------------
\* The answer of r carries a token to its client.
Carries(r) == req[r].at = "reply" /\ req[r].new # Nil
Presents(r) == req[r].kind # "login"

\* A token has one place: a client, or an answer on its way to one.
OwnInv ==
  /\ \A c \in Clients : holds[c] # Nil => session[holds[c]] # "none"
  /\ \A c, d \in Clients : c # d /\ holds[c] = holds[d] => holds[c] = Nil
  /\ \A r, q \in Requests : r # q /\ Carries(r) /\ Carries(q) => req[r].new # req[q].new
  /\ \A r \in Requests, c \in Clients : Carries(r) => holds[c] # req[r].new

\* Only requests of its holder present a token, and none presents a carried one.
PresentInv ==
  \A r \in Requests :
    /\ req[r].at \in {"rotate", "revoke"} => Presents(r)
    /\ req[r].at \in {"find", "rotate", "revoke"} => req[r].new = Nil
    /\ Presents(r) =>
       /\ req[r].client \in Clients /\ req[r].token \in Token
       /\ session[req[r].token] # "none"
       /\ \A q \in Requests : Carries(q) => req[r].token # req[q].new
       /\ \A c \in Clients \ {req[r].client} : holds[c] # req[r].token

Killed(r) == Presents(r) /\ req[r].at \in {"create", "reply"}

LiveInv ==
  /\ \A r \in Requests : Carries(r) => session[req[r].new] = "live"
  /\ \A r \in Requests : Killed(r) => session[req[r].token] # "live"
  /\ \A c \in Clients \ failed :
       holds[c] # Nil /\ session[holds[c]] # "live" =>
         \E r \in Requests : Killed(r) /\ req[r].client = c /\ req[r].token = holds[c]

DatabaseInv == store = "database" => OwnInv /\ PresentInv /\ LiveInv

\* In memory a handler has no await between the token's end and the next one.
CutInv == \A r \in Requests : req[r].at \in {"rotate", "create"} => store = "database"
GoneInv == \A t \in ended : session[t] # "live" /\ (store = "database" => session[t] # "none")
EndedInv == CutInv /\ GoneInv

LEMMA DatabaseInit == Init => DatabaseInv /\ EndedInv
  BY DEF Init, DatabaseInv, EndedInv, CutInv, GoneInv, OwnInv, PresentInv, LiveInv, Carries, Presents, Killed, Idle

\* The places of tokens are as they were: a request may have ended or begun.
LEMMA DatabaseStep == TypeInv /\ DatabaseInv /\ [Next]_vars => DatabaseInv'
<1> SUFFICES ASSUME TypeInv, DatabaseInv, [Next]_vars, store' = "database"
             PROVE (OwnInv /\ PresentInv /\ LiveInv)'
  BY DEF DatabaseInv
<1>0. store = "database" /\ OwnInv /\ PresentInv /\ LiveInv
  BY DEF Next, vars, Handle, LoadPage, SendLogin, SendRefresh, SendLogout, Send, HandleLogin,
         HandleRefresh, Rotate, Create, Revoke, Answer, Fail, Restart, Tick, DatabaseInv
<1>a. /\ holds \in [Clients -> Token \cup {Nil}] /\ session \in [Token -> Row]
      /\ req \in [Requests -> Request] /\ failed \subseteq Clients
  BY DEF TypeInv, TypeOK
<1> USE NilAssumption, ClientsAssumption
<1> USE DEF Carries, Presents, Killed
<1>1. ASSUME NEW c \in Clients, LoadPage(c) PROVE (OwnInv /\ PresentInv /\ LiveInv)'
  <2>1. \A r \in Requests :
          /\ Carries(r)' = Carries(r) /\ Presents(r)' = Presents(r) /\ Killed(r)' = Killed(r)
          /\ req'[r].token = req[r].token /\ req'[r].new = req[r].new
          /\ Presents(r) => req'[r].client = req[r].client
    BY <1>a, <1>1 DEF LoadPage, Request
  <2> QED
    BY <1>0, <1>1, <2>1 DEF LoadPage, OwnInv, PresentInv, LiveInv
\* A request that changes no token's place and presents nothing new.
<1>2. ASSUME NEW r \in Requests,
             \A q \in Requests \ {r} : req'[q] = req[q],
             ~Carries(r)', Presents(r)' => Presents(r),
             req'[r].at \in {"rotate", "revoke"} => Presents(r)',
             req'[r].at \in {"find", "rotate", "revoke"} => req'[r].new = Nil,
             Presents(r)' => req'[r].client = req[r].client /\ req'[r].token = req[r].token,
             Killed(r) => Killed(r)' \/ req[r].client \in failed',
             Killed(r)' => session[req[r].token] # "live",
             failed \subseteq failed', UNCHANGED <<session, holds>>
      PROVE (OwnInv /\ PresentInv /\ LiveInv)'
  <2>1. OwnInv'
    BY <1>0, <1>2 DEF OwnInv
  <2>2. PresentInv'
    BY <1>0, <1>2 DEF PresentInv
  <2>3. LiveInv'
    BY <1>0, <1>2 DEF LiveInv
  <2> QED
    BY <2>1, <2>2, <2>3
<1>3. ASSUME NEW r \in Requests, End(r),
             Killed(r) => req[r].client \in failed',
             failed \subseteq failed', UNCHANGED <<session, holds>>
      PROVE (OwnInv /\ PresentInv /\ LiveInv)'
  <2>1. req'[r] = Idle /\ \A q \in Requests \ {r} : req'[q] = req[q]
    BY <1>a, <1>3 DEF End
  <2> QED
    BY <1>2, <1>3, <2>1 DEF Idle
<1>4. ASSUME NEW r \in Requests, NEW c \in Clients, SendLogin(r, c)
      PROVE (OwnInv /\ PresentInv /\ LiveInv)'
  <2>1. /\ \A q \in Requests \ {r} : req'[q] = req[q]
        /\ req'[r].kind = "login" /\ req'[r].at = "find" /\ req[r].at = "idle"
        /\ req'[r].new = Nil
    BY <1>a, <1>4 DEF SendLogin
  <2> QED
    BY <1>2, <1>4, <2>1 DEF SendLogin
<1>5. ASSUME NEW r \in Requests, NEW c \in Clients, NEW k \in {"refresh", "logout"}, Send(r, c, k)
      PROVE (OwnInv /\ PresentInv /\ LiveInv)'
  <2>1. /\ \A q \in Requests \ {r} : req'[q] = req[q]
        /\ req'[r].kind = k /\ req'[r].at \in {"find", "revoke"} /\ req[r].at = "idle"
        /\ req'[r].client = c /\ req'[r].token = holds[c] /\ holds[c] \in Token
        /\ req'[r].new = Nil
    BY <1>a, <1>5 DEF Send
  <2>2. OwnInv'
    BY <1>0, <1>5, <2>1 DEF OwnInv, Send
  <2>3. PresentInv'
    BY <1>0, <1>5, <2>1 DEF PresentInv, OwnInv, Send
  <2>4. LiveInv'
    BY <1>0, <1>5, <2>1 DEF LiveInv, Send
  <2> QED
    BY <2>2, <2>3, <2>4
<1>6. ASSUME NEW r \in Requests, Sign(r), req[r].at \in {"find", "rotate"},
             Presents(r) => session[req[r].token] # "live",
             UNCHANGED <<session, holds, failed>>
      PROVE (OwnInv /\ PresentInv /\ LiveInv)'
  <2>1. /\ \A q \in Requests \ {r} : req'[q] = req[q]
        /\ req'[r].at = "create" /\ req'[r].kind = req[r].kind
        /\ req'[r].client = req[r].client /\ req'[r].token = req[r].token
    BY <1>a, <1>6 DEF Sign, Request
  <2> QED
    BY <1>2, <1>6, <2>1
<1>7. ASSUME NEW r \in Requests, HandleLogin(r) PROVE (OwnInv /\ PresentInv /\ LiveInv)'
  BY <1>0, <1>3, <1>6, <1>7 DEF HandleLogin
<1>8. ASSUME NEW r \in Requests, HandleRefresh(r) PROVE (OwnInv /\ PresentInv /\ LiveInv)'
  <2>1. CASE Goto(r, "rotate") /\ UNCHANGED session
    <3>1. /\ \A q \in Requests \ {r} : req'[q] = req[q]
          /\ req'[r].at = "rotate" /\ req'[r].kind = req[r].kind /\ req[r].at = "find"
          /\ req'[r].client = req[r].client /\ req'[r].token = req[r].token
          /\ req'[r].new = req[r].new /\ Presents(r)
      BY <1>a, <1>8, <2>1 DEF Goto, HandleRefresh, Request
    <3>2. req[r].new = Nil
      BY <1>0, <3>1 DEF PresentInv
    <3>3. UNCHANGED <<session, holds, failed>>
      BY <1>8, <2>1 DEF HandleRefresh
    <3> QED
      BY <1>2, <3>1, <3>2, <3>3
  <2>2. CASE End(r) /\ UNCHANGED session
    BY <1>3, <1>8, <2>2 DEF HandleRefresh
  <2> QED
    BY <1>0, <1>8, <2>1, <2>2 DEF HandleRefresh
\* A request kills the token that it presents: its client waits for the answer.
<1>9. ASSUME NEW r \in Requests, req[r].at \in {"rotate", "revoke"}, Presents(r),
             \A q \in Requests \ {r} : req'[q] = req[q],
             Killed(r)', ~Carries(r)',
             req'[r].client = req[r].client, req'[r].token = req[r].token,
             NEW row \in {"rotated", "logout"}, session' = [session EXCEPT ![req[r].token] = row],
             UNCHANGED <<holds, failed>>
      PROVE (OwnInv /\ PresentInv /\ LiveInv)'
  <2>1. /\ req[r].token \in Token
        /\ session'[req[r].token] = row
        /\ \A t \in Token \ {req[r].token} : session'[t] = session[t]
    BY <1>0, <1>9, <1>a DEF PresentInv
  <2>2. \A q \in Requests : Carries(q) => req[q].new \in Token
    BY <1>a DEF Request
  <2>3. OwnInv'
    BY <1>0, <1>9, <1>a, <2>1 DEF OwnInv
  <2>4. PresentInv'
    BY <1>0, <1>9, <2>1 DEF PresentInv
  <2>5. LiveInv'
    <3>1. \A q \in Requests : Carries(q)' => session'[req'[q].new] = "live"
      BY <1>0, <1>9, <2>1, <2>2 DEF LiveInv, PresentInv
    <3>2. \A q \in Requests : Killed(q)' => session'[req'[q].token] # "live"
      BY <1>0, <1>9, <2>1 DEF LiveInv, PresentInv
    <3>3. ASSUME NEW c \in Clients \ failed, holds[c] # Nil, session'[holds[c]] # "live"
          PROVE \E q \in Requests : Killed(q)' /\ req'[q].client = c /\ req'[q].token = holds[c]
      <4>1. CASE holds[c] = req[r].token
        BY <1>0, <1>9, <3>3, <4>1 DEF PresentInv
      <4>2. CASE holds[c] # req[r].token
        <5>1. session[holds[c]] # "live"
          BY <1>a, <2>1, <3>3, <4>2
        <5>2. PICK q \in Requests : Killed(q) /\ req[q].client = c /\ req[q].token = holds[c]
          BY <1>0, <3>3, <5>1 DEF LiveInv
        <5> QED
          BY <1>9, <5>2
      <4> QED
        BY <4>1, <4>2
    <3> QED
      BY <1>9, <3>1, <3>2, <3>3 DEF LiveInv
  <2> QED
    BY <2>3, <2>4, <2>5
<1>10. ASSUME NEW r \in Requests, Rotate(r) PROVE (OwnInv /\ PresentInv /\ LiveInv)'
  <2>1. /\ \A q \in Requests \ {r} : req'[q] = req[q]
        /\ req'[r].at = "create" /\ req'[r].kind = req[r].kind /\ req[r].at = "rotate"
        /\ req'[r].client = req[r].client /\ req'[r].token = req[r].token
    BY <1>a, <1>10 DEF Rotate, Sign, Request
  <2>2. Presents(r)
    BY <1>0, <2>1 DEF PresentInv
  <2> QED
    BY <1>9, <1>10, <2>1, <2>2 DEF Rotate
<1>11. ASSUME NEW r \in Requests, Create(r) PROVE (OwnInv /\ PresentInv /\ LiveInv)'
  <2>1. req[r].new \in Token /\ req[r].at = "create"
    BY <1>11 DEF Create, TypeInv
  <2>2. CASE session[req[r].new] = "none"
    <3> DEFINE new == req[r].new
    <3>1. /\ session'[new] = "live" /\ session[new] = "none" /\ new # Nil
          /\ \A t \in Token \ {new} : session'[t] = session[t]
          /\ UNCHANGED <<holds, failed>>
      BY <1>a, <1>11, <2>1, <2>2 DEF Create
    <3>2. /\ \A q \in Requests \ {r} : req'[q] = req[q]
          /\ req'[r].at = "reply" /\ req'[r].new = new /\ req'[r].kind = req[r].kind
          /\ req'[r].client = req[r].client /\ req'[r].token = req[r].token
      BY <1>a, <1>11, <2>2 DEF Create, Goto, Request
    <3>3. \A q \in Requests : Carries(q) => req[q].new \in Token /\ session[req[q].new] = "live"
      BY <1>0, <1>a DEF LiveInv, Request
    <3>4. \A c \in Clients : holds[c] # Nil => holds[c] \in Token /\ session[holds[c]] # "none"
      BY <1>0, <1>a DEF OwnInv
    <3> HIDE DEF new
    <3>5. OwnInv'
      BY <1>0, <1>a, <2>1, <3>1, <3>2, <3>3, <3>4 DEF OwnInv
    <3>6. PresentInv'
      BY <1>0, <1>a, <2>1, <3>1, <3>2, <3>3, <3>4 DEF PresentInv
    <3>7. LiveInv'
      <4>1. \A q \in Requests : Carries(q)' => session'[req'[q].new] = "live"
        BY <3>1, <3>2, <3>3
      <4>2. \A q \in Requests : Killed(q)' => session'[req'[q].token] # "live"
        BY <1>0, <2>1, <3>1, <3>2 DEF LiveInv, PresentInv
      <4>3. \A c \in Clients \ failed : holds[c] # Nil /\ session'[holds[c]] # "live" =>
              \E q \in Requests : Killed(q)' /\ req'[q].client = c /\ req'[q].token = holds[c]
        BY <1>0, <2>1, <3>1, <3>2, <3>4 DEF LiveInv
      <4> QED
        BY <3>1, <4>1, <4>2, <4>3 DEF LiveInv
    <3> QED
      BY <3>5, <3>6, <3>7
  <2>3. CASE session[req[r].new] # "none"
    <3>1. Killed(r) => req[r].client \in failed'
      BY <1>0, <1>11, <2>3 DEF Create, Fails, PresentInv
    <3> QED
      BY <1>3, <1>11, <2>3, <3>1 DEF Create, Fails
  <2> QED
    BY <2>2, <2>3
<1>12. ASSUME NEW r \in Requests, Revoke(r) PROVE (OwnInv /\ PresentInv /\ LiveInv)'
  <2> DEFINE valid == AccessValid(req[r].token) /\ RefreshValid(req[r].token)
  <2>1. CASE ~valid
    BY <1>3, <1>12, <2>1 DEF Revoke
  <2>2. CASE valid
    <3>1. /\ \A q \in Requests \ {r} : req'[q] = req[q]
          /\ req'[r].at = "reply" /\ req'[r].kind = req[r].kind /\ req[r].at = "revoke"
          /\ req'[r].client = req[r].client /\ req'[r].token = req[r].token
          /\ req'[r].new = req[r].new
      BY <1>a, <1>12, <2>2 DEF Revoke, Goto, Request
    <3>2. Presents(r) /\ req[r].new = Nil
      BY <1>0, <3>1 DEF PresentInv
    <3>3. CASE session[req[r].token] = "live" /\ session' = [session EXCEPT ![req[r].token] = "logout"]
      BY <1>9, <1>12, <3>1, <3>2, <3>3 DEF Revoke
    <3>4. CASE session[req[r].token] # "live" /\ session' = session
      BY <1>2, <1>12, <3>1, <3>2, <3>4 DEF Revoke
    <3>5. \/ session[req[r].token] = "live" /\ session' = [session EXCEPT ![req[r].token] = "logout"]
          \/ session[req[r].token] # "live" /\ session' = session
      BY <1>12, <2>2 DEF Revoke
    <3> QED
      BY <3>3, <3>4, <3>5
  <2> QED
    BY <2>1, <2>2
<1>13. ASSUME NEW r \in Requests, Answer(r) PROVE (OwnInv /\ PresentInv /\ LiveInv)'
  <2>1. req'[r] = Idle /\ \A q \in Requests \ {r} : req'[q] = req[q]
    BY <1>a, <1>13 DEF Answer, End
  <2>2. CASE req[r].client = Nil
    BY <1>0, <1>3, <1>13, <2>2 DEF Answer, PresentInv
  <2>3. CASE req[r].client # Nil
    <3> DEFINE c == req[r].client  new == req[r].new
    <3>1. /\ c \in Clients /\ holds'[c] = new /\ new \in Token \cup {Nil}
          /\ \A d \in Clients \ {c} : holds'[d] = holds[d]
          /\ UNCHANGED <<session, failed>>
      BY <1>a, <1>13, <2>3 DEF Answer, Request
    <3>2. new # Nil => Carries(r)
      BY <1>13 DEF Answer
    <3>3. ~Carries(r)' /\ ~Presents(r)' /\ ~Killed(r)'
      BY <2>1 DEF Idle
    <3>4. req'[r].at = "idle"
      BY <2>1 DEF Idle
    <3>5. new # Nil => session[new] = "live"
      BY <1>0, <3>2 DEF LiveInv
    <3> HIDE DEF c, new
    <3>6. \A q \in Requests \ {r} : Carries(q) /\ new # Nil => req[q].new # new
      BY <1>0, <3>2 DEF OwnInv, new
    <3>7. \A d \in Clients : new # Nil => holds[d] # new
      BY <1>0, <3>2 DEF OwnInv, new
    <3>8. \A q \in Requests : Presents(q) /\ new # Nil => req[q].token # new
      BY <1>0, <3>2 DEF PresentInv, new
    <3>9. OwnInv'
      BY <1>0, <2>1, <3>1, <3>3, <3>5, <3>6, <3>7 DEF OwnInv
    <3>10. PresentInv'
      BY <1>0, <2>1, <3>1, <3>3, <3>4, <3>8 DEF PresentInv
    <3>11. LiveInv'
      <4>1. \A d \in Clients \ failed : holds'[d] # Nil /\ session[holds'[d]] # "live" =>
              \E q \in Requests : Killed(q)' /\ req'[q].client = d /\ req'[q].token = holds'[d]
        <5> SUFFICES ASSUME NEW d \in Clients \ failed, holds'[d] # Nil, session[holds'[d]] # "live"
                     PROVE \E q \in Requests : Killed(q)' /\ req'[q].client = d /\ req'[q].token = holds'[d]
          OBVIOUS
        <5>1. d # c /\ holds'[d] = holds[d]
          BY <3>1, <3>5
        <5>2. PICK q \in Requests : Killed(q) /\ req[q].client = d /\ req[q].token = holds[d]
          BY <1>0, <5>1 DEF LiveInv
        <5>3. q # r
          BY <5>1, <5>2 DEF c
        <5> QED
          BY <2>1, <5>1, <5>2, <5>3
      <4> QED
        BY <1>0, <2>1, <3>1, <3>3, <4>1 DEF LiveInv
    <3> QED
      BY <3>9, <3>10, <3>11
  <2> QED
    BY <2>2, <2>3
<1>14. ASSUME NEW r \in Requests, Fail(r) PROVE (OwnInv /\ PresentInv /\ LiveInv)'
  BY <1>0, <1>3, <1>14 DEF Fail, Fails, PresentInv
<1>15. ASSUME Restart PROVE (OwnInv /\ PresentInv /\ LiveInv)'
  <2>1. /\ \A r \in Requests : req'[r] = Idle
        /\ UNCHANGED <<session, holds>>
        /\ \A r \in Requests : Presents(r) => req[r].client \in failed'
        /\ failed \subseteq failed'
    BY <1>0, <1>15 DEF Restart, PresentInv
  <2>2. \A r \in Requests : ~Carries(r)' /\ ~Presents(r)' /\ ~Killed(r)' /\ req'[r].at = "idle"
    BY <2>1 DEF Idle
  <2> QED
    BY <1>0, <2>1, <2>2 DEF OwnInv, PresentInv, LiveInv
<1>16. CASE Tick \/ UNCHANGED vars
  BY <1>0, <1>16 DEF Tick, vars, OwnInv, PresentInv, LiveInv
<1> QED
  BY <1>1, <1>4, <1>5, <1>7, <1>8, <1>10, <1>11, <1>12, <1>13, <1>14, <1>15, <1>16
  DEF Next, Handle, SendRefresh, SendLogout

(* No two clients hold one refresh token: of two logins of a user in one    *)
(* second only one is answered (auth.service.ts, issue).                    *)
THEOREM HoldersDistinct == Spec => []OneHolder
<1>1. DatabaseInv => OneHolder
  BY DEF DatabaseInv, OwnInv, OneHolder
<1> QED
  BY <1>1, TypeInit, TypeStep, DatabaseInit, DatabaseStep, PTL DEF Spec

(* The token a client saved last is usable unless one of its own requests   *)
(* failed (auth.service.ts, refresh and logout).                            *)
THEOREM HeldLives == Spec => []HeldIsLive
<1>1. DatabaseInv => HeldIsLive
  BY DEF DatabaseInv, LiveInv, HeldIsLive
<1> QED
  BY <1>1, TypeInit, TypeStep, DatabaseInit, DatabaseStep, PTL DEF Spec

-----------------------------------------------------------------------------
\* Where a request goes in one step, and who lets it.
LEMMA Moves ==
  ASSUME TypeInv, [Next]_vars, NEW r \in Requests, req'[r].at # req[r].at
  PROVE  \/ HandleLogin(r) \/ HandleRefresh(r)
         \/ req[r].at = "rotate" /\ req'[r].at = "create"
         \/ req'[r].at \in {"idle", "find", "revoke"}
         \/ req[r].at \in {"create", "revoke"} /\ req'[r].at = "reply"
<1>a. req \in [Requests -> Request]
  BY DEF TypeInv, TypeOK
<1>1. ASSUME NEW c \in Clients, LoadPage(c) PROVE FALSE
  BY <1>a, <1>1 DEF LoadPage, Request
<1>2. ASSUME NEW q \in Requests, NEW c \in Clients,
             SendLogin(q, c) \/ SendRefresh(q, c) \/ SendLogout(q, c)
      PROVE req'[r].at \in {"idle", "find", "revoke"}
  BY <1>a, <1>2 DEF SendLogin, SendRefresh, SendLogout, Send
<1>3. ASSUME NEW q \in Requests, HandleLogin(q) \/ HandleRefresh(q) PROVE q = r
  <2>1. CASE End(q) \/ Goto(q, "rotate") \/ Sign(q)
    BY <1>a, <2>1 DEF End, Goto, Sign
  <2>2. CASE IssueInMemory(q, session) \/ IssueInMemory(q, [session EXCEPT ![req[q].token] = "rotated"])
    BY <1>a, <2>2 DEF IssueInMemory
  <2> QED
    BY <1>3, <2>1, <2>2 DEF HandleLogin, HandleRefresh
<1>4. ASSUME NEW q \in Requests, Rotate(q)
      PROVE req[r].at = "rotate" /\ req'[r].at = "create"
  BY <1>a, <1>4 DEF Rotate, Sign
<1>5. ASSUME NEW q \in Requests, Create(q) \/ Revoke(q)
      PROVE \/ req'[r].at = "idle"
            \/ req[r].at \in {"create", "revoke"} /\ req'[r].at = "reply"
  <2>1. req[q].at \in {"create", "revoke"} /\ (End(q) \/ Goto(q, "reply"))
    BY <1>5 DEF Create, Revoke
  <2>2. CASE End(q)
    BY <1>a, <2>2 DEF End, Idle
  <2>3. CASE Goto(q, "reply")
    BY <1>a, <2>1, <2>3 DEF Goto
  <2> QED
    BY <2>1, <2>2, <2>3
<1>6. ASSUME NEW q \in Requests, Answer(q) \/ Fail(q) PROVE req'[r].at = "idle"
  BY <1>a, <1>6 DEF Answer, Fail, End, Idle
<1>7. ASSUME Restart PROVE req'[r].at = "idle"
  BY <1>7 DEF Restart, Idle
<1>8. CASE Tick \/ UNCHANGED vars
  BY <1>8 DEF Tick, vars
<1> QED
  BY <1>1, <1>2, <1>3, <1>4, <1>5, <1>6, <1>7, <1>8 DEF Next, Handle

LEMMA EndedStep == TypeInv /\ DatabaseInv /\ EndedInv /\ [Next]_vars => EndedInv'
<1> SUFFICES ASSUME TypeInv, DatabaseInv, EndedInv, [Next]_vars PROVE EndedInv'
  OBVIOUS
<1>a. session \in [Token -> Row] /\ req \in [Requests -> Request] /\ ended \subseteq Token
  BY DEF TypeInv, TypeOK
<1>b. CutInv /\ GoneInv
  BY DEF EndedInv
<1>c. CutInv'
  <2>1. store' = store
    BY DEF Next, vars, Handle, LoadPage, SendLogin, SendRefresh, SendLogout, Send, HandleLogin,
           HandleRefresh, Rotate, Create, Revoke, Answer, Fail, Restart, Tick
  <2> SUFFICES ASSUME NEW r \in Requests, req'[r].at \in {"rotate", "create"}
               PROVE store = "database"
    BY <2>1 DEF CutInv
  <2>2. CASE req'[r].at = req[r].at \/ req[r].at = "rotate"
    BY <1>b, <2>2 DEF CutInv
  <2>3. CASE HandleLogin(r) \/ HandleRefresh(r)
    <3>1. \/ store = "database" \/ End(r) \/ IssueInMemory(r, session)
          \/ IssueInMemory(r, [session EXCEPT ![req[r].token] = "rotated"])
      BY <2>3 DEF HandleLogin, HandleRefresh
    <3>2. End(r) => req'[r].at = "idle"
      BY <1>a DEF End, Idle
    <3>3. ASSUME NEW e, req' = [req EXCEPT ![r].at = "reply", ![r].new = e]
          PROVE req'[r].at = "reply"
      BY <1>a, <3>3 DEF Request
    <3> QED
      BY <3>1, <3>2, <3>3 DEF IssueInMemory
  <2> QED
    BY <2>2, <2>3, Moves
<1>1. ASSUME UNCHANGED <<store, session, ended>> PROVE GoneInv'
  BY <1>b, <1>1 DEF GoneInv
\* In memory a token that is issued is no longer an ended one.
<1>2. ASSUME NEW r \in Requests, HandleLogin(r) \/ HandleRefresh(r) PROVE GoneInv'
  <2>1. CASE UNCHANGED <<session, ended>>
    BY <1>2, <1>b, <2>1 DEF HandleLogin, HandleRefresh, GoneInv
  <2>2. ASSUME store' = store, store = "memory", ended' = ended \ {Issued(r)},
               \A t \in Token \ {Issued(r)} : session'[t] # "live" \/ session'[t] = session[t]
        PROVE GoneInv'
    BY <1>a, <1>b, <2>2 DEF GoneInv
  <2>3. CASE store = "memory" /\ IssueInMemory(r, session)
    BY <1>2, <1>a, <2>2, <2>3 DEF HandleLogin, HandleRefresh, IssueInMemory
  <2>4. CASE store = "memory" /\ IssueInMemory(r, [session EXCEPT ![req[r].token] = "rotated"])
    BY <1>2, <1>a, <2>2, <2>4 DEF HandleLogin, HandleRefresh, IssueInMemory
  <2> QED
    BY <1>2, <2>1, <2>3, <2>4 DEF HandleLogin, HandleRefresh
<1>3. ASSUME NEW r \in Requests, Rotate(r) \/ Revoke(r) PROVE GoneInv'
  <2>1. /\ store' = store /\ ended' = ended
        /\ \A t \in Token : session'[t] = session[t] \/ session'[t] \in {"rotated", "logout"}
    BY <1>3, <1>a DEF Rotate, Revoke
  <2> QED
    BY <1>a, <1>b, <2>1 DEF GoneInv
<1>4. ASSUME NEW r \in Requests, Create(r) PROVE GoneInv'
  <2>1. CASE session[req[r].new] # "none"
    BY <1>4, <1>b, <2>1 DEF Create, GoneInv
  <2>2. CASE session[req[r].new] = "none"
    BY <1>4, <1>a, <1>b, <2>2 DEF Create, CutInv, GoneInv
  <2> QED
    BY <2>1, <2>2
<1>5. ASSUME NEW r \in Requests, Answer(r) PROVE GoneInv'
  <2>1. UNCHANGED <<store, session>> /\ ended' \subseteq ended \cup {req[r].token}
    BY <1>5 DEF Answer
  <2>2. CASE req[r].token \in ended' \ ended
    <3>1. Killed(r)
      BY <1>5, <2>2 DEF Answer, Killed, Presents
    <3>a. ~(store = "memory" /\ session[req[r].token] = "live")
      BY <1>5, <2>2 DEF Answer
    <3>b. store \in {"database", "memory"}
      BY StoresAssumption DEF TypeInv, TypeOK
    <3>2. store # "database" => session[req[r].token] # "live"
      BY <3>a, <3>b
    <3>3. store = "database" => session[req[r].token] \notin {"live", "none"}
      BY <3>1 DEF DatabaseInv, LiveInv, PresentInv, Killed
    <3> QED
      BY <1>b, <2>1, <3>2, <3>3 DEF GoneInv
  <2> QED
    BY <1>b, <2>1, <2>2 DEF GoneInv
<1>6. ASSUME Restart PROVE GoneInv'
  <2>1. /\ store' = store /\ ended' = ended
        /\ \A t \in Token : session'[t] = session[t] \/ (store = "memory" /\ session'[t] = "none")
    BY <1>6 DEF Restart
  <2> QED
    BY <1>a, <1>b, <2>1 DEF GoneInv
<1>7. ASSUME \/ \E c \in Clients : LoadPage(c)
             \/ \E r \in Requests, c \in Clients :
                  SendLogin(r, c) \/ SendRefresh(r, c) \/ SendLogout(r, c)
             \/ \E r \in Requests : Fail(r)
             \/ Tick \/ UNCHANGED vars
      PROVE GoneInv'
  BY <1>1, <1>7 DEF LoadPage, SendLogin, SendRefresh, SendLogout, Send, Fail, Tick, vars
<1>8. GoneInv'
  BY <1>2, <1>3, <1>4, <1>5, <1>6, <1>7 DEF Next, Handle
<1> QED
  BY <1>c, <1>8 DEF EndedInv

(* A spent token stays refused (auth.service.ts, refresh).                  *)
THEOREM SpentRefused == Spec => EndedStaysEnded
<1>1. TypeInv /\ EndedInv /\ [Next]_vars =>
        [\A r \in Requests :
           /\ req[r].at = "find" /\ req[r].kind = "refresh"
           /\ req'[r].at \in {"rotate", "reply"}
           => req[r].token \notin ended]_vars
  <2> SUFFICES ASSUME TypeInv, EndedInv, [Next]_vars, NEW r \in Requests,
                      req[r].at = "find", req[r].kind = "refresh",
                      req'[r].at \in {"rotate", "reply"}
               PROVE req[r].token \notin ended
    OBVIOUS
  <2>1. req \in [Requests -> Request]
    BY DEF TypeInv, TypeOK
  <2>2. HandleRefresh(r)
    BY Moves DEF HandleLogin
  <2>3. Accepts(req[r].token)
    BY <2>1, <2>2 DEF HandleRefresh, End, Idle
  <2> QED
    BY <2>3 DEF Accepts, EndedInv, GoneInv
<1> QED
  BY <1>1, TypeInit, TypeStep, DatabaseInit, DatabaseStep, EndedStep, PTL
  DEF Spec, EndedStaysEnded
=============================================================================
