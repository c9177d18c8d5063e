------------------------ MODULE ProviderPoolsProofs ------------------------
(***************************************************************************)
(* Routing for every pool, quota and file: what simulateRoute selects, and *)
(* that a pool, which may name accounts of any workspace, still keeps to   *)
(* its own.                                                                *)
(***************************************************************************)
EXTENDS ProviderPools, WellFoundedInduction, TLAPS

LEMMA LeastNatural ==
  ASSUME NEW T \in SUBSET Nat, T # {}
  PROVE  \E n \in T : \A k \in T : n <= k
<1>1. PICK n \in T : \A k \in T : ~(<<k, n>> \in OpToRel(<, Nat))
  BY WFMin, NatLessThanWellFounded
<1>2. \A k \in T : ~(k < n)
  BY <1>1 DEF OpToRel
<1> QED
  BY <1>2

-----------------------------------------------------------------------------
(* The lists of a pool.  Its members have a domain of natural numbers: the  *)
(* positions in the list, of which some may be left out.                    *)

MemberList(members) ==
  /\ DOMAIN members \subseteq Nat
  /\ \A i \in DOMAIN members : members[i] \in Membership

\* A non-empty set of entries has a first one.
LEMMA FirstExists ==
  ASSUME NEW members, MemberList(members), NEW S \in SUBSET DOMAIN members, S # {}
  PROVE  /\ First(S, members) \in S
         /\ \A j \in S : j = First(S, members) \/ Before(members, First(S, members), j)
<1> DEFINE P == {members[i].priority : i \in S}
<1>0. \A i \in S : members[i].priority \in Nat /\ i \in Nat
  BY DEF MemberList, Membership
<1>a. P \in SUBSET Nat /\ P # {}
  BY <1>0
<1>1. PICK p \in P : \A k \in P : p <= k
  BY <1>a, LeastNatural
<1> DEFINE T == {i \in S : members[i].priority = p}
<1>2. T \in SUBSET Nat /\ T # {}
  BY <1>0
<1>3. PICK n \in T : \A k \in T : n <= k
  BY <1>2, LeastNatural
<1>4. ASSUME NEW j \in S, j # n PROVE Before(members, n, j)
  <2>1. members[n].priority <= members[j].priority /\ members[n].priority = p
    BY <1>1
  <2>2. CASE members[j].priority = p
    BY <1>0, <1>3, <1>4, <2>1, <2>2 DEF Before
  <2>3. CASE members[j].priority # p
    BY <1>0, <1>4, <2>1, <2>3 DEF Before
  <2> QED
    BY <2>2, <2>3
<1> QED
  BY <1>4 DEF First

-----------------------------------------------------------------------------
(* Scores.                                                                  *)

\* What the rows of the database can tell of an account.
KnownAccounts(view) ==
  /\ DOMAIN view \subseteq Accounts
  /\ \A a \in DOMAIN view : view[a] \in AccountView

LEMMA ScoreBounds ==
  ASSUME NEW f \in File, NEW a \in AccountView
  PROVE  CapacityScore(f, a) \in 0 .. 50
<1> DEFINE remaining == a.quota.remaining
           size == IF f.size = 0 THEN 1 ELSE f.size
           score == (10 * remaining + size) \div (2 * size)
<1>1. size \in Nat \ {0} /\ remaining \in Nat \cup {Nil}
  BY DEF File, AccountView, Quota, Optional
<1>2. ASSUME remaining \in Nat PROVE score \in Nat
  <2>1. \A x \in Nat, y \in Nat \ {0} : x \div y \in Nat
    OBVIOUS
  <2> HIDE DEF remaining, size
  <2>2. 10 * remaining + size \in Nat /\ 2 * size \in Nat \ {0}
    BY <1>1, <1>2
  <2> QED
    BY <2>1, <2>2
<1>3. CapacityScore(f, a) = IF remaining \in {Nil, 0} THEN IF a.provider = "telegram" THEN 50 ELSE 0
                            ELSE IF remaining < f.size THEN 0 ELSE IF score > 50 THEN 50 ELSE score
  BY DEF CapacityScore
<1> HIDE DEF score, size, remaining
<1> QED
  BY <1>1, <1>2, <1>3

\* A non-empty set of accepted entries has a best one.
LEMMA BestExists ==
  ASSUME NEW f \in File, NEW members, MemberList(members), NEW view, KnownAccounts(view),
         NEW S \in SUBSET Accepted(f, members, view), S # {}
  PROVE  /\ Best(S, f, members, view) \in S
         /\ \A j \in S : j = Best(S, f, members, view)
                         \/ Better(f, members, view, Best(S, f, members, view), j)
<1> DEFINE score(i) == Score(f, members[i], view)
           P == {150 - score(i) : i \in S}
<1>0. \A i \in S : i \in DOMAIN members /\ score(i) \in Int /\ 150 - score(i) \in Nat
  <2> SUFFICES ASSUME NEW i \in S PROVE i \in DOMAIN members /\ score(i) \in Int /\ 150 - score(i) \in Nat
    OBVIOUS
  <2>1. i \in DOMAIN members /\ members[i].priority \in Nat /\ view[members[i].account] \in AccountView
    BY DEF Accepted, Accepts, MemberList, Membership, KnownAccounts
  <2>2. CapacityScore(f, view[members[i].account]) \in 0 .. 50
    BY <2>1, ScoreBounds
  <2> QED
    BY <2>1, <2>2 DEF Score
<1> HIDE DEF score
<1>a. P \in SUBSET Nat /\ P # {}
  BY <1>0
<1>1. PICK p \in P : \A k \in P : p <= k
  BY <1>a, LeastNatural
<1> DEFINE T == {i \in S : 150 - score(i) = p}
<1>2. T \in SUBSET DOMAIN members /\ T # {}
  BY <1>0
<1> DEFINE n == First(T, members)
<1> HIDE DEF T, n
<1>3. n \in T /\ \A j \in T : j = n \/ Before(members, n, j)
  BY <1>2, FirstExists DEF n
<1>4. ASSUME NEW j \in S, j # n PROVE Better(f, members, view, n, j)
  <2>1. score(n) >= score(j) /\ 150 - score(n) = p
    BY <1>0, <1>1, <1>3 DEF T
  <2>2. CASE score(j) = score(n)
    BY <1>3, <1>4, <2>1, <2>2 DEF Better, T, score
  <2>3. CASE score(j) # score(n)
    BY <1>0, <1>3, <2>1, <2>3 DEF Better, T, score
  <2> QED
    BY <2>2, <2>3
<1> QED
  BY <1>3, <1>4 DEF Best, T

-----------------------------------------------------------------------------
(* What a decision names.                                                   *)

LEMMA SelectedIsAccepted ==
  ASSUME NEW f \in File, NEW p, MemberList(p.members), NEW view, KnownAccounts(view),
         Accepted(f, p.members, view) # {}
  PROVE  \E i, j \in Accepted(f, p.members, view) :
           /\ SimulateRoute(f, p, view).selected = p.members[i].account
           /\ j = First(Accepted(f, p.members, view), p.members)
           /\ p.mode # "balanced" => i = j
           /\ p.mode = "balanced" => i = Best(Accepted(f, p.members, view), f, p.members, view)
<1> DEFINE S == Accepted(f, p.members, view)
<1>1. S \in SUBSET DOMAIN p.members
  BY DEF Accepted
<1>2. First(S, p.members) \in S /\ Best(S, f, p.members, view) \in S
  BY <1>1, FirstExists, BestExists
<1> QED
  BY <1>2 DEF SimulateRoute

\* A decision names accounts that accept the file, and copies only of those.
LEMMA ChosenAreAccepted ==
  ASSUME NEW f \in File, NEW p, MemberList(p.members), NEW view, KnownAccounts(view)
  PROVE  \A a \in Chosen(SimulateRoute(f, p, view)) :
           \E i \in Accepted(f, p.members, view) : a = p.members[i].account
<1> DEFINE S == Accepted(f, p.members, view)
<1>1. CASE S = {}
  BY <1>1 DEF SimulateRoute, Chosen
<1>2. CASE S # {}
  <2>1. \E i \in S : SimulateRoute(f, p, view).selected = p.members[i].account
    BY <1>2, SelectedIsAccepted
  <2>2. \A a \in SimulateRoute(f, p, view).replicas : \E i \in S : a = p.members[i].account
    BY <1>2 DEF SimulateRoute
  <2> QED
    BY <2>1, <2>2 DEF Chosen
<1> QED
  BY <1>1, <1>2

\* A replicated pool gives the file to every account that accepts it, once.
LEMMA ReplicatedEverywhere ==
  ASSUME NEW f \in File, NEW p, MemberList(p.members), NEW view, KnownAccounts(view),
         p.mode = "replicated", Accepted(f, p.members, view) # {},
         \A i, j \in DOMAIN p.members : p.members[i].account = p.members[j].account => i = j
  PROVE  Everywhere(f, p, view)
<1> DEFINE S == Accepted(f, p.members, view)
           first == First(S, p.members)
<1>1. S \subseteq DOMAIN p.members /\ first \in S
  BY FirstExists DEF Accepted
<1>2. /\ SimulateRoute(f, p, view).selected = p.members[first].account
      /\ SimulateRoute(f, p, view).replicas = {p.members[i].account : i \in S \ {first}}
  BY DEF SimulateRoute
<1> HIDE DEF S, first
<1> QED
  BY <1>1, <1>2 DEF Everywhere, S

\* Files of the same traits: the smaller is accepted wherever the larger is.
LEMMA SmallerIsAccepted ==
  ASSUME NEW f \in File, NEW g \in File, g.size <= f.size, g.traits = f.traits,
         NEW members, MemberList(members), NEW view, KnownAccounts(view),
         NEW i \in DOMAIN members, members[i].rules.min = Nil,
         Accepts(f, members[i], view)
  PROVE  Accepts(g, members[i], view)
<1> DEFINE m == members[i]  a == view[m.account]
<1>1. m.account \in DOMAIN view /\ m.rules \in Rules /\ a \in AccountView
  BY DEF Accepts, MemberList, Membership, KnownAccounts
<1>2. MatchesRules(g, m.rules)
  BY <1>1 DEF Accepts, MatchesRules, Rules, File, Optional
<1>3. /\ a.maxUpload # Nil => g.size <= a.maxUpload
      /\ a.quota.remaining # Nil => g.size <= a.quota.remaining
  BY <1>1 DEF Accepts, AccountView, Quota, File, Optional
<1> QED
  BY <1>1, <1>2, <1>3 DEF Accepts

(* A smaller file is never refused by a pool that takes a larger one of the *)
(* same traits and has no rule on a minimum (routing.ts, simulateRoute).    *)
THEOREM SmallerIsTaken ==
  ASSUME NEW f \in File, NEW g \in File, NEW p, MemberList(p.members),
         NEW view, KnownAccounts(view)
  PROVE  Monotone(f, g, p, view)
<1> SUFFICES ASSUME g.size <= f.size, g.traits = f.traits,
                    \A i \in DOMAIN p.members : p.members[i].rules.min = Nil,
                    SimulateRoute(f, p, view).selected # Nil
             PROVE SimulateRoute(g, p, view).selected # Nil
  BY DEF Monotone
<1>1. PICK i \in Accepted(f, p.members, view) : TRUE
  BY DEF SimulateRoute
<1>2. i \in Accepted(g, p.members, view)
  BY <1>1, SmallerIsAccepted DEF Accepted
<1>3. PICK j \in Accepted(g, p.members, view) :
        SimulateRoute(g, p, view).selected = p.members[j].account
  BY <1>2, SelectedIsAccepted
<1>4. p.members[j].account \in Accounts
  BY <1>3 DEF Accepted, MemberList, Membership
<1> QED
  BY <1>3, <1>4, NilAssumption

\* An entry that is refused can be left out.
LEMMA RefusedAreInert ==
  ASSUME NEW f \in File, NEW p, p \in [workspace : Workspaces, mode : Modes, members : Members],
         MemberList(p.members), NEW view, KnownAccounts(view)
  PROVE  Inert(f, p, view)
<1> SUFFICES ASSUME NEW i \in DOMAIN p.members \ Accepted(f, p.members, view)
             PROVE SimulateRoute(f, [p EXCEPT !.members = Without(@, i)], view)
                     = SimulateRoute(f, p, view)
  BY DEF Inert
<1> DEFINE q == [p EXCEPT !.members = Without(@, i)]
           m == p.members  n == q.members
           S == Accepted(f, m, view)
<1>1. q.mode = p.mode /\ n = [j \in DOMAIN m \ {i} |-> m[j]]
  BY DEF Without
<1>2. Accepted(f, n, view) = S
  BY <1>1 DEF Accepted
<1>3. \A j \in S : n[j] = m[j] /\ j \in DOMAIN m
  BY <1>1 DEF Accepted
<1> HIDE DEF q, S
<1>4. \A j, k \in S : Before(n, j, k) = Before(m, j, k)
  BY <1>3 DEF Before
<1>5. \A j, k \in S : Better(f, n, view, j, k) = Better(f, m, view, j, k)
  BY <1>3, <1>4 DEF Better
<1>6. First(S, n) = First(S, m)
  BY <1>4 DEF First
<1>7. Best(S, f, n, view) = Best(S, f, m, view)
  BY <1>5 DEF Best
<1>8. Accepted(f, q.members, view) = S /\ Accepted(f, p.members, view) = S
  BY <1>2 DEF S
<1>9. CASE S = {}
  BY <1>8, <1>9 DEF SimulateRoute, q
<1>10. CASE S # {}
  <2> DEFINE first == First(S, m)  best == Best(S, f, m, view)
             selected == IF p.mode = "balanced" THEN best ELSE first
             copies == IF p.mode = "replicated" THEN {m[j].account : j \in S \ {first}} ELSE {}
             decision == [selected |-> m[selected].account, replicas |-> copies,
                          status |-> IF m[selected].account = m[first].account
                                     THEN "selected" ELSE "fallback"]
  <2>1. first \in S /\ best \in S
    BY <1>10, FirstExists, BestExists DEF S, Accepted
  <2>2. SimulateRoute(f, p, view) = decision
    BY <1>8, <1>10 DEF SimulateRoute
  <2>3. {n[j].account : j \in S \ {first}} = {m[j].account : j \in S \ {first}}
    BY <1>3
  <2>4. SimulateRoute(f, q, view) = decision
    <3>1. /\ First(S, q.members) = first /\ Best(S, f, q.members, view) = best
          /\ q.members[selected] = m[selected] /\ q.members[first] = m[first]
      BY <1>3, <1>6, <1>7, <2>1
    <3>2. q.mode = p.mode
      BY <1>1
    <3> HIDE DEF first, best
    <3>3. SimulateRoute(f, q, view) =
            [selected |-> q.members[selected].account,
             replicas |-> IF p.mode = "replicated"
                          THEN {q.members[j].account : j \in S \ {first}} ELSE {},
             status |-> IF q.members[selected].account = q.members[first].account
                        THEN "selected" ELSE "fallback"]
      BY <1>8, <1>10, <3>1, <3>2 DEF SimulateRoute
    <3> QED
      BY <2>3, <3>1, <3>3
  <2> QED
    BY <2>2, <2>4 DEF q
<1> QED
  BY <1>9, <1>10

\* More room within the reach of the score gives a strictly better score.
LEMMA RoomScores ==
  ASSUME NEW f \in File, NEW a \in AccountView, NEW b \in AccountView, Roomier(f, a, b),
         f.size <= a.quota.remaining
  PROVE  CapacityScore(f, a) < CapacityScore(f, b)
<1> DEFINE s == f.size  ra == a.quota.remaining  rb == b.quota.remaining
           qa == (10 * ra + s) \div (2 * s)  qb == (10 * rb + s) \div (2 * s)
<1>1. /\ s \in Nat /\ ra \in Nat /\ rb \in Nat
      /\ 5 * (rb - ra) >= s /\ rb > ra /\ 10 * ra < 99 * s /\ s <= ra
  BY DEF Roomier, AccountView, Quota, File, Optional
<1>2. s > 0 /\ ra > 0
  BY <1>1
<1>3. /\ CapacityScore(f, a) = IF qa > 50 THEN 50 ELSE qa
      /\ CapacityScore(f, b) = IF qb > 50 THEN 50 ELSE qb
  BY <1>1, <1>2, NilAssumption DEF CapacityScore, Roomier
<1> HIDE DEF s, ra, rb
<1>4. /\ qa \in Int /\ 2 * s * qa <= 10 * ra + s /\ 10 * ra + s < 2 * s * (qa + 1)
      /\ qb \in Int /\ 2 * s * qb <= 10 * rb + s /\ 10 * rb + s < 2 * s * (qb + 1)
  BY <1>1, <1>2
<1> HIDE DEF qa, qb
<1>5. ASSUME NEW x \in Int, NEW y \in Int, x <= y PROVE s * x <= s * y
  BY <1>1, <1>5
<1>6. qa < 50
  <2>1. CASE qa >= 50
    <3>1. s * 50 <= s * qa
      BY <1>4, <1>5, <2>1
    <3> QED
      BY <1>1, <1>4, <3>1
  <2> QED
    BY <1>4, <2>1
<1>7. qa < qb
  <2>1. CASE qb <= qa
    <3>1. s * (qb + 1) <= s * (qa + 1)
      BY <1>4, <1>5, <2>1
    <3>2. s * (qa + 1) = s * qa + s
      BY <1>1, <1>4
    <3>3. 10 * rb >= 10 * ra + 2 * s
      BY <1>1
    <3> QED
      BY <1>1, <1>2, <1>4, <3>1, <3>2, <3>3
  <2> QED
    BY <1>4, <2>1
<1>8. CapacityScore(f, a) = qa
  BY <1>3, <1>4, <1>6
<1>9. CapacityScore(f, b) = 50 \/ CapacityScore(f, b) = qb
  BY <1>3
<1> QED
  BY <1>4, <1>6, <1>7, <1>8, <1>9

-----------------------------------------------------------------------------
(* The state.                                                               *)

LinkType ==
  [at : {"idle", "exchange", "create"}, workspace : Workspaces \cup {Nil},
   intent : Intents \cup {Nil}]

\* A handler that has begun knows its workspace.
LinksType ==
  /\ intents \in [Intents -> Workspaces \cup {Nil}]
  /\ link \in [Links -> LinkType]
  /\ \A l \in Links : link[l].at # "idle" => link[l].workspace \in Workspaces
  /\ \A l \in Links : link[l].at = "exchange" => link[l].intent \in Intents
  /\ exchanged \subseteq Intents

RowsType ==
  /\ DOMAIN rows \subseteq Accounts
  /\ rows \in [DOMAIN rows -> Row]
  /\ pools \subseteq Pool

SimType ==
  /\ sim.at \in {"idle", "pool", "done"}
  /\ sim.at \in {"pool", "done"} => sim.pool \in Pool /\ sim.file \in File
  /\ sim.at = "done" => KnownAccounts(sim.view)

TypeInv == LinksType /\ RowsType /\ SimType

Decided == sim.at = "done" => sim.decision = SimulateRoute(sim.file, sim.pool, sim.view)

\* What a routing request saw of the accounts is true of the rows: they keep
\* their workspace and are never removed.
Seen == sim.at = "done" =>
          \A a \in DOMAIN sim.view : a \in DOMAIN rows /\ rows[a].workspace = sim.pool.workspace

Spent == \A n \in exchanged : intents[n] = Nil

Inv == TypeInv /\ Decided /\ Seen /\ Spent

LEMMA InvInit == Init => Inv
<1> SUFFICES ASSUME Init PROVE Inv
  OBVIOUS
<1>1. LinksType /\ Spent
  BY DEF Init, LinksType, LinkType, IdleLink, Spent
<1>2. RowsType
  BY DEF Init, RowsType
<1>3. SimType /\ Decided /\ Seen
  BY DEF Init, IdleSim, SimType, Decided, Seen
<1> QED
  BY <1>1, <1>2, <1>3 DEF Inv, TypeInv

LEMMA PoolMembers ==
  ASSUME NEW p \in Pool
  PROVE  /\ MemberList(p.members)
         /\ p \in [workspace : Workspaces, mode : Modes, members : Members]
<1>1. p.members \in Members
  BY DEF Pool
<1>2. PICK n \in PoolSizes : p.members \in [1 .. n -> Memberships]
  BY <1>1 DEF Members
<1> QED
  BY <1>2, InputAssumption DEF MemberList, Pool

LEMMA MeasuredType ==
  ASSUME NEW limit \in Optional(Nat), NEW usage \in Optional(Nat)
  PROVE  MeasuredQuota(limit, usage) \in Quota
<1> DEFINE remaining == IF limit = Nil \/ usage = Nil THEN Nil
                        ELSE IF usage > limit THEN 0 ELSE limit - usage
<1>1. remaining \in Optional(Nat)
  BY NilAssumption DEF Optional
<1> HIDE DEF remaining
<1>2. MeasuredQuota(limit, usage) = [limit |-> limit, usage |-> usage, remaining |-> remaining]
  BY DEF MeasuredQuota, remaining
<1> QED
  BY <1>1, <1>2 DEF Quota

LEMMA LinkedKeeps ==
  ASSUME Inv, NEW l \in Links, Create(l), NEW a \in Accounts \ DOMAIN rows,
         NEW provider \in Provider, NEW mode \in Mode,
         NEW checked, checked.health \in Health, checked.quota \in Quota,
         Linked(l, a, provider, mode, checked)
  PROVE  Inv'
<1> DEFINE row == [workspace |-> link[l].workspace, provider |-> provider, mode |-> mode,
                   revoked |-> FALSE, health |-> checked.health, quota |-> checked.quota]
<1>1. row \in Row
  BY DEF Row, Create, Inv, TypeInv, LinksType
<1> HIDE DEF row
<1>2. /\ rows' = [b \in DOMAIN rows \cup {a} |-> IF b = a THEN row ELSE rows[b]]
      /\ link' = [link EXCEPT ![l] = IdleLink]
      /\ UNCHANGED <<pools, intents, exchanged, sim>>
  BY DEF Linked, row
<1>3. RowsType'
  BY <1>1, <1>2 DEF Inv, TypeInv, RowsType
<1>4. LinksType' /\ Spent'
  BY <1>2 DEF Inv, TypeInv, LinksType, LinkType, IdleLink, Spent
<1>5. SimType' /\ Decided' /\ Seen'
  BY <1>2 DEF Inv, TypeInv, SimType, Decided, Seen
<1> QED
  BY <1>3, <1>4, <1>5 DEF Inv, TypeInv

LEMMA InvStep == Inv /\ [Next]_vars => Inv'
<1> SUFFICES ASSUME Inv, [Next]_vars PROVE Inv'
  OBVIOUS
<1>a. TypeInv /\ Decided /\ Seen /\ Spent
  BY DEF Inv
\* Handlers and intents.
<1>1. ASSUME UNCHANGED <<rows, pools, sim>>, LinksType', Spent' PROVE Inv'
  BY <1>1, <1>a DEF Inv, TypeInv, RowsType, SimType, Decided, Seen
<1>2. ASSUME NEW n \in Intents, NEW w \in Workspaces, CreateIntent(n, w) PROVE Inv'
  BY <1>1, <1>2, <1>a DEF CreateIntent, TypeInv, LinksType, Spent
<1>3. ASSUME NEW n \in Intents, ExpireIntent(n) PROVE Inv'
  BY <1>1, <1>3, <1>a DEF ExpireIntent, TypeInv, LinksType, Spent
<1>4. ASSUME NEW l \in Links, NEW n \in Intents, Callback(l, n) PROVE Inv'
  BY <1>1, <1>4, <1>a DEF Callback, TypeInv, LinksType, LinkType, Spent
<1>5. ASSUME NEW l \in Links, NEW w \in Workspaces, CreateTelegram(l, w) PROVE Inv'
  BY <1>1, <1>5, <1>a DEF CreateTelegram, TypeInv, LinksType, LinkType, Spent
<1>6. ASSUME NEW l \in Links, Exchange(l) PROVE Inv'
  <2>1. CASE link' = [link EXCEPT ![l] = IdleLink] /\ UNCHANGED <<intents, exchanged>>
    BY <1>1, <1>6, <1>a, <2>1 DEF Exchange, IdleLink, TypeInv, LinksType, LinkType, Spent
  <2>2. CASE /\ link' = [link EXCEPT ![l].at = "create"]
             /\ intents' = [intents EXCEPT ![link[l].intent] = Nil]
             /\ exchanged' = exchanged \cup {link[l].intent}
    <3>1. link[l].intent \in Intents /\ link[l] \in LinkType /\ link[l].workspace \in Workspaces
      BY <1>6, <1>a DEF Exchange, TypeInv, LinksType
    <3>2. /\ link'[l].at = "create" /\ link'[l].workspace = link[l].workspace
          /\ link' \in [Links -> LinkType]
          /\ \A k \in Links \ {l} : link'[k] = link[k]
      BY <1>a, <2>2, <3>1 DEF TypeInv, LinksType, LinkType
    <3>3. LinksType'
      BY <1>a, <2>2, <3>1, <3>2 DEF TypeInv, LinksType
    <3>4. Spent'
      BY <1>a, <2>2, <3>1 DEF TypeInv, LinksType, Spent
    <3> QED
      BY <1>1, <1>6, <3>3, <3>4 DEF Exchange
  <2> QED
    BY <1>6, <2>1, <2>2 DEF Exchange
<1>7. ASSUME NEW l \in Links, CreateFails(l) PROVE Inv'
  BY <1>1, <1>7, <1>a DEF CreateFails, IdleLink, TypeInv, LinksType, LinkType, Spent
\* Rows and pools.
<1>8. ASSUME NEW l \in Links, CreateDriveRow(l) PROVE Inv'
  <2>1. PICK a \in Accounts \ DOMAIN rows, q \in DriveQuotas :
          Linked(l, a, "drive", "oauth", DriveHealth(q[1], q[2]))
    BY <1>8 DEF CreateDriveRow
  <2>2. MeasuredQuota(q[1], q[2]) \in Quota
    BY InputAssumption, MeasuredType
  <2>3. DriveHealth(q[1], q[2]).health \in Health /\ DriveHealth(q[1], q[2]).quota \in Quota
    BY <2>2 DEF DriveHealth, Health
  <2> QED
    BY <1>8, <2>1, <2>3, LinkedKeeps DEF Provider, Mode, CreateDriveRow
<1>9. ASSUME NEW l \in Links, CreateTelegramRow(l) PROVE Inv'
  <2>1. PICK a \in Accounts \ DOMAIN rows, mode \in BotModes :
          Linked(l, a, "telegram", mode, TelegramHealth)
    BY <1>9 DEF CreateTelegramRow
  <2>2. TelegramHealth.health \in Health /\ TelegramHealth.quota \in Quota
    BY MeasuredType DEF TelegramHealth, Health, Optional
  <2> QED
    BY <1>9, <2>1, <2>2, LinkedKeeps, InputAssumption DEF Provider, Mode, CreateTelegramRow
<1>10. ASSUME NEW a \in Accounts, Revoke(a) PROVE Inv'
  <2>1. /\ DOMAIN rows' = DOMAIN rows /\ a \in DOMAIN rows
        /\ rows' \in [DOMAIN rows' -> Row]
        /\ \A b \in DOMAIN rows : rows'[b].workspace = rows[b].workspace
        /\ UNCHANGED <<pools, intents, link, exchanged, sim>>
    BY <1>10, <1>a DEF Revoke, TypeInv, RowsType, Row
  <2>2. RowsType' /\ LinksType' /\ Spent'
    BY <1>a, <2>1 DEF TypeInv, RowsType, LinksType, Spent
  <2>3. SimType' /\ Seen' /\ Decided'
    BY <1>a, <2>1 DEF TypeInv, SimType, Seen, Decided
  <2> QED
    BY <2>2, <2>3 DEF Inv, TypeInv
<1>11. ASSUME NEW p \in Pool, CreatePool(p) PROVE Inv'
  BY <1>11, <1>a
  DEF CreatePool, Inv, TypeInv, LinksType, RowsType, SimType, Seen, Decided, Spent
\* Routing.
<1>12. ASSUME UNCHANGED <<rows, pools, intents, link, exchanged>>, SimType', Seen', Decided'
       PROVE Inv'
  BY <1>12, <1>a DEF Inv, TypeInv, LinksType, RowsType, Spent
<1>13. ASSUME NEW p \in pools, NEW f \in Files, ReadPool(p, f) PROVE Inv'
  <2>1. sim' = [at |-> "pool", pool |-> p, file |-> f, view |-> Nil, decision |-> Nil]
    BY <1>13 DEF ReadPool, IdleSim
  <2>2. p \in Pool /\ f \in File
    BY <1>a, InputAssumption DEF TypeInv, RowsType
  <2> QED
    BY <1>12, <1>13, <2>1, <2>2 DEF ReadPool, SimType, Seen, Decided
<1>14. ASSUME Route PROVE Inv'
  <2> DEFINE view == ListProviders(sim.pool.workspace)
  <2>1. UNCHANGED <<rows, pools, intents, link, exchanged>> /\ sim.at = "pool"
    BY <1>14 DEF Route
  <2>2. KnownAccounts(view)
    <3>1. DOMAIN view \subseteq DOMAIN rows
      BY DEF ListProviders
    <3>2. ASSUME NEW a \in DOMAIN view PROVE view[a] \in AccountView
      <4>1. view[a] = AccountOf(rows[a]) /\ a \in DOMAIN rows
        BY <3>1 DEF ListProviders
      <4>2. MaxUpload(rows[a].mode) \in Optional(Nat)
        BY LimitAssumption DEF MaxUpload, Optional
      <4>3. rows[a] \in Row
        BY <1>a, <4>1 DEF TypeInv, RowsType
      <4> QED
        BY <4>1, <4>2, <4>3 DEF AccountOf, AccountView, Row
    <3> QED
      BY <1>a, <3>1, <3>2 DEF KnownAccounts, TypeInv, RowsType
  <2>3. \A a \in DOMAIN view : a \in DOMAIN rows /\ rows[a].workspace = sim.pool.workspace
    BY DEF ListProviders
  <2> HIDE DEF view
  <2>4. sim' = [sim EXCEPT !.at = "done", !.view = view,
                           !.decision = SimulateRoute(sim.file, sim.pool, view)]
    BY <1>14 DEF Route, view
  <2> QED
    BY <1>12, <1>a, <2>1, <2>2, <2>3, <2>4 DEF TypeInv, SimType, Seen, Decided
<1>15. ASSUME Answer PROVE Inv'
  BY <1>12, <1>15 DEF Answer, IdleSim, SimType, Seen, Decided
<1>16. CASE UNCHANGED vars
  BY <1>16, <1>a, <1>1 DEF vars, TypeInv, LinksType, Spent
<1> QED
  BY <1>2, <1>3, <1>4, <1>5, <1>6, <1>7, <1>8, <1>9, <1>10, <1>11, <1>13, <1>14, <1>15, <1>16
  DEF Next

-----------------------------------------------------------------------------
(* Every file goes to accounts of the pool's own workspace                  *)
(* (provider.store.ts, listProviders and simulateRoute).                    *)
THEOREM RoutesCorrect == Spec => []RoutesWithinWorkspace
<1>1. Inv => RoutesWithinWorkspace
  <2> SUFFICES ASSUME Inv, Done, NEW a \in Chosen(sim.decision)
               PROVE a \in DOMAIN rows /\ rows[a].workspace = sim.pool.workspace
    BY DEF RoutesWithinWorkspace
  <2>1. /\ sim.decision = SimulateRoute(sim.file, sim.pool, sim.view)
        /\ sim.pool \in Pool /\ sim.file \in File /\ KnownAccounts(sim.view)
    BY DEF Inv, TypeInv, SimType, Decided, Done
  <2>2. PICK i \in Accepted(sim.file, sim.pool.members, sim.view) : a = sim.pool.members[i].account
    BY <2>1, PoolMembers, ChosenAreAccepted
  <2>3. a \in DOMAIN sim.view
    BY <2>2 DEF Accepted, Accepts
  <2> QED
    BY <2>3 DEF Inv, Seen, Done
<1> QED
  BY <1>1, InvInit, InvStep, PTL DEF Spec

(* An entry that is refused changes nothing (routing.ts, simulateRoute).    *)
THEOREM RefusedCorrect == Spec => []RefusedIsInert
<1>1. Inv => RefusedIsInert
  BY PoolMembers, RefusedAreInert DEF Inv, TypeInv, SimType, RefusedIsInert, Done
<1> QED
  BY <1>1, InvInit, InvStep, PTL DEF Spec

\* The entry a balanced pool selects has no roomier rival at its priority or before.
LEMMA RoomWins ==
  ASSUME NEW f \in File, NEW p \in Pool, NEW view, KnownAccounts(view), p.mode = "balanced",
         NEW i \in Accepted(f, p.members, view), NEW j \in Accepted(f, p.members, view),
         SimulateRoute(f, p, view).selected = p.members[i].account,
         p.members[j].priority <= p.members[i].priority
  PROVE  ~ Roomier(f, view[p.members[i].account], view[p.members[j].account])
<1> DEFINE m == p.members  S == Accepted(f, m, view)
<1>1. MemberList(m) /\ m \in Members
  BY PoolMembers DEF Pool
<1>2. ASSUME NEW k \in S
      PROVE /\ k \in DOMAIN m /\ m[k].priority \in Int
            /\ view[m[k].account] \in AccountView
            /\ CapacityScore(f, view[m[k].account]) \in Int
  <2>1. k \in DOMAIN m /\ m[k].account \in DOMAIN view
    BY DEF Accepted, Accepts
  <2>2. m[k].priority \in Int
    BY <1>1, <2>1 DEF MemberList, Membership
  <2>3. view[m[k].account] \in AccountView
    BY <2>1 DEF KnownAccounts
  <2>4. CapacityScore(f, view[m[k].account]) \in 0 .. 50
    BY <2>3, ScoreBounds
  <2> HIDE DEF m
  <2> QED
    BY <2>1, <2>2, <2>3, <2>4
<1>3. i = Best(S, f, m, view)
  <2>1. PICK k \in S : k = Best(S, f, m, view) /\ m[k].account = m[i].account
    BY <1>1, SelectedIsAccepted
  <2>2. \A x, y \in DOMAIN m : m[x].account = m[y].account => x = y
    BY <1>1 DEF Members
  <2>3. i \in DOMAIN m /\ k \in DOMAIN m
    BY <1>2, <2>1
  <2> HIDE DEF m, S
  <2> QED
    BY <2>1, <2>2, <2>3
<1>4. i = j \/ Better(f, m, view, i, j)
  BY <1>1, <1>3, BestExists
<1> SUFFICES ASSUME Roomier(f, view[m[i].account], view[m[j].account]) PROVE FALSE
  OBVIOUS
<1>5. CapacityScore(f, view[m[i].account]) < CapacityScore(f, view[m[j].account])
  <2>1. f.size <= view[m[i].account].quota.remaining
    BY DEF Roomier, Accepted, Accepts
  <2> QED
    BY <1>2, <2>1, RoomScores
<1>6. m[j].priority <= m[i].priority
  OBVIOUS
<1>7. i \in S /\ j \in S
  OBVIOUS
<1> HIDE DEF m, S
<1>8. /\ m[i].priority \in Int /\ CapacityScore(f, view[m[i].account]) \in Int
      /\ m[j].priority \in Int /\ CapacityScore(f, view[m[j].account]) \in Int
  BY <1>2, <1>7
<1>9. Score(f, m[i], view) \in Int /\ Score(f, m[j], view) \in Int
  BY <1>8 DEF Score
<1>10. Score(f, m[i], view) < Score(f, m[j], view)
  <2>1. \A x, y, c, d \in Int : y <= x /\ c < d => 100 - x + c < 100 - y + d
    OBVIOUS
  <2> QED
    BY <1>5, <1>6, <1>8, <2>1 DEF Score
<1>11. ~ Score(f, m[i], view) >= Score(f, m[j], view)
  BY <1>9, <1>10
<1>12. Score(f, m[i], view) = Score(f, m[j], view) \/ Score(f, m[i], view) > Score(f, m[j], view)
  BY <1>4 DEF Better
<1> QED
  BY <1>9, <1>11, <1>12

(* A balanced pool prefers room among Drive accounts (routing.ts,           *)
(* capacityScore and scoreCandidate).                                       *)
THEOREM RoomCorrect == Spec => []RoomDecides
<1>1. Inv => RoomDecides
  <2> SUFFICES ASSUME Inv, Done, sim.pool.mode = "balanced",
                      NEW i \in Accepted(sim.file, sim.pool.members, sim.view),
                      NEW j \in Accepted(sim.file, sim.pool.members, sim.view),
                      sim.pool.members[i].account = sim.decision.selected,
                      sim.pool.members[j].priority <= sim.pool.members[i].priority
               PROVE ~ Roomier(sim.file, sim.view[sim.pool.members[i].account],
                               sim.view[sim.pool.members[j].account])
    BY DEF RoomDecides
  <2>1. /\ sim.decision = SimulateRoute(sim.file, sim.pool, sim.view)
        /\ sim.pool \in Pool /\ sim.file \in File /\ KnownAccounts(sim.view)
    BY PoolMembers DEF Inv, TypeInv, SimType, Decided, Done
  <2> QED
    BY <2>1, RoomWins
<1> QED
  BY <1>1, InvInit, InvStep, PTL DEF Spec

(* A link intent is exchanged once by callbacks that follow one another     *)
(* (providers.controller.ts, driveCallback).                                *)
THEOREM IntentCorrect == Spec => IntentSpent
<1>1. Inv /\ [Next]_vars =>
        [\A l \in Links : link[l].at = "idle" /\ link'[l].at = "exchange"
                            => link'[l].intent \notin exchanged]_vars
  <2> SUFFICES ASSUME Inv, [Next]_vars, NEW l \in Links,
                      link[l].at = "idle", link'[l].at = "exchange"
               PROVE link'[l].intent \notin exchanged
    OBVIOUS
  <2>a. link \in [Links -> LinkType] /\ Spent
    BY DEF Inv, TypeInv, LinksType
  <2>1. ASSUME NEW k \in Links, NEW n \in Intents, Callback(k, n)
        PROVE link'[l].intent \notin exchanged
    BY <2>1, <2>a DEF Callback, Spent
  <2>2. ASSUME NEW k \in Links, NEW w \in Workspaces, CreateTelegram(k, w) PROVE FALSE
    BY <2>2, <2>a DEF CreateTelegram
  <2>3. ASSUME NEW k \in Links, link' = [link EXCEPT ![k] = IdleLink] PROVE FALSE
    BY <2>3, <2>a DEF IdleLink
  <2>4. ASSUME NEW k \in Links, link' = [link EXCEPT ![k].at = "create"] PROVE FALSE
    BY <2>4, <2>a DEF LinkType
  <2>5. ASSUME UNCHANGED link PROVE FALSE
    BY <2>5
  <2>6. ASSUME NEW k \in Links, CreateDriveRow(k) \/ CreateTelegramRow(k) PROVE FALSE
    BY <2>3, <2>6 DEF CreateDriveRow, CreateTelegramRow, Linked
  <2> QED
    BY <2>1, <2>2, <2>3, <2>4, <2>5, <2>6
    DEF Next, Exchange, CreateFails, CreateIntent, ExpireIntent, Revoke, CreatePool, ReadPool,
        Route, Answer, vars
<1> QED
  BY <1>1, InvInit, InvStep, PTL DEF Spec, IntentSpent
=============================================================================
