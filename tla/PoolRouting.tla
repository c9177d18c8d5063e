---------------------------- MODULE PoolRouting ----------------------------
(***************************************************************************)
(* simulateRoute of packages/providers/src/routing.ts: the account, and the*)
(* accounts for further copies, that a storage pool gives a file.  The     *)
(* pool, the quota and the health of its accounts are those the API stored *)
(* when they were created; nothing measures them again.                    *)
(*                                                                         *)
(* Sizes are integers and a ratio is compared exactly; the code divides     *)
(* doubles.  The role of a member and the capability to upload decide       *)
(* nothing in the code and are left out.                                    *)
(*                                                                         *)
(* The rules on MIME types, extensions, folders and labels all ask that a  *)
(* file has one of some traits, the rule on tags that it has all of them.  *)
(***************************************************************************)
EXTENDS Integers, FiniteSets

CONSTANTS
  Accounts,  \* identifiers of provider accounts
  Traits,    \* what rules on type, extension, folder, label and tag tell apart
  PublicLimit, LocalLimit,  \* what Telegram and a Bot API server of one's own take
  Nil        \* null and undefined

Provider == {"drive", "telegram"}
Mode == {"oauth", "public_bot_api", "local_bot_api"}
Health == {"healthy", "degraded", "disconnected", "revoked"}
Optional(S) == S \cup {Nil}

File == [size : Nat, traits : SUBSET Traits]
Rules == [max : Optional(Nat), min : Optional(Nat),
          oneOf : SUBSET SUBSET Traits, allOf : SUBSET Traits]
Membership == [account : Accounts, priority : Nat, threshold : Optional(Nat), rules : Rules]
Quota == [limit : Optional(Nat), usage : Optional(Nat), remaining : Optional(Nat)]
AccountView == [provider : Provider, health : Health, revoked : BOOLEAN,
                maxUpload : Optional(Nat), quota : Quota]

ASSUME NilAssumption == Nil \notin Nat /\ Nil \notin Accounts
ASSUME LimitAssumption == PublicLimit \in Nat /\ LocalLimit \in Nat

\* parseQuota: Google Drive tells a limit and a usage, or leaves one out.
\* Telegram tells neither, and a pooled account without quota routes alike.
MeasuredQuota(limit, usage) ==
  [limit |-> limit, usage |-> usage,
   remaining |-> IF limit = Nil \/ usage = Nil THEN Nil
                 ELSE IF usage > limit THEN 0 ELSE limit - usage]

\* What the health check of an account tells when it does not fail.
DriveHealth(limit, usage) == [health |-> "healthy", quota |-> MeasuredQuota(limit, usage)]
TelegramHealth == [health |-> "healthy", quota |-> MeasuredQuota(Nil, Nil)]

\* defaultCapabilities: the largest upload of an account.
MaxUpload(mode) ==
  IF mode = "oauth" THEN Nil ELSE IF mode = "local_bot_api" THEN LocalLimit ELSE PublicLimit

-----------------------------------------------------------------------------
(* A pool is [mode, members], its members a function on 1 .. n; `view` maps *)
(* the accounts that listProviders returned to what it returned.            *)

MatchesRules(f, rules) ==
  /\ rules.max # Nil => f.size <= rules.max
  /\ rules.min # Nil => f.size >= rules.min
  /\ \A S \in rules.oneOf : S # {} => S \cap f.traits # {}
  /\ rules.allOf \subseteq f.traits

\* A limit of zero counts as no limit, like one that is not known.
BelowThreshold(threshold, quota) ==
  threshold # Nil /\ quota.limit \notin {Nil, 0} /\ quota.usage # Nil
    => quota.usage * 100 < threshold * quota.limit

Accepts(f, m, view) ==
  /\ m.account \in DOMAIN view
  /\ LET a == view[m.account] IN
     /\ MatchesRules(f, m.rules)
     /\ ~a.revoked /\ a.health \notin {"disconnected", "revoked"}
     /\ a.maxUpload # Nil => f.size <= a.maxUpload
     /\ BelowThreshold(m.threshold, a.quota)
     /\ a.quota.remaining # Nil => f.size <= a.quota.remaining

(* Mutant: the ratio of the score is upside down.                          *)
CapacityScoreInverted(f, a) ==
  IF a.quota.remaining \in {Nil, 0} THEN 0 ELSE (10 * f.size) \div a.quota.remaining

\* Half up, as Math.round; an account that does not tell its room scores 0, or
\* 50 when it is a Telegram chat.
CapacityScore(f, a) ==
  LET remaining == a.quota.remaining
      size == IF f.size = 0 THEN 1 ELSE f.size
      score == (10 * remaining + size) \div (2 * size) IN
  IF remaining \in {Nil, 0} THEN IF a.provider = "telegram" THEN 50 ELSE 0
  ELSE IF remaining < f.size THEN 0 ELSE IF score > 50 THEN 50 ELSE score

Score(f, m, view) == 100 - m.priority + CapacityScore(f, view[m.account])

\* The sort is stable: entries of one priority keep the order of the pool.
Before(members, i, j) ==
  \/ members[i].priority < members[j].priority
  \/ members[i].priority = members[j].priority /\ i < j

Accepted(f, members, view) == {i \in DOMAIN members : Accepts(f, members[i], view)}

First(S, members) == CHOOSE i \in S : \A j \in S : j = i \/ Before(members, i, j)

Better(f, members, view, i, j) ==
  LET si == Score(f, members[i], view)  sj == Score(f, members[j], view) IN
  si > sj \/ (si = sj /\ Before(members, i, j))

Best(S, f, members, view) ==
  CHOOSE i \in S : \A j \in S : j = i \/ Better(f, members, view, i, j)

(* Mutant: the status compares with the first entry of the pool.           *)
SimulateRouteByPool(f, p, view) ==
  LET S == Accepted(f, p.members, view)
      first == First(S, p.members)
      selected == IF p.mode = "balanced" THEN Best(S, f, p.members, view) ELSE first
      name(i) == p.members[i].account IN
  IF S = {} THEN [selected |-> Nil, replicas |-> {}, status |-> "rejected"]
  ELSE [selected |-> name(selected),
        replicas |-> IF p.mode = "replicated" THEN {name(i) : i \in S \ {first}} ELSE {},
        status |-> IF selected = First(DOMAIN p.members, p.members) THEN "selected"
                   ELSE "fallback"]

SimulateRoute(f, p, view) ==
  LET S == Accepted(f, p.members, view)
      first == First(S, p.members)
      selected == IF p.mode = "balanced" THEN Best(S, f, p.members, view) ELSE first
      name(i) == p.members[i].account IN
  IF S = {} THEN [selected |-> Nil, replicas |-> {}, status |-> "rejected"]
  ELSE [selected |-> name(selected),
        replicas |-> IF p.mode = "replicated" THEN {name(i) : i \in S \ {first}} ELSE {},
        status |-> IF name(selected) = name(first) THEN "selected" ELSE "fallback"]

-----------------------------------------------------------------------------
(* What a caller may rely on, for one file, pool and view.                  *)

Without(members, i) == [j \in DOMAIN members \ {i} |-> members[j]]

\* A refused member is as if it were not in the pool.
Inert(f, p, view) ==
  \A i \in DOMAIN p.members \ Accepted(f, p.members, view) :
    SimulateRoute(f, [p EXCEPT !.members = Without(@, i)], view) = SimulateRoute(f, p, view)

\* A smaller file of the same traits is taken wherever no rule wants a minimum.
Monotone(f, g, p, view) ==
  /\ g.size <= f.size /\ g.traits = f.traits
  /\ \A i \in DOMAIN p.members : p.members[i].rules.min = Nil
  /\ SimulateRoute(f, p, view).selected # Nil
  => SimulateRoute(g, p, view).selected # Nil

\* Every account that takes the file gets it, once.
Everywhere(f, p, view) ==
  LET d == SimulateRoute(f, p, view) IN
  /\ d.selected \notin d.replicas
  /\ {d.selected} \cup d.replicas =
       {p.members[i].account : i \in Accepted(f, p.members, view)}

\* More room than the selected account has: by more than the rounding of the
\* score, and short of about ten times the size, from where room stops to count.
Roomier(f, a, b) ==
  /\ a.provider = "drive" /\ b.provider = "drive"
  /\ a.quota.remaining # Nil /\ b.quota.remaining # Nil
  /\ 5 * (b.quota.remaining - a.quota.remaining) >= f.size
  /\ b.quota.remaining > a.quota.remaining
  /\ 10 * a.quota.remaining < 99 * f.size
=============================================================================
