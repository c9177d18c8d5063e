--------------------------- MODULE ProviderPools ---------------------------
(***************************************************************************)
(* Provider accounts and storage pools of the API (provider.store.ts and   *)
(* the two controllers), cut at their awaits: linking a Google Drive       *)
(* account through a link intent and the OAuth callback, linking a         *)
(* Telegram chat, creating a pool, and routing a file, which reads the pool*)
(* and then the accounts.  Quota and health are stored when an account is  *)
(* linked; nothing of the hosted packages measures them again.  The        *)
(* deployment has a database.                                              *)
(***************************************************************************)
EXTENDS PoolRouting

CONSTANTS
  Workspaces,
  Intents,       \* identifiers of link intents
  Links,         \* handlers that link an account, at a time
  DriveQuotas,   \* what Google Drive may tell: pairs of a limit and a usage
  BotModes,      \* modes of Telegram accounts
  Memberships,   \* what an entry of a pool may look like
  PoolSizes,     \* numbers of entries of a pool
  Modes,         \* StoragePoolMode
  Files,         \* the files to route (RouteInput)
  MaxPools       \* bound

ASSUME InputAssumption ==
  /\ DriveQuotas \subseteq Optional(Nat) \X Optional(Nat)
  /\ BotModes \subseteq Mode \ {"oauth"}
  /\ Memberships \subseteq Membership
  /\ Files \subseteq File /\ PoolSizes \subseteq Nat /\ MaxPools \in Nat

VARIABLES
  rows,       \* provider_accounts
  pools,      \* storage_pools
  intents,    \* the workspace of a link intent while its entry is in the map
  link,       \* the handlers
  exchanged,  \* history: intents whose code was exchanged for tokens
  sim         \* a routing request: the pool it read, then its decision

vars == <<rows, pools, intents, link, exchanged, sim>>

\* storage_pool_accounts has unique accounts and unique priorities in a pool.
Members ==
  {m \in UNION {[1 .. n -> Memberships] : n \in PoolSizes} :
     \A i, j \in DOMAIN m :
       m[i].account = m[j].account \/ m[i].priority = m[j].priority => i = j}

Pool == [workspace : Workspaces, mode : Modes, members : Members]
Row == [workspace : Workspaces, provider : Provider, mode : Mode, health : Health,
        revoked : BOOLEAN, quota : Quota]
IdleLink == [at |-> "idle", workspace |-> Nil, intent |-> Nil]
IdleSim == [at |-> "idle", pool |-> Nil, file |-> Nil, view |-> Nil, decision |-> Nil]

Init ==
  /\ rows = [a \in {} |-> Nil]
  /\ pools = {}
  /\ intents = [n \in Intents |-> Nil]
  /\ link = [l \in Links |-> IdleLink]
  /\ exchanged = {}
  /\ sim = IdleSim

-----------------------------------------------------------------------------
\* createDriveLinkIntent: a fresh identifier, ten minutes to use it.
CreateIntent(n, w) ==
  /\ intents[n] = Nil /\ n \notin exchanged
  /\ intents' = [intents EXCEPT ![n] = w]
  /\ UNCHANGED <<rows, pools, link, exchanged, sim>>

\* An expired entry stays in the map and is refused.
ExpireIntent(n) ==
  /\ intents[n] # Nil
  /\ intents' = [intents EXCEPT ![n] = Nil]
  /\ UNCHANGED <<rows, pools, link, exchanged, sim>>

\* driveCallback, up to its first await; it is refused without an intent.
Callback(l, n) ==
  /\ link[l].at = "idle" /\ intents[n] # Nil
  /\ link' = [link EXCEPT ![l] = [at |-> "exchange", workspace |-> intents[n], intent |-> n]]
  /\ UNCHANGED <<rows, pools, intents, exchanged, sim>>

(* Mutant: the intent stays in the map.                                     *)
ExchangeKeeps(l) ==
  /\ link[l].at = "exchange"
  /\ link' = [link EXCEPT ![l].at = "create"]
  /\ exchanged' = exchanged \cup {link[l].intent}
  /\ UNCHANGED <<rows, pools, intents, sim>>

\* The code becomes tokens and the intent goes, or the callback fails.
Exchange(l) ==
  /\ link[l].at = "exchange"
  /\ \/ /\ link' = [link EXCEPT ![l].at = "create"]
        /\ intents' = [intents EXCEPT ![link[l].intent] = Nil]
        /\ exchanged' = exchanged \cup {link[l].intent}
     \/ /\ link' = [link EXCEPT ![l] = IdleLink]
        /\ UNCHANGED <<intents, exchanged>>
  /\ UNCHANGED <<rows, pools, sim>>

CreateTelegram(l, w) ==
  /\ link[l].at = "idle"
  /\ link' = [link EXCEPT ![l] = [at |-> "create", workspace |-> w, intent |-> Nil]]
  /\ UNCHANGED <<rows, pools, intents, exchanged, sim>>

Linked(l, a, provider, mode, checked) ==
  /\ rows' = [b \in DOMAIN rows \cup {a} |->
                IF b = a THEN [workspace |-> link[l].workspace, provider |-> provider,
                               mode |-> mode, revoked |-> FALSE,
                               health |-> checked.health, quota |-> checked.quota]
                ELSE rows[b]]
  /\ link' = [link EXCEPT ![l] = IdleLink]
  /\ UNCHANGED <<pools, intents, exchanged, sim>>

Create(l) == link[l].at = "create"

\* The health check tells what the row keeps.
CreateDriveRow(l) ==
  /\ Create(l) /\ link[l].intent # Nil
  /\ \E a \in Accounts \ DOMAIN rows, q \in DriveQuotas :
       Linked(l, a, "drive", "oauth", DriveHealth(q[1], q[2]))

CreateTelegramRow(l) ==
  /\ Create(l) /\ link[l].intent = Nil
  /\ \E a \in Accounts \ DOMAIN rows, mode \in BotModes :
       Linked(l, a, "telegram", mode, TelegramHealth)

\* The health check or the statement fails.
CreateFails(l) ==
  /\ Create(l)
  /\ link' = [link EXCEPT ![l] = IdleLink]
  /\ UNCHANGED <<rows, pools, intents, exchanged, sim>>

\* External: an account is revoked in the database.
Revoke(a) ==
  /\ a \in DOMAIN rows /\ rows' = [rows EXCEPT ![a].revoked = TRUE]
  /\ UNCHANGED <<pools, intents, link, exchanged, sim>>

\* The rows a pool's entries connect to must be there; whose they are is not
\* asked.
CreatePool(p) ==
  /\ Cardinality(pools) < MaxPools
  /\ \A i \in DOMAIN p.members : p.members[i].account \in DOMAIN rows
  /\ pools' = pools \cup {p}
  /\ UNCHANGED <<rows, intents, link, exchanged, sim>>

-----------------------------------------------------------------------------
\* getPool: a pool of the workspace of the request.
ReadPool(p, f) ==
  /\ sim.at = "idle" /\ p \in pools
  /\ sim' = [IdleSim EXCEPT !.at = "pool", !.pool = p, !.file = f]
  /\ UNCHANGED <<rows, pools, intents, link, exchanged>>

AccountOf(row) ==
  [provider |-> row.provider, health |-> row.health, revoked |-> row.revoked,
   maxUpload |-> MaxUpload(row.mode), quota |-> row.quota]

(* Mutant: the accounts of every workspace.                                 *)
ListProvidersOfAll(w) == [a \in DOMAIN rows |-> AccountOf(rows[a])]

\* listProviders: the accounts of that workspace.
ListProviders(w) ==
  [a \in {b \in DOMAIN rows : rows[b].workspace = w} |-> AccountOf(rows[a])]

Route ==
  LET view == ListProviders(sim.pool.workspace) IN
  /\ sim.at = "pool"
  /\ sim' = [sim EXCEPT !.at = "done", !.view = view,
                        !.decision = SimulateRoute(sim.file, sim.pool, view)]
  /\ UNCHANGED <<rows, pools, intents, link, exchanged>>

Answer ==
  /\ sim.at = "done"
  /\ sim' = IdleSim
  /\ UNCHANGED <<rows, pools, intents, link, exchanged>>

Next ==
  \/ \E n \in Intents, w \in Workspaces : CreateIntent(n, w)
  \/ \E n \in Intents : ExpireIntent(n)
  \/ \E l \in Links, n \in Intents : Callback(l, n)
  \/ \E l \in Links, w \in Workspaces : CreateTelegram(l, w)
  \/ \E l \in Links :
       Exchange(l) \/ CreateDriveRow(l) \/ CreateTelegramRow(l) \/ CreateFails(l)
  \/ \E a \in Accounts : Revoke(a)
  \/ \E p \in Pool : CreatePool(p)
  \/ \E p \in pools, f \in Files : ReadPool(p, f)
  \/ Route \/ Answer

Spec == Init /\ [][Next]_vars

-----------------------------------------------------------------------------
Chosen(d) == ({d.selected} \cup d.replicas) \ {Nil}
Done == sim.at = "done"

(* A file is routed to accounts of the workspace alone, although a pool may *)
(* name any account: createPool asks for its existence only                 *)
(* (provider.store.ts:146).                                                 *)
RoutesWithinWorkspace ==
  Done => \A a \in Chosen(sim.decision) :
            a \in DOMAIN rows /\ rows[a].workspace = sim.pool.workspace

(* A member that is refused, or that another workspace owns, is as if it    *)
(* were not in the pool: it changes neither account nor copies nor status.  *)
RefusedIsInert == Done => Inert(sim.file, sim.pool, sim.view)

(* A balanced pool prefers room: no Drive account of a better priority that *)
(* takes the file is notably roomier than the selected Drive account.       *)
RoomDecides ==
  Done /\ sim.pool.mode = "balanced" =>
    LET m == sim.pool.members  S == Accepted(sim.file, m, sim.view) IN
    \A i, j \in S :
      m[i].account = sim.decision.selected /\ m[j].priority <= m[i].priority
        => ~Roomier(sim.file, sim.view[m[i].account], sim.view[m[j].account])

(* A link intent is spent by the callback that exchanges a code: a callback *)
(* that begins later is refused.                                            *)
IntentSpent ==
  [][\A l \in Links : link[l].at = "idle" /\ link'[l].at = "exchange"
                        => link'[l].intent \notin exchanged]_vars
=============================================================================
