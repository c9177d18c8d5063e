\* Two workspaces, two accounts, one pool, two links at a time.
CONSTANTS
    w1 = w1  w2 = w2
    a1 = a1  a2 = a2
    l1 = l1  l2 = l2
    pdf = pdf
    Nil = Nil
    Workspaces = {w1, w2}
    Accounts = {a1, a2}
    Intents = {n1}
    Links = {l1, l2}
    DriveQuotas <- MCQuotas
    BotModes = {"public_bot_api"}
    PublicLimit = 3  LocalLimit = 9
    Memberships <- MCMemberships
    PoolSizes = {2}
    MaxPools = 1
    Modes = {"fill_first", "balanced", "replicated"}
    Files <- MCFiles
    Traits = {pdf}
SPECIFICATION Spec
INVARIANTS RoutesWithinWorkspace RefusedIsInert RoomDecides
PROPERTIES IntentSpent
SYMMETRY Symmetries
CHECK_DEADLOCK FALSE
