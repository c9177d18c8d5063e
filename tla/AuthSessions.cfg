\* Two clients of one user, two requests at a time, both stores, one fault.
CONSTANTS
    c1 = c1  c2 = c2
    r1 = r1  r2 = r2
    u1 = u1
    Nil = Nil
    Clients = {c1, c2}
    Requests = {r1, r2}
    Users = {u1}
    UserOf <- OneUser
    DevUser = u1
    Stores = {"database", "memory"}
    AccessTtl = 1  RefreshTtl = 2
    MaxTime = 2
    MaxFaults = 1
SPECIFICATION Spec
INVARIANTS OneHolder HeldIsLive
PROPERTIES EndedStaysEnded
SYMMETRY Symmetries
CHECK_DEADLOCK FALSE
