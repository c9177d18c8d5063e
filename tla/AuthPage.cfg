\* One page, one request at a time, no fault.
CONSTANTS
    c1 = c1  c2 = c2
    r1 = r1  r2 = r2
    u1 = u1
    Nil = Nil
    Clients = {c1}
    Requests = {r1}
    Users = {u1}
    UserOf <- OneUser
    DevUser = u1
    Stores = {"database"}
    AccessTtl = 1  RefreshTtl = 2
    MaxTime = 1
    MaxFaults = 0
SPECIFICATION FairSpec
PROPERTIES LoadingEnds
CHECK_DEADLOCK FALSE
