\* Two calls at once on the same snapshot; nothing else goes wrong.
CONSTANTS
    Nil = Nil
    Clients = {u1, u2}
    Sessions = {s1, s2}
    Size = 3
    Chunk = 1
    Attempts = 2
    FailureSets = {{}}
SPECIFICATION Spec
INVARIANTS VerifiedContent
