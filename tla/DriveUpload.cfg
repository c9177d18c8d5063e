\* One call at a time, a file of four granules in chunks of two.  Chunks stored
\* in part while search and the credential store fail; and requests that arrive
\* late, with chunks stored whole or in part.
CONSTANTS
    Nil = Nil
    Clients = {u1}
    Sessions = {s1, s2}
    Size = 4
    Chunk = 2
    Attempts = 2
    FailureSets = {{"crash", "keyring", "search", "partial"},
                   {"crash", "delay"}, {"crash", "delay", "partial"}}
SPECIFICATION FairSpec
INVARIANTS VerifiedContent OneCopy
PROPERTIES UploadReturns KeepsSession
