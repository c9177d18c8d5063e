\* One command at a time; everything else goes wrong.
CONSTANTS
    t1 = t1  t2 = t2
    n1 = n1  n2 = n2
    c1 = c1  c2 = c2
    Torn = Torn
    Nil = Nil
    Tasks = {t1}
    i1 = i1  i2 = i2  i3 = i3
    Ids = {i1, i2, i3}
    MaxSyncs = 1
    Names = {n1}
    Contents = {c1, c2}
    MaxIndex = 1
    MaxSources = 2
    Verbatim = TRUE
    Failures = {"crash", "save", "io", "source", "write", "remove"}
SPECIFICATION Spec
INVARIANTS NoDuplicates IntactItems
PROPERTIES NoLostItems RescanCovers
SYMMETRY Symmetries
