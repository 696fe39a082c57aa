SPECIFICATION Spec
CONSTANTS
    Primitives = {p1, p2}
    Devices = {s1}
    Groups = {g1, g2}
    Clones = {c1}
    Tags = {t1}
    Levels = {l1}
    Plains = {k1}
    SetConstraints = {sc1}
    Sets = {st1, st2}
    Ruled = {lo1}
    Rules = {r1}
    Permissions = {a1}
    Top = Top
    Absent = Absent
    MaxElements = 5
SYMMETRY Symmetry
INVARIANTS
    TypeOK
    RemovalExact
    RemovalClean
    OnlyRegroupingBreaks
CHECK_DEADLOCK FALSE
