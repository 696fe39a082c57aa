\* Two nodes, a third host, two commands in any order and one after the other.
CONSTANTS
    Hosts = {h1, h2, h3}
    Members = {h1, h2}
    Commands = {c1, c2}
    MaxLate = 1
    Together = FALSE
    Options <- EnableAndStart
    Missing = {{}, {"booth", "files"}}
SPECIFICATION Spec
INVARIANTS
    TypeOK
    SelfListed
    PreparedBeforeListed
    ReloadedBeforeStart
SYMMETRY Symmetry
CHECK_DEADLOCK FALSE
