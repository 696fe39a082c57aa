\* Three names, four addresses of all families, two links.
SPECIFICATION Spec
CONSTANTS
    n1 = n1
    n2 = n2
    n3 = n3
    a4 = a4
    a6 = a6
    f1 = f1
    f2 = f2
    NoDevice = NoDevice
    Names = {n1, n2, n3}
    Addrs = {a4, a6, f1, f2}
    LinksMax = 2
    Family <- Families
    Knet = TRUE
    PcmkAddrs = {}
    PcmkNames = {}
    InitialConfigs <- Setups
    MaxNewNodes = 2
    InputDevices <- SomeDevices
    MaxRepeats = 1
    Forces = {TRUE, FALSE}
INVARIANTS
    TypeOK
    NodelistConsistent
    QuorumConsistent
PROPERTIES
    TieBreakerLostByForce
    AtbLostByForce
    RunningOnlyReloads
    TieBreakingKept
SYMMETRY Symmetry
