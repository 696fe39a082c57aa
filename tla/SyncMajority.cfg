\* Three nodes that disagree pull from each other.
SPECIFICATION FairSpec
CONSTANTS
    n1 = n1
    n2 = n2
    n3 = n3
    c1 = c1
    c2 = c2
    e1 = e1
    e2 = e2
    NoFile = NoFile
    NoRequest = NoRequest
    Nodes = {n1, n2, n3}
    Pullers = {n1, n2, n3}
    Commands = {}
    Entries = {e1, e2}
    At <- AtFirstTwo
    Adds <- OneEntryEach
    Removes <- NoRemoves
    Hash <- BitOrder
    InitialFiles <- HalfPushed
    Merging = TRUE
    MaxFailures = 0
PROPERTIES
    Convergence
