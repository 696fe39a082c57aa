\* Two commands push, both nodes pull, one request or write fails.
SPECIFICATION FairSpec
CONSTANTS
    n1 = n1
    n2 = n2
    n3 = n3
    c1 = c1
    c2 = c2
    e1 = e1
    e2 = e2
    NoFile = NoFile
    NoRequest = NoRequest
    Nodes = {n1, n2}
    Pullers = {n1, n2}
    Commands = {c1, c2}
    Entries = {e1, e2}
    At <- AtFirstTwo
    Adds <- OneEntryEach
    Removes <- NoRemoves
    Hash <- BitOrder
    InitialFiles <- NoFiles
    Merging = TRUE
    MaxFailures = 1
INVARIANTS
    KeptWhenAlone
PROPERTIES
    Convergence
