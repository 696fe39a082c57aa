\* Two commands on two nodes push known-hosts; the third node pulls.
SPECIFICATION Spec
CONSTANTS
    n1 = n1
    n2 = n2
    n3 = n3
    c1 = c1
    c2 = c2
    e1 = e1
    e2 = e2
    NoFile = NoFile
    NoRequest = NoRequest
    Nodes = {n1, n2, n3}
    Pullers = {n3}
    Commands = {c1, c2}
    Entries = {e1, e2}
    At <- AtFirstTwo
    Adds <- OneEntryEach
    Removes <- SecondRemoves
    Hash <- BitOrder
    InitialFiles <- NoFiles
    Merging = TRUE
    MaxFailures = 0
INVARIANTS
    LockInvariant
PROPERTIES
    ServedNodesForward
