\* Three nodes with two addresses each, all communicators and strategies.
CONSTANTS
    Requests = {r1, r2, r3}
    MaxDest = 2
SPECIFICATION FairSpec
INVARIANTS
    TypeOK
    ExecutedOncePerAddress
    OneAtATime
PROPERTIES
    KeepsPromise
    Returns
CHECK_DEADLOCK FALSE
