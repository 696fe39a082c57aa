\* A pool worker and a temporary worker, a kill and a crash.
SPECIFICATION Spec
CONSTANTS
    t1 = t1
    t2 = t2
    p1 = p1
    p2 = p2
    p3 = p3
    p4 = p4
    NoTask = NoTask
    NoPid = NoPid
    Tasks = {t1, t2}
    Pids = {p1, p2, p3, p4}
    Parent <- NoParent
    worker_count = 1
    max_worker_count = 2
    worker_reset_limit = 2
    deadlock_threshold_timeout = 0
    unresponsive_timeout = 1
    abandoned_timeout = 0
    deletion_timeout = 0
    CompletionTypes = {"SUCCESS"}
    KillableTasks = {t1}
    WaitedTasks = {}
    EscapingTasks = {t1}
    MaxAge = 2
    MaxReports = 0
    MaxCrashes = 1
INVARIANTS
    TypeOK
    InductiveInvariant
    SignalsHitOwnTask
    RunsAtMostOnce
    ExecutedMeetsQueued
    UnfinishedStaysRegistered
    WorkersWithinLimit
PROPERTIES
    ResumedByOwnTask
    StateMovesForward
SYMMETRY PidSymmetry
