\* The daemon is told to stop while its workers run.
SPECIFICATION ShutdownSpec
CONSTANTS
    t1 = t1
    t2 = t2
    p1 = p1
    p2 = p2
    p3 = p3
    NoTask = NoTask
    NoPid = NoPid
    Tasks = {t1, t2}
    Pids = {p1, p2}
    Parent <- NoParent
    worker_count = 1
    max_worker_count = 1
    worker_reset_limit = 1
    deadlock_threshold_timeout = 0
    unresponsive_timeout = 0
    abandoned_timeout = 0
    deletion_timeout = 0
    CompletionTypes = {"SUCCESS"}
    KillableTasks = {}
    WaitedTasks = {}
    EscapingTasks = {t1}
    MaxAge = 1
    MaxReports = 1
    MaxCrashes = 0
PROPERTIES
    OnlyPausedBlocksShutdown
CHECK_DEADLOCK FALSE
