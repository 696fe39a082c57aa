\* A command of the only pool worker waits for a task of its own daemon.
SPECIFICATION TerminatingCommandsSpec
CONSTANTS
    t1 = t1
    t2 = t2
    p1 = p1
    p2 = p2
    p3 = p3
    p4 = p4
    NoTask = NoTask
    NoPid = NoPid
    Tasks = {t1, t2}
    Pids = {p1, p2}
    Parent <- T2OfT1
    worker_count = 1
    max_worker_count = 2
    worker_reset_limit = 2
    deadlock_threshold_timeout = 0
    unresponsive_timeout = 1
    abandoned_timeout = 0
    deletion_timeout = 0
    CompletionTypes = {"SUCCESS"}
    KillableTasks = {}
    WaitedTasks = {}
    EscapingTasks = {}
    MaxAge = 2
    MaxReports = 0
    MaxCrashes = 0
PROPERTIES
    NestedTasksComplete
