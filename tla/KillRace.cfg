\* A kill races the end of the command.
SPECIFICATION Spec
CONSTANTS
    t1 = t1
    t2 = t2
    p1 = p1
    p2 = p2
    p3 = p3
    p4 = p4
    NoTask = NoTask
    NoPid = NoPid
    Tasks = {t1, t2}
    Pids = {p1, p2, p3}
    Parent <- NoParent
    worker_count = 1
    max_worker_count = 1
    worker_reset_limit = 1
    deadlock_threshold_timeout = 0
    unresponsive_timeout = 0
    abandoned_timeout = 0
    deletion_timeout = 0
    CompletionTypes = {"SUCCESS"}
    KillableTasks = {t1}
    WaitedTasks = {}
    EscapingTasks = {}
    MaxAge = 1
    MaxReports = 0
    MaxCrashes = 0
INVARIANTS
    NoInvalidStateChange
