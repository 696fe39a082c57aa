----------------------------- MODULE Scheduler -----------------------------
(***************************************************************************)
(* The asynchronous task scheduler of the pcsd daemon                      *)
(* (pcs/daemon/async_tasks): the task register and its garbage collector   *)
(* (scheduler.py), the life cycle of one task (task.py), and the worker    *)
(* processes that run the tasks (worker/executor.py and communicator.py).  *)
(*                                                                         *)
(* The daemon runs one event loop.  API handlers are atomic with respect   *)
(* to it; perform_actions is a periodic callback that never yields to the  *)
(* loop, so API calls happen only between two passes.  The workers are     *)
(* separate processes: their steps interleave with every step of a pass.   *)
(* They share with the daemon the pool's input queue, the message queue    *)
(* and POSIX signals.                                                      *)
(***************************************************************************)
EXTENDS Task, Sequences, FiniteSets

CONSTANTS
    Tasks,                      \* task identifiers a run may create
    NoTask,                     \* "no task": not an element of Tasks
    Parent,                     \* the task whose command requests this one
    worker_count,               \* SchedulerConfig.worker_count
    max_worker_count,           \* SchedulerConfig.max_worker_count
    worker_reset_limit,         \* tasks a pool worker runs before it exits
    deadlock_threshold_timeout, \* SchedulerConfig, in clock ticks
    KillableTasks,              \* bound: tasks whose client may kill them
    WaitedTasks,                \* bound: tasks whose client may wait for them
    EscapingTasks,              \* bound: tasks with an exception nobody catches
    MaxReports,                 \* bound: reports one command sends
    MaxCrashes                  \* bound: workers that die on their own

ASSUME SchedulerAssumption ==
    /\ NoTask \notin Tasks
    /\ Parent \in [Tasks -> Tasks \cup {NoTask}]
    /\ worker_count \in Nat \ {0}
    /\ max_worker_count \in Nat
    /\ worker_reset_limit \in Nat \ {0}
    /\ deadlock_threshold_timeout \in Nat
    /\ KillableTasks \subseteq Tasks
    /\ WaitedTasks \subseteq Tasks
    /\ EscapingTasks \subseteq Tasks
    /\ MaxReports \in Nat
    /\ MaxCrashes \in Nat
    /\ IsFiniteSet(Pids)          \* a kernel has a largest pid

VARIABLES
    task,        \* Task objects, by identifier
    register,    \* _task_register: identifiers in the order of insertion
    inqueue,     \* the pool's queue of tasks handed over by apply_async
    messages,    \* _worker_message_q
    proc,        \* the worker processes, by pid
    singleUse,   \* _single_use_process_pool: pids of temporary workers
    pc,          \* where the daemon's main thread is
    toReceive,   \* messages left in the range() of _receive_messages
    toProcess,   \* tasks left in the list() of _process_tasks
    crashes,     \* workers that died on their own so far
    escaped      \* history: tasks an exception has taken a worker out of

vars == <<task, register, inqueue, messages, proc, singleUse, pc, toReceive,
          toProcess, crashes, escaped>>

-----------------------------------------------------------------------------
IsRegistered(t) == \E i \in DOMAIN register : register[i] = t

\* del self._task_register[t]
Without(s, t) ==
    LET i == CHOOSE i \in DOMAIN s : s[i] = t
    IN IF \E j \in DOMAIN s : s[j] = t
       THEN [j \in 1 .. Len(s) - 1 |-> IF j < i THEN s[j] ELSE s[j + 1]]
       ELSE s

-----------------------------------------------------------------------------
(* Worker processes and signals                                            *)

Alive == {"run", "stopped"}

\* A Message with a TaskExecuted(pid), ReportItemDto or TaskFinished(type)
\* payload.
Message(kind, t, pid, type) ==
    [kind |-> kind, task |-> t, pid |-> pid, type |-> type]

MessageSet ==
    {Message("executed", t, p, "none") : t \in Tasks, p \in Pids}
        \cup {Message("report", t, NoPid, "none") : t \in Tasks}
        \cup {Message("finished", t, NoPid, type) :
                 t \in Tasks, type \in CompletionTypes}

NoMessage == Message("none", NoTask, NoPid, "none")

\* at: "get" waits on the input queue, "begin" has a task and has not
\* announced it, "run" runs the command, "pause" has announced the end of the
\* command, "resume" is inside or just after _pause_worker's SIGSTOP.
ProcRecord ==
    [status : {"run", "stopped", "zombie", "gone"},
     kind : {"pool", "temp"},
     at : {"get", "begin", "run", "pause", "resume"},
     job : Tasks \cup {NoTask},
     out : MessageSet \cup {NoMessage}, \* WorkerCommunicator.put in progress
     terminate : BOOLEAN,               \* WorkerCommunicator._terminate
     sigterm : BOOLEAN,                 \* SIGTERM is pending
     sent : 0 .. MaxReports,            \* reports of the running command
     done : 0 .. worker_reset_limit]    \* mp.pool.worker: completed

FreshProc(kind) ==
    [status |-> "run", kind |-> kind, at |-> "get", job |-> NoTask,
     out |-> NoMessage, terminate |-> FALSE, sigterm |-> FALSE, sent |-> 0,
     done |-> 0]

\* A process that ended; "zombie" until its parent has reaped it.
Ended(kind, status) == [FreshProc(kind) EXCEPT !.status = status]

IsLocked(p) == proc[p].out # NoMessage

\* kill(-1, sig) signals every process the daemon may signal.
Targets(pid) == IF pid = NoPid THEN Pids ELSE {pid}

\* os.kill raises ProcessLookupError when no such process exists; a zombie
\* still exists.
ProcessExists(pid) == \E p \in Targets(pid) : proc[p].status # "gone"

Sigterm(pid) ==
    [p \in Pids |-> IF p \in Targets(pid) /\ proc[p].status \in Alive
                    THEN [proc[p] EXCEPT !.sigterm = TRUE]
                    ELSE proc[p]]

\* Faulty variant of Sigcont: signals the process group of all workers.
SigcontGroup(pid) ==
    [p \in Pids |-> IF proc[p].status = "stopped"
                    THEN [proc[p] EXCEPT !.status = "run"]
                    ELSE proc[p]]

\* SIGCONT wakes a stopped process and is lost on a running one.
Sigcont(pid) ==
    [p \in Pids |-> IF p \in Targets(pid) /\ proc[p].status = "stopped"
                    THEN [proc[p] EXCEPT !.status = "run"]
                    ELSE proc[p]]

\* The scheduler may still send a signal to this pid.
IsReferenced(p) ==
    \/ \E t \in Tasks : /\ task[t].state \in {"QUEUED", "EXECUTED"}
                        /\ task[t].pid = p
    \/ \E i \in DOMAIN messages : /\ messages[i].kind = "executed"
                                  /\ messages[i].pid = p

\* Pids the kernel may give to a new process: it does not reuse one that the
\* scheduler still refers to.
FreePids(temps) ==
    {p \in Pids : proc[p].status = "gone" /\ ~IsReferenced(p) /\ p \notin temps}

-----------------------------------------------------------------------------
Init ==
    /\ task = [t \in Tasks |-> NewTaskRecord]
    /\ register = <<>>
    /\ inqueue = <<>>
    /\ messages = <<>>
    /\ \E S \in SUBSET Pids :
          /\ Cardinality(S) = worker_count
          /\ proc = [p \in Pids |-> IF p \in S THEN FreshProc("pool")
                                               ELSE Ended("pool", "gone")]
    /\ singleUse = {}
    /\ pc = "idle"
    /\ toReceive = 0
    /\ toProcess = <<>>
    /\ crashes = 0
    /\ escaped = {}

-----------------------------------------------------------------------------
(* API of the scheduler; the caller owns the task.  A call that names an   *)
(* unknown task or another user's raises TaskNotFoundError and changes     *)
(* nothing.                                                                *)

ApiVarsUnchanged ==
    UNCHANGED <<inqueue, messages, proc, singleUse, pc, toReceive, toProcess,
                crashes, escaped>>

\* A task with a parent is requested by the parent's command, which sends a
\* request to the daemon it runs under.
NewTask(t) ==
    /\ pc = "idle"
    /\ task[t].state = "NEW"
    /\ Parent[t] # NoTask =>
          \E p \in Pids : /\ proc[p].status = "run"
                          /\ proc[p].at = "run"
                          /\ proc[p].job = Parent[t]
    /\ task' = [task EXCEPT ![t].state = "CREATED"]
    /\ register' = Append(register, t)
    /\ ApiVarsUnchanged

\* Faulty variant of GetTask: any poll asks for the deletion.
GetTaskAnyState(t) ==
    /\ pc = "idle"
    /\ IsRegistered(t)
    /\ task' = [task EXCEPT ![t] = RequestDeletion(@)]
    /\ UNCHANGED register
    /\ ApiVarsUnchanged

\* Only the poll of a finished task leaves a trace.
GetTask(t) ==
    /\ pc = "idle"
    /\ IsRegistered(t)
    /\ task[t].state = "FINISHED"
    /\ task' = [task EXCEPT ![t] = RequestDeletion(@)]
    /\ UNCHANGED register
    /\ ApiVarsUnchanged

KillTask(t) ==
    /\ pc = "idle"
    /\ t \in KillableTasks
    /\ IsRegistered(t)
    /\ task' = [task EXCEPT ![t] = RequestKill(@, "USER")]
    /\ UNCHANGED register
    /\ ApiVarsUnchanged

\* wait_for_task up to its await.
WaitForTask(t) ==
    /\ pc = "idle"
    /\ t \in WaitedTasks
    /\ IsRegistered(t)
    /\ task[t].client = "none"
    /\ task' = [task EXCEPT ![t].client = "waiting"]
    /\ UNCHANGED register
    /\ ApiVarsUnchanged

\* Faulty variant of WaitedForTask: looks the task up again after the await.
WaitedForRegisteredTask(t) ==
    /\ pc = "idle"
    /\ IsRegistered(t)
    /\ task[t].client = "waiting"
    /\ task[t].state = "FINISHED"
    /\ task' = [task EXCEPT ![t] = [RequestDeletion(@) EXCEPT
                                        !.client = "answered"]]
    /\ UNCHANGED register
    /\ ApiVarsUnchanged

\* wait_for_task after its await; the coroutine holds the Task object, so the
\* task may have left the register.
WaitedForTask(t) ==
    /\ pc = "idle"
    /\ task[t].client = "waiting"
    /\ task[t].state = "FINISHED"
    /\ task' = [task EXCEPT ![t] = [RequestDeletion(@) EXCEPT
                                        !.client = "answered"]]
    /\ UNCHANGED register
    /\ ApiVarsUnchanged

-----------------------------------------------------------------------------
(* perform_actions: one pass of the scheduler                              *)

BeginPass ==
    /\ pc = "idle"
    /\ pc' = "receive"
    /\ toReceive' = Len(messages)
    /\ UNCHANGED <<task, register, inqueue, messages, proc, singleUse,
                   toProcess, crashes, escaped>>

\* An exception that _receive_messages does not handle ends the whole pass;
\* PeriodicCallback logs it and schedules the next pass.
AbortPass ==
    /\ pc' = "idle"
    /\ toReceive' = 0

NextMessage ==
    /\ pc' = pc
    /\ toReceive' = toReceive - 1

ReceiveMessage ==
    /\ pc = "receive"
    /\ toReceive > 0
    /\ messages' = Tail(messages)
    /\ UNCHANGED <<register, inqueue, singleUse, toProcess, crashes, escaped>>

\* The task is not in the register any more: logged and skipped.
ReceiveUnknown ==
    /\ ReceiveMessage
    /\ ~IsRegistered(Head(messages).task)
    /\ NextMessage
    /\ UNCHANGED <<task, proc>>

ReceiveReport ==
    /\ ReceiveMessage
    /\ Head(messages).kind = "report"
    /\ LET t == Head(messages).task IN
          /\ IsRegistered(t)
          /\ task' = [task EXCEPT ![t].reports = @ + 1,
                                  ![t].lastMessage = 0]
    /\ NextMessage
    /\ UNCHANGED proc

\* _message_executed
ReceiveExecuted ==
    /\ ReceiveMessage
    /\ Head(messages).kind = "executed"
    /\ LET t == Head(messages).task IN
          /\ IsRegistered(t)
          /\ IF CanSetState(task[t], "EXECUTED")
             THEN /\ task' = [task EXCEPT ![t].pid = Head(messages).pid,
                                          ![t].state = "EXECUTED",
                                          ![t].lastMessage = 0]
                  /\ NextMessage
             ELSE /\ task' = [task EXCEPT ![t].pid = Head(messages).pid]
                  /\ AbortPass
    /\ UNCHANGED proc

\* _message_finished: the result is stored before the state is checked, and
\* the worker is resumed after the state is set.
ReceiveFinished ==
    /\ ReceiveMessage
    /\ Head(messages).kind = "finished"
    /\ LET t == Head(messages).task
           type == Head(messages).type
           done == [task[t] EXCEPT !.result = ResultOf(type), !.state = "FINISHED",
                                   !.finishType = type]
       IN /\ IsRegistered(t)
          /\ \/ /\ ~CanSetState(task[t], "FINISHED")
                /\ task' = [task EXCEPT ![t].result = ResultOf(type)]
                /\ UNCHANGED proc
                /\ AbortPass
             \/ /\ CanSetState(task[t], "FINISHED")
                /\ ProcessExists(task[t].pid)
                /\ proc' = Sigcont(task[t].pid)
                /\ task' = [task EXCEPT ![t] = [done EXCEPT !.lastMessage = 0]]
                /\ NextMessage
             \/ /\ CanSetState(task[t], "FINISHED")
                /\ ~ProcessExists(task[t].pid)
                /\ task' = [task EXCEPT ![t] = done]
                /\ UNCHANGED proc
                /\ AbortPass

\* The range of _receive_messages is used up; _process_tasks takes a copy of
\* the register.
EndReceive ==
    /\ pc = "receive"
    /\ toReceive = 0
    /\ pc' = "process"
    /\ toProcess' = register
    /\ UNCHANGED <<task, register, inqueue, messages, proc, singleUse,
                   toReceive, crashes, escaped>>

\* Faulty variant of CanKill: QUEUED tasks are killed too.
CanKillQueued(r) ==
    /\ IsKillRequested(r)
    /\ \/ r.state \in {"CREATED", "QUEUED"}
       \/ r.state = "EXECUTED" /\ ProcessExists(r.pid)

\* Task.kill changes the task: never a QUEUED one, and an EXECUTED one only
\* if its worker could be signalled.
CanKill(r) ==
    /\ IsKillRequested(r)
    /\ \/ r.state = "CREATED"
       \/ r.state = "EXECUTED" /\ ProcessExists(r.pid)

ProcessTask ==
    /\ pc = "process"
    /\ toProcess # <<>>
    /\ LET t == Head(toProcess)
           reviewed == Reviewed(task[t])
           isKilled == CanKill(reviewed)
           final == IF isKilled THEN Killed(reviewed) ELSE reviewed
       IN /\ inqueue' = IF task[t].state = "CREATED" /\ ~IsKillRequested(task[t])
                        THEN Append(inqueue, t) ELSE inqueue
          /\ proc' = IF isKilled /\ reviewed.state = "EXECUTED"
                     THEN Sigterm(reviewed.pid) ELSE proc
          /\ task' = [task EXCEPT ![t] = final]
          /\ register' = IF IsDeletionRequested(final)
                         THEN Without(register, t) ELSE register
    /\ toProcess' = Tail(toProcess)
    /\ UNCHANGED <<messages, singleUse, pc, toReceive, crashes, escaped>>

TasksIn(s) == {t \in Tasks : IsRegistered(t) /\ task[t].state = s}

\* Faulty variant of IsPossiblyDeadLocked: < in place of <=.
IsPossiblyDeadLockedStrict(temps) ==
    /\ Cardinality(TasksIn("CREATED")) + Cardinality(TasksIn("QUEUED")) > 0
    /\ worker_count + Cardinality(temps) < Cardinality(TasksIn("EXECUTED"))
    /\ \A t \in TasksIn("EXECUTED") :
          IsDefunct(task[t], deadlock_threshold_timeout)

IsPossiblyDeadLocked(temps) ==
    /\ Cardinality(TasksIn("CREATED")) + Cardinality(TasksIn("QUEUED")) > 0
    /\ worker_count + Cardinality(temps) <= Cardinality(TasksIn("EXECUTED"))
    /\ \A t \in TasksIn("EXECUTED") :
          IsDefunct(task[t], deadlock_threshold_timeout)

\* Faulty variant of HandleSingleUsePool: the list of live temporary workers
\* is not carried over to the next pass.
HandleSingleUsePoolForgets ==
    /\ pc = "process"
    /\ toProcess = <<>>
    /\ IF /\ IsPossiblyDeadLocked({})
          /\ 0 < max_worker_count - worker_count
       THEN \E p \in FreePids({}) :
               /\ proc' = [proc EXCEPT ![p] = FreshProc("temp")]
               /\ singleUse' = {p}
       ELSE /\ singleUse' = {}
            /\ UNCHANGED proc
    /\ pc' = "idle"
    /\ UNCHANGED <<task, register, inqueue, messages, toReceive, toProcess,
                   crashes, escaped>>

\* _handle_single_use_process_pool and the start of a temporary worker.
HandleSingleUsePool ==
    /\ pc = "process"
    /\ toProcess = <<>>
    /\ LET temps == {p \in singleUse : proc[p].status # "gone"}
       IN IF /\ IsPossiblyDeadLocked(temps)
             /\ Cardinality(temps) < max_worker_count - worker_count
          THEN \E p \in FreePids(temps) :
                  /\ proc' = [proc EXCEPT ![p] = FreshProc("temp")]
                  /\ singleUse' = temps \cup {p}
          ELSE /\ singleUse' = temps
               /\ UNCHANGED proc
    /\ pc' = "idle"
    /\ UNCHANGED <<task, register, inqueue, messages, toReceive, toProcess,
                   crashes, escaped>>

PassStep ==
    \/ BeginPass
    \/ ReceiveUnknown
    \/ ReceiveReport
    \/ ReceiveExecuted
    \/ ReceiveFinished
    \/ EndReceive
    \/ ProcessTask
    \/ HandleSingleUsePool

-----------------------------------------------------------------------------
(* Worker processes.  A pending SIGTERM does not stop a process at once:   *)
(* Python runs the handler between bytecodes, see HandleSigterm.           *)

Running(p, at) ==
    /\ proc[p].status = "run"
    /\ proc[p].at = at
    /\ ~IsLocked(p)

WorkerVarsUnchanged ==
    UNCHANGED <<task, register, singleUse, pc, toReceive, toProcess, crashes,
                escaped>>

Exits(p) == proc' = [proc EXCEPT ![p] = Ended(proc[p].kind, "zombie")]

\* Faulty variant of TakeTask: the task stays in the queue.
TakeTaskKept(p) ==
    /\ Running(p, "get")
    /\ inqueue # <<>>
    /\ proc' = [proc EXCEPT ![p].at = "begin", ![p].job = Head(inqueue),
                            ![p].sent = 0]
    /\ UNCHANGED <<inqueue, messages>>
    /\ WorkerVarsUnchanged

\* mp.pool.worker takes a task from the input queue.
TakeTask(p) ==
    /\ Running(p, "get")
    /\ inqueue # <<>>
    /\ inqueue' = Tail(inqueue)
    /\ proc' = [proc EXCEPT ![p].at = "begin", ![p].job = Head(inqueue),
                            ![p].sent = 0]
    /\ UNCHANGED messages
    /\ WorkerVarsUnchanged

\* WorkerCommunicator.put takes its lock ...
BeginPut(p, m) ==
    /\ proc' = [proc EXCEPT ![p].out = m,
                            ![p].sent = IF m.kind = "report" THEN @ + 1 ELSE @]
    /\ UNCHANGED <<inqueue, messages>>
    /\ WorkerVarsUnchanged

\* task_executor announces the task.
PutExecuted(p) ==
    /\ Running(p, "begin")
    /\ BeginPut(p, Message("executed", proc[p].job, p, "none"))

\* The command reports, through WorkerReportProcessor or LibraryError.args.
PutReport(p) ==
    /\ Running(p, "run")
    /\ proc[p].sent < MaxReports
    /\ BeginPut(p, Message("report", proc[p].job, NoPid, "none"))

\* The command returned, raised LibraryError or raised another exception.
PutFinished(p, type) ==
    /\ Running(p, "run")
    /\ BeginPut(p, Message("finished", proc[p].job, NoPid, type))

\* Faulty variant of EndPut: does not look at the flag set_terminate sets.
EndPutWithoutCheck(p) ==
    /\ proc[p].status = "run"
    /\ IsLocked(p)
    /\ messages' = Append(messages, proc[p].out)
    /\ proc' = [proc EXCEPT ![p].out = NoMessage,
                            ![p].at = IF proc[p].out.kind = "finished"
                                      THEN "pause" ELSE "run"]
    /\ UNCHANGED inqueue
    /\ WorkerVarsUnchanged

\* ... puts the message, releases the lock and exits if it was terminated
\* meanwhile.
EndPut(p) ==
    /\ proc[p].status = "run"
    /\ IsLocked(p)
    /\ messages' = Append(messages, proc[p].out)
    /\ IF proc[p].terminate
       THEN Exits(p)
       ELSE proc' = [proc EXCEPT ![p].out = NoMessage,
                                 ![p].at = IF proc[p].out.kind = "finished"
                                           THEN "pause" ELSE "run"]
    /\ UNCHANGED inqueue
    /\ WorkerVarsUnchanged

\* Faulty variant of PauseWorker: the worker goes on without a pause.
PauseWorkerSkipped(p) ==
    /\ Running(p, "pause")
    /\ proc' = [proc EXCEPT ![p].at = "resume"]
    /\ UNCHANGED <<inqueue, messages>>
    /\ WorkerVarsUnchanged

\* _pause_worker sends SIGSTOP to its own process.
PauseWorker(p) ==
    /\ Running(p, "pause")
    /\ proc' = [proc EXCEPT ![p].status = "stopped", ![p].at = "resume"]
    /\ UNCHANGED <<inqueue, messages>>
    /\ WorkerVarsUnchanged

\* task_executor is left for mp.pool.worker, which ends the process after its
\* last task; a temporary worker has one task.
LeavesTask(p) ==
    LET limit == IF proc[p].kind = "temp" THEN 1 ELSE worker_reset_limit
    IN IF proc[p].done + 1 >= limit
       THEN Exits(p)
       ELSE proc' = [proc EXCEPT ![p].at = "get", ![p].job = NoTask,
                                 ![p].out = NoMessage, ![p].done = @ + 1]

ReturnFromTask(p) ==
    /\ Running(p, "resume")
    /\ LeavesTask(p)
    /\ UNCHANGED <<inqueue, messages>>
    /\ WorkerVarsUnchanged

\* An exception leaves task_executor: it was raised before the try, inside an
\* except clause, or by the put of a result that cannot be pickled, which
\* releases the lock and does not look at the flag set_terminate sets.
\* mp.pool.worker catches it: the worker goes on without a TaskFinished and
\* without a pause.
EscapeTask(p) ==
    /\ proc[p].status = "run"
    /\ proc[p].at = "run"
    /\ proc[p].job \in EscapingTasks
    /\ IsLocked(p) => /\ proc[p].out.kind = "finished"
                      /\ proc[p].out.type = "SUCCESS"
    /\ LeavesTask(p)
    /\ escaped' = escaped \cup {proc[p].job}
    /\ UNCHANGED <<task, register, inqueue, messages, singleUse, pc, toReceive,
                   toProcess, crashes>>

\* Faulty variant of HandleSigterm: leaves the exit to the next put.
HandleSigtermLater(p) ==
    /\ proc[p].status = "run"
    /\ proc[p].sigterm
    /\ proc' = [proc EXCEPT ![p].sigterm = FALSE, ![p].terminate = TRUE]
    /\ UNCHANGED <<inqueue, messages>>
    /\ WorkerVarsUnchanged

\* _sigterm_handler
HandleSigterm(p) ==
    /\ proc[p].status = "run"
    /\ proc[p].sigterm
    /\ IF IsLocked(p)
       THEN proc' = [proc EXCEPT ![p].sigterm = FALSE, ![p].terminate = TRUE]
       ELSE Exits(p)
    /\ UNCHANGED <<inqueue, messages>>
    /\ WorkerVarsUnchanged

\* A worker dies on its own (SIGKILL, a fault in a C library).
Crash(p) ==
    /\ crashes < MaxCrashes
    /\ proc[p].status = "run"
    /\ Exits(p)
    /\ crashes' = crashes + 1
    /\ UNCHANGED <<task, register, inqueue, messages, singleUse, pc, toReceive,
                   toProcess, escaped>>

\* The fork server, parent of the workers, reaps a zombie.
Reap(p) ==
    /\ proc[p].status = "zombie"
    /\ proc' = [proc EXCEPT ![p] = Ended(proc[p].kind, "gone")]
    /\ UNCHANGED <<inqueue, messages>>
    /\ WorkerVarsUnchanged

\* mp.Pool replaces exited workers from a thread of the daemon.
RespawnWorker ==
    /\ pc \notin {"terminating", "terminated"}
    /\ Cardinality({p \in Pids : /\ proc[p].kind = "pool"
                                 /\ proc[p].status # "gone"}) < worker_count
    /\ \E p \in FreePids(singleUse) :
          proc' = [proc EXCEPT ![p] = FreshProc("pool")]
    /\ UNCHANGED <<inqueue, messages>>
    /\ WorkerVarsUnchanged

\* The steps the operating system's scheduler gives every live worker.
WorkerStep(p) ==
    \/ TakeTask(p)
    \/ PutExecuted(p)
    \/ EndPut(p)
    \/ PauseWorker(p)
    \/ ReturnFromTask(p)
    \/ HandleSigterm(p)

\* The steps that depend on the command.
CommandStep(p) ==
    \/ PutReport(p)
    \/ \E type \in CompletionTypes : PutFinished(p, type)
    \/ EscapeTask(p)

-----------------------------------------------------------------------------
\* The clock.
Tick ==
    /\ task' = [t \in Tasks |->
                  [task[t] EXCEPT
                     !.lastMessage = IF @ \in {Never, MaxAge} THEN @ ELSE @ + 1,
                     !.toDelete = IF @ \in {Never, 0} THEN @ ELSE @ - 1]]
    /\ task' # task
    /\ UNCHANGED <<register, inqueue, messages, proc, singleUse, pc, toReceive,
                   toProcess, crashes, escaped>>

ApiStep(t) ==
    \/ NewTask(t)
    \/ GetTask(t)
    \/ KillTask(t)
    \/ WaitForTask(t)
    \/ WaitedForTask(t)

ProcStep(p) ==
    \/ WorkerStep(p)
    \/ CommandStep(p)
    \/ Crash(p)
    \/ Reap(p)

Next ==
    \/ \E t \in Tasks : ApiStep(t)
    \/ PassStep
    \/ \E p \in Pids : ProcStep(p)
    \/ RespawnWorker
    \/ Tick

Spec == Init /\ [][Next]_vars

-----------------------------------------------------------------------------
(* Fairness.  The periodic callback keeps firing, the kernel runs every    *)
(* process that is not stopped, the fork server reaps, the pool respawns,  *)
(* the event loop resumes a coroutine whose event is set between two       *)
(* passes, and time passes.  Nothing is assumed of clients, nor of a       *)
(* command: it may hang.                                                   *)

SchedulingFairness ==
    /\ WF_vars(PassStep)
    /\ \A p \in Pids : WF_vars(WorkerStep(p)) /\ WF_vars(Reap(p))
    /\ WF_vars(RespawnWorker)
    /\ \A t \in Tasks : SF_vars(WaitedForTask(t))

Fairness == SchedulingFairness /\ WF_vars(Tick)

FairSpec == Spec /\ Fairness

\* The tasks requested by the command that p runs are finished.
IsAnswered(p) ==
    \A t \in Tasks : /\ Parent[t] = proc[p].job
                     /\ task[t].state # "NEW"
                     => task[t].state = "FINISHED"

\* No task that runs is about to reach its time-out.
TimeoutIsFar ==
    \A t \in Tasks : task[t].state = "EXECUTED" =>
        task[t].lastMessage # unresponsive_timeout

\* A command ends once the requests it waits for have been answered.  The
\* clock may strike the unresponsive timeout of a task, but need not: nothing
\* may rest on that timeout having come.
TerminatingCommandsSpec ==
    /\ Spec
    /\ SchedulingFairness
    /\ WF_vars(TimeoutIsFar /\ Tick)
    /\ \A p \in Pids :
          WF_vars(/\ IsAnswered(p)
                  /\ \E type \in CompletionTypes : PutFinished(p, type))
=============================================================================
