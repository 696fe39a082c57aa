------------------------ MODULE SchedulerProperties ------------------------
(***************************************************************************)
(* What the scheduler and its workers promise: invariants, properties of   *)
(* steps, liveness, and the inductive invariant behind the proofs.         *)
(***************************************************************************)
EXTENDS Scheduler

\* Type invariant: every variable keeps its shape.
TypeOK ==
    /\ task \in [Tasks -> TaskRecord]
    /\ register \in Seq(Tasks)
    /\ inqueue \in Seq(Tasks)
    /\ messages \in Seq(MessageSet)
    /\ proc \in [Pids -> ProcRecord]
    /\ singleUse \in SUBSET Pids
    /\ pc \in {"idle", "receive", "process", "terminating", "terminated"}
    /\ toReceive \in Nat
    /\ toProcess \in Seq(Tasks)
    /\ crashes \in 0 .. MaxCrashes
    /\ escaped \in SUBSET Tasks

\* Process p is the one that runs, or has just run and not yet left, task t;
\* or it is dead, and a signal to it does nothing; or an exception that nobody
\* caught has taken the worker of t out of t.
OwnsOrLost(p, t) ==
    \/ proc[p].status \in {"zombie", "gone"}
    \/ proc[p].job = t /\ proc[p].at \in {"run", "pause", "resume"}
    \/ t \in escaped

\* Task.kill and _message_finished signal the pid stored in an EXECUTED task.
\* That pid is a real one (kill(-1) would signal every process) and belongs to
\* a worker that still is at this very task, whatever happened since the pid
\* was read, with one exception: an exception that left task_executor uncaught
\* has taken the worker out of the task with no word to the scheduler, so that
\* the time-out of the lost task terminates whatever that worker runs by then.
\* Nothing else makes a SIGTERM hit a worker that has gone on to another task.
SignalsHitOwnTask ==
    \A t \in Tasks : task[t].state = "EXECUTED" =>
        task[t].pid \in Pids /\ OwnsOrLost(task[t].pid, t)

\* A task is handed over to at most one worker, at most once, and only while
\* the scheduler believes it to be QUEUED: a task killed before _schedule_task
\* never runs, and no task runs twice.
RunsAtMostOnce ==
    /\ \A i, j \in DOMAIN inqueue : inqueue[i] = inqueue[j] => i = j
    /\ \A p, q \in Pids : proc[p].job = proc[q].job /\ proc[p].job # NoTask
                             => p = q
    /\ \A i \in DOMAIN inqueue : /\ task[inqueue[i]].state = "QUEUED"
                                 /\ \A p \in Pids : proc[p].job # inqueue[i]
    /\ \A p \in Pids : proc[p].at = "begin" =>
                          task[proc[p].job].state = "QUEUED"

\* A TaskExecuted message finds its task in the register and QUEUED, so the
\* handler can neither raise AssertionError nor overwrite the pid of a task
\* that is under way.
ExecutedMeetsQueued ==
    \A i \in DOMAIN messages : messages[i].kind = "executed" =>
        /\ task[messages[i].task].state = "QUEUED"
        /\ IsRegistered(messages[i].task)

\* The garbage collector drops finished tasks only, however the requests for
\* deletion, the timeouts and the messages interleave.
UnfinishedStaysRegistered ==
    \A t \in Tasks : task[t].state \in {"CREATED", "QUEUED", "EXECUTED"} =>
        IsRegistered(t)

\* The dead-lock mitigation never makes more worker processes than configured,
\* although the pool respawns its own workers at the same time.
WorkersWithinLimit ==
    worker_count <= max_worker_count =>
        Cardinality({p \in Pids : proc[p].status # "gone"}) <= max_worker_count

\* A task's state only moves forward, and its finish type is settled once it
\* is FINISHED.
StateMovesForward ==
    [][\A t \in Tasks :
          /\ StateIndex[task[t].state] <= StateIndex[task'[t].state]
          /\ task[t].state = "FINISHED" =>
                task'[t].finishType = task[t].finishType]_vars

\* A worker paused after its task is resumed by the scheduler's update of that
\* task and by nothing else.
ResumedByOwnTask ==
    [][\A p \in Pids :
          proc[p].status = "stopped" /\ proc'[p].status = "run" =>
             task[proc[p].job].state # "FINISHED"
               /\ task'[proc[p].job].state = "FINISHED"]_vars

\* "Pausing worker until the scheduler updates status of this task": no worker
\* stays stopped once the scheduler has set its task to FINISHED.
PausedUntilUpdated ==
    \A p \in Pids : proc[p].status = "stopped" =>
        task[proc[p].job].state # "FINISHED"

\* The handlers of TaskExecuted and TaskFinished never trip over the assertion
\* "Invalid Task state change" of _set_state.
NoInvalidStateChange ==
    pc = "receive" /\ toReceive > 0 =>
        LET m == Head(messages) IN
            IsRegistered(m.task) =>
                /\ m.kind = "executed" => CanSetState(task[m.task], "EXECUTED")
                /\ m.kind = "finished" => CanSetState(task[m.task], "FINISHED")

\* A task that a worker has begun finishes: its command ends, its client kills
\* it, or it hangs and the garbage collector kills it.
ExecutedFinishes ==
    \A t \in Tasks : task[t].state = "EXECUTED" ~> task[t].state = "FINISHED"

\* Every task finishes, even if commands hang, provided that no worker is left
\* stopped behind its finished task.
TasksFinish ==
    []PausedUntilUpdated =>
        \A t \in Tasks : task[t].state = "CREATED" ~> task[t].state = "FINISHED"

\* A client that waits for a task gets its answer, under the same proviso,
\* although polls, timeouts and kills may delete the task meanwhile.
WaitersAnswered ==
    []PausedUntilUpdated =>
        \A t \in Tasks : task[t].client = "waiting" ~> task[t].client = "answered"

\* A finished task leaves the register, whether or not its client ever asks.
FinishedCollected ==
    \A t \in Tasks : task[t].state = "FINISHED" ~> ~IsRegistered(t)

\* A command that waits for a task of its own daemon gets it done although all
\* workers of the pool are taken: the temporary workers resolve the dead-lock.
\* The unresponsive timeout may kill the waiting command or the task it waits
\* for at any moment, and both still finish; but none has to wait for it.
NestedTasksComplete ==
    []PausedUntilUpdated =>
        \A t \in Tasks : task[t].state = "CREATED" ~> task[t].state = "FINISHED"

-----------------------------------------------------------------------------
(* The inductive invariant.                                                *)

\* Nothing has been heard of a task that waits in the input queue.
QueuedIsSilent ==
    \A i \in DOMAIN inqueue : \A j \in DOMAIN messages :
        messages[j].task # inqueue[i]

Announced(t) ==
    \E i \in DOMAIN messages :
        messages[i].kind = "executed" /\ messages[i].task = t

\* What the position of a worker process says about its task.
ProcessConsistent(p) ==
    /\ proc[p].status \notin Alive => proc[p].at = "get"
    /\ proc[p].status = "stopped" => proc[p].at = "resume"
    /\ proc[p].at = "get" <=> proc[p].job = NoTask
    /\ proc[p].at = "begin" => \A j \in DOMAIN messages :
                                  messages[j].task # proc[p].job
    /\ proc[p].at = "run" => \A j \in DOMAIN messages :
          messages[j].kind = "finished" => messages[j].task # proc[p].job
    /\ proc[p].at \in {"run", "pause", "resume"} =>
          \/ task[proc[p].job].state \in {"EXECUTED", "FINISHED"}
          \/ task[proc[p].job].state = "QUEUED" /\ Announced(proc[p].job)
    /\ proc[p].at = "resume" /\ proc[p].status = "run" =>
          task[proc[p].job].state = "FINISHED"
    /\ proc[p].out # NoMessage =>
          /\ proc[p].out.task = proc[p].job
          /\ proc[p].out.kind = "executed" => /\ proc[p].at = "begin"
                                              /\ proc[p].out.pid = p
          /\ proc[p].out.kind # "executed" => proc[p].at = "run"

\* A task is announced once, by the worker that runs it, before its worker
\* sends anything else about it.
MessagesConsistent ==
    /\ \A i \in DOMAIN messages : messages[i].kind = "executed" =>
          /\ task[messages[i].task].state = "QUEUED"
          /\ messages[i].pid \in Pids
          /\ OwnsOrLost(messages[i].pid, messages[i].task)
          /\ \A j \in DOMAIN messages :
                /\ messages[j].kind = "executed"
                /\ messages[j].task = messages[i].task
                => i = j
    /\ \A i \in DOMAIN messages : messages[i].kind # "executed" =>
          \/ task[messages[i].task].state \in {"EXECUTED", "FINISHED"}
          \/ \E j \in DOMAIN messages :
                /\ j < i
                /\ messages[j].kind = "executed"
                /\ messages[j].task = messages[i].task

\* A task whose worker was taken out of it by an exception has begun, is in
\* nobody's hands and will never be reported as finished.
EscapedIsLost ==
    \A t \in escaped :
        /\ \/ task[t].state \in {"EXECUTED", "FINISHED"}
           \/ task[t].state = "QUEUED" /\ Announced(t)
        /\ \A p \in Pids : proc[p].job # t
        /\ \A i \in DOMAIN inqueue : inqueue[i] # t
        /\ \A i \in DOMAIN messages :
              messages[i].kind = "finished" => messages[i].task # t

OnlyFinishedDeleted ==
    \A t \in Tasks : task[t].toDelete # Never => task[t].state = "FINISHED"

ReceiveBounded == pc = "receive" => toReceive <= Len(messages)

\* Inductive: every step from a state that satisfies it, reachable or not,
\* leads to a state that satisfies it.
InductiveInvariant ==
    /\ TypeOK
    /\ SignalsHitOwnTask
    /\ RunsAtMostOnce
    /\ UnfinishedStaysRegistered
    /\ QueuedIsSilent
    /\ \A p \in Pids : ProcessConsistent(p)
    /\ MessagesConsistent
    /\ EscapedIsLost
    /\ OnlyFinishedDeleted
    /\ ReceiveBounded
=============================================================================
