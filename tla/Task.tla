-------------------------------- MODULE Task --------------------------------
(***************************************************************************)
(* One task of the scheduler: the fields of class Task that other code can *)
(* observe (pcs/daemon/async_tasks/task.py) and what its methods do to     *)
(* them.  A method is an operator from the task's record to its record;    *)
(* signals to the worker process are sent by the module Scheduler.         *)
(***************************************************************************)
EXTENDS Integers

CONSTANTS
    Pids,                 \* process identifiers of worker processes
    NoPid,                \* _worker_pid before TaskExecuted arrives: -1
    CompletionTypes,      \* how commands may end by themselves
    unresponsive_timeout, \* TaskConfig, in clock ticks
    abandoned_timeout,    \* TaskConfig, in clock ticks
    deletion_timeout,     \* TaskConfig, in clock ticks
    MaxAge                \* bound: age of a last message, in clock ticks

ASSUME TaskAssumption ==
    /\ NoPid \notin Pids
    /\ CompletionTypes \subseteq {"SUCCESS", "FAIL", "UNHANDLED_EXCEPTION"}
    /\ unresponsive_timeout \in Nat
    /\ abandoned_timeout \in Nat
    /\ deletion_timeout \in Nat
    /\ MaxAge \in Nat

Never == -1      \* Python's None for the two timestamps of a task

\* "NEW" is a task that no client has asked for yet.
States == {"NEW", "CREATED", "QUEUED", "EXECUTED", "FINISHED"}
FinishTypes == CompletionTypes \cup {"UNFINISHED", "KILL"}
KillReasons == {"USER", "COMPLETION_TIMEOUT"}

\* _STATE_CHANGES_SEQUENCE.index
StateIndex ==
    [s \in States |-> CASE s = "NEW" -> 0
                        [] s = "CREATED" -> 1
                        [] s = "QUEUED" -> 2
                        [] s = "EXECUTED" -> 3
                        [] s = "FINISHED" -> 4]

TaskRecord ==
    [state : States,
     finishType : FinishTypes,
     killReason : KillReasons \cup {"none"},
     lastMessage : {Never} \cup 0 .. MaxAge,     \* ticks since _last_message_at
     toDelete : {Never} \cup 0 .. deletion_timeout, \* ticks to the deletion
     pid : Pids \cup {NoPid},
     result : {"none", "value"},                 \* _result
     reports : Nat,                              \* Len(_reports)
     client : {"none", "waiting", "answered"}]   \* wait_for_task coroutine

NewTaskRecord ==
    [state |-> "NEW", finishType |-> "UNFINISHED", killReason |-> "none",
     lastMessage |-> Never, toDelete |-> Never, pid |-> NoPid,
     result |-> "none", reports |-> 0, client |-> "none"]

\* Faulty variant of CanSetState: a state may be set again.
CanSetStateAgain(r, s) == StateIndex[r.state] <= StateIndex[s]

\* _set_state raises AssertionError unless the state moves forward.
CanSetState(r, s) == StateIndex[r.state] < StateIndex[s]

TimedOut(r, timeout) == r.lastMessage # Never /\ r.lastMessage > timeout

\* Faulty variant of IsDefunct: watches tasks that no worker has begun.
IsDefunctQueued(r, timeout) == r.state = "QUEUED" /\ TimedOut(r, timeout)

IsDefunct(r, timeout) == r.state = "EXECUTED" /\ TimedOut(r, timeout)

IsKillRequested(r) == r.killReason # "none"

RequestKill(r, reason) == [r EXCEPT !.killReason = reason]

\* Faulty variant of RequestDeletion: one tick late.
RequestDeletionLate(r) ==
    [r EXCEPT !.toDelete = IF @ = Never THEN deletion_timeout + 1 ELSE @]

RequestDeletion(r) ==
    [r EXCEPT !.toDelete = IF @ = Never THEN deletion_timeout ELSE @]

IsDeletionRequested(r) == r.toDelete = 0

\* Faulty variant of DateFinished: a task without a message stays undated.
DateFinishedNever(r) == r

\* A finished task without a message is dated by the first look at it.
DateFinished(r) ==
    [r EXCEPT !.lastMessage = IF @ = Never THEN 0 ELSE @]

\* Only a command that returns has a result to store.
ResultOf(type) == IF type = "SUCCESS" THEN "value" ELSE "none"

\* Faulty variant of Reviewed: _schedule_task forgets to set QUEUED.
ReviewedKeepsCreated(r) == r

\* The first part of _process_task: schedule, or ask for a kill or a deletion.
Reviewed(r) ==
    CASE r.state = "CREATED" ->
            IF IsKillRequested(r) THEN r ELSE [r EXCEPT !.state = "QUEUED"]
      [] IsDefunct(r, unresponsive_timeout) ->
            RequestKill(r, "COMPLETION_TIMEOUT")
      [] r.state = "FINISHED" ->
            IF TimedOut(DateFinished(r), abandoned_timeout)
            THEN RequestDeletion(DateFinished(r))
            ELSE DateFinished(r)
      [] OTHER -> r

Killed(r) == [r EXCEPT !.state = "FINISHED", !.finishType = "KILL"]
=============================================================================
