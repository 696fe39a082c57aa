# A verification project for pcs

pcs configures Pacemaker and Corosync clusters. Its command line tool talks to a
daemon, pcsd, on every node of the cluster. The Python part of the daemon
(`pcs/daemon`) runs the commands of the library (`pcs/lib`) as asynchronous
tasks in worker processes, and keeps two configuration files, `known-hosts` and
`pcs_settings.conf`, the same on all nodes. These two mechanisms are the
concurrent core of the program. The library's commands send requests to many
nodes at once, add and remove nodes, and edit two configurations: corosync.conf,
and the CIB that Pacemaker keeps. All of these are modelled here, each in a
specification of its own.

All paths are relative to `src/`.

## 1. The system

### Components, state, operations

| Component | State it keeps | Operations that change it |
|---|---|---|
| Task (`pcs/daemon/async_tasks/task.py`) | state, finish type, kill reason, time of the last message, time of deletion, worker pid, result, reports, finished event | `_set_state`, `request_kill`, `request_deletion`, `kill`, handlers of three kinds of messages, and `_get_last_updated_timestamp`, which dates a task as a side effect |
| Scheduler (`scheduler.py`) | the task register, the list of temporary workers | `new_task`, `get_task`, `wait_for_task`, `kill_task`; the pass `perform_actions` (receive, process, dead-lock mitigation); `terminate_nowait` |
| Workers (`worker/executor.py`, `communicator.py`) | the running command, the lock and the flag of the communicator, pending and handled signals | `task_executor`, `put`, `_pause_worker`, `_sigterm_handler` |
| Pool (Python's `multiprocessing`) | the input queue, the processes | takes tasks, respawns workers, terminates |
| Push of a file (`pcs/lib/pcs_cfgsync/save_sync.py`, `sync_files.py`) | the file before the command, the answers of the nodes, the file fetched after a conflict | `save_sync_new_version`, `save_sync_new_known_hosts`, `_handle_conflict` |
| Saving a pushed file (`pcs/lib/commands/pcs_cfgsync.py`, `SetConfigsHandler` in `pcs/daemon/app/api_v0.py`) | the file of the node, `sync_config_lock` | `set_configs`, `get_configs` |
| Pull (`pcs/daemon/pcs_cfgsync.py`, `fetcher.py`, `config_sync` in `run.py`) | the answers of the nodes, `sync_config_lock` | `run_cfgsync` |
| HTTP handlers, HTTPS server, sessions, Ruby wrapper | sessions, listeners, certificate | translate requests into scheduler calls |
| Node communicator (`pcs/common/node_communicator.py`, `pcs/lib/communication/tools.py`) | curl handles, the count of finished ones, the address in use of each request, the requests not handed out yet | `add_requests`, `start_loop`, `next_dest`, `run`, `on_response` |
| corosync.conf (`pcs/lib/corosync`) | nodes with addresses and ids, links, quorum options, quorum device | the methods of `ConfigFacade`; the validators decide, the commands of `quorum.py`, `sbd.py`, `cluster/link.py`, `cluster/node.py` push |
| Membership (`pcs/lib/commands/cluster/setup_node.py`, `node.py`) | on each host: corosync.conf, what corosync has loaded, what a new node needs besides | `add_nodes`, `remove_nodes`: sequences of batches of requests |
| CIB (`pcs/lib/cib`, `pcs/lib/commands`) | resources in groups and clones, constraints, tags, fencing levels, permissions, and their references | create, group, constrain, tag, remove |
| Files (`pcs/common/file.py`, `pcs/lib/file`) | contents on disk, `flock` | read, write, update, backup |
| Permissions, agents, booth, DR, CLI, SNMP, reports | configuration files within one command, or none | see `PROJECT.json` |

### How they interact

The daemon has one thread with an event loop. HTTP handlers call the scheduler
directly. `perform_actions` is a periodic callback; nothing it awaits yields to
the loop, so the handlers run only between two passes. Workers share three
things with the daemon: the input queue of the pool, a managed message queue
(`TaskExecuted`, reports, `TaskFinished`), and POSIX signals: the scheduler sends SIGTERM
to kill a task and SIGCONT to resume a worker that has stopped itself with
SIGSTOP after its task. A worker of a node may send HTTP requests to its own
daemon, so a task may wait for a task. A command pushes a file by
`remote/set_configs` requests to all nodes including its own; there a handler
takes `sync_config_lock` and runs `set_configs` as another task. The pull runs
in a thread of the daemon and takes the same lock.

A command that talks to nodes builds an object of `pcs/lib/communication` and
gives it to `run`, which drives the communicator. A command that changes
corosync.conf reads the local file into a facade, validates, changes the
facade and pushes it to all nodes; `add_nodes` and `remove_nodes` distribute it
themselves, before and after other batches. A command that changes the CIB
reads it, edits the tree and gives Pacemaker the difference. Nothing locks the
cluster: commands on different nodes know nothing of each other.

### What is hard, and what makes the parts correct

* A pid that is stored in a message may be out of date when it is signalled.
  Correct: a signal reaches only the worker that is at the signalled task, as
  long as no exception has taken the worker away from it.
* Kill, completion, time-out, poll and deletion of a task happen in any order.
  Correct: a task runs at most once, its state moves forward, it is collected
  only when it is finished, and it does finish.
* Signals are lost or pending, and workers die. Correct: the worker goes on, the
  daemon stops when it is told to.
* All workers may wait for each other. Correct: temporary workers resolve it
  and stay within their limit.
* Two nodes change the same file at once, requests are lost or late, answers are old when
  they are used. Correct: files do not go back, what was accepted stays, all
  nodes end with the same file.
* Requests are repeated on other addresses while others are handled. Correct:
  each gets one answer, and the loop stops.
* Every option of corosync.conf depends on others. Correct: any sequence of
  commands leaves a file that corosync, a running one too, can use.
* A command on many hosts fails half way, and its requests are carried out later.
  Correct: hosts are prepared before they are listed, nodelists reach the running
  nodes first, and a host never has a file without itself.
* Removing an element of the CIB leaves references and empty containers. Correct:
  exactly what depends on it goes, in whatever order it is found.

`PROJECT.json` lists each hazard at its line with the properties that cover it.

## 2. Modules

| Module | Content |
|---|---|
| `Task` | one task: its record and the methods of class `Task` as operators from record to record |
| `Scheduler` | register, queues, worker processes, the pass, the API calls, clock; `Spec`, `FairSpec`, `TerminatingCommandsSpec` |
| `SchedulerProperties` | invariants, action properties, liveness, the inductive invariant |
| `SchedulerShutdown` | the scheduler composed with the daemon's signal handler |
| `SchedulerProofs` | TLAPS proofs about `Spec` of `Scheduler` |
| `SchedulerShutdownProofs` | TLAPS proofs of the limit of workers and of the composition with the shutdown |
| `CfgSync` | one synchronized file: commands that push it, `set_configs`, pulls |
| `CfgSyncProperties` | its properties and inductive invariants |
| `CfgSyncProofs` | TLAPS proofs about `Spec` of `CfgSync` |
| `ConfigFacade` | corosync.conf as a value, the methods of the facade as operators |
| `ConfigValidators` | the validators as predicates |
| `CorosyncConf` | the commands that change corosync.conf, and SBD, the qdevice client, start and stop |
| `CorosyncConfProperties`, `CorosyncConfProofs` | its properties; TLAPS proofs |
| `Membership` | `add_nodes` and `remove_nodes` host by host |
| `MembershipProperties`, `MembershipProofs` | its properties; TLAPS proofs |
| `Communication` | what `run` promises: the abstract specification |
| `Communicator` | the communicators, the strategies and `run`; `Promise` instantiates `Communication` |
| `CommunicatorProperties`, `CommunicatorProofs` | its properties; TLAPS proofs, the refinement included |
| `Cib` | the commands that edit the CIB |
| `CibProperties`, `CibProofs` | its properties; TLAPS proofs |
| `CibRemovalProofs` | TLAPS proofs that a removal takes the exact closure |
| `MCScheduler`, `MCSchedulerShutdown`, `MCCfgSync`, `MCCorosyncConf`, `MCMembership`, `MCCib` | values of the constants for TLC |

`Membership` takes corosync.conf as a set of nodes and leaves the rest of it to
`CorosyncConf`, which takes the distribution as one step. `Membership` and
`CfgSync` use requests as `Communication` promises them.

Definitions called "Faulty variant of" are plausible mistakes in the code. No
specification uses them. Substituting one for the definition after it must
break the property that `PROJECT.json` pairs it with under `mutants`.

### Scheduler

`task` maps identifiers to `Task` objects. The record has one field per
attribute that other code can observe; time stamps are ages in clock ticks, and
`Tick` makes them older up to `MaxAge`. `register` is the order of
`_task_register`, `messages` the message queue, `inqueue` the queue of the pool,
`singleUse` the list of temporary workers. `pc`, `toReceive` and `toProcess` say
where in `perform_actions` the main thread is. A pass is a sequence of
actions: `BeginPass` fixes the number of messages as `range(qsize())` does, one
`Receive...` action handles one message, `EndReceive` copies the register,
`ProcessTask` handles one task, `HandleSingleUsePool` ends the pass. Steps of
workers happen between any two of them. An exception that `_receive_messages`
does not catch (`AssertionError` of `_set_state`, `ProcessLookupError` of
`os.kill`) ends the pass (`AbortPass`); tornado's `PeriodicCallback` logs it and
schedules the next.

A worker process is a record: `at` is its position in `task_executor`, `out` the message
of a `put` in progress, `terminate` the flag that `_sigterm_handler` sets while the
communicator is locked, `sigterm` a SIGTERM that Python has not handled yet. A stopped
process handles nothing. A dead process is a zombie until the fork server has reaped it:
signals to a zombie succeed, signals to a reaped pid raise. `kill(-1)`, which the
initial pid would mean, reaches every process (`Targets`).

Simplifications:

* The managed queue is synchronous, so the `Empty` branch is not modelled; the
  workers send three kinds of payload only, so `UnknownMessageError` is not either.
* A call by another user, or for an unknown task, raises and changes nothing.
* The kernel does not give a pid to a new process while a task or a message
  still refers to it.
* A command is abstracted to its messages: any number of reports up to
  `MaxReports`, then one of `CompletionTypes`, or nothing for ever.
* A worker that dies while it takes a task holds no lock of the pool.

An exception may leave `task_executor`: from the lines before its `try`, from an
`except` clause, or from the `put` of a result that cannot be pickled. The pool
catches it, so the worker goes on to its next task without `TaskFinished` and
without a pause (`EscapeTask`, for the tasks in `EscapingTasks`). The task stays
EXECUTED with a pid that is no longer its own until the unresponsive time-out
sends a SIGTERM to that pid, whatever runs there by then. `escaped` is history:
the tasks lost in this way. `SignalsHitOwnTask` allows the misdirected signal
for these tasks and for no other. If the worker has exited, `kill` raises and
the task stays EXECUTED for ever, as after a crash; the runs of liveness
(`progress`, `nested_tasks`) therefore have no escaping tasks, while `workers`
and `shutdown` have one.

### CfgSync

`file` is the file of each node: a version and a set of entries, which stand for
hosts or permissions. A missing file is version 0 without entries: every
existing file has a version of at least 1, so the code treats the two alike.
The order of the sha1 sums of the contents is the constant `Hash`, any
injective function. `Push` is `save_sync_new_version` up to the sending,
`EndPush` its evaluation of the answers, `FetchAnswer` and `EndFetch` the fetch
after a conflict and what follows it (with `Merging` the second push of
`save_sync_new_known_hosts`), `SaveNewest` is `_handle_conflict`. `HandleRequest`
reads the local file and decides under the lock, `FinishSet` writes
and answers: between them other nodes and the commands of the same node go on. `StartPull`,
`PullAnswer`, `EndPullFetch`, `PullSave` are one run of `run_cfgsync`. Note
that the lock is held by `set_configs` and by the pull but not by a command
that saves after a conflict, which runs in a worker process.

A request fails by being lost or by being so late that the command goes on
without its answer; it may then still be carried out. Parse errors, wrong
cluster names and the fallback to the legacy endpoint end like a failed
request. A failed write fails when the file is opened; a write that fails later
truncates the file and is listed as a hazard. The set of targets is all nodes;
commands outside a cluster write the local file and are not modelled. The field
`alone` of a command is history: whether it started from a settled cluster
(`Settled`: nodes in agreement, nothing of another command under way, no pull
that has seen a newer file) and no other command interfered. No guard depends on it.

### ConfigFacade, ConfigValidators, CorosyncConf

`conf` is the file all nodes share, `running` whether corosync runs, `sbd` and `client`
what the commands look at besides; `client` says whether none, some or all nodes have
the client of the quorum device set up. Each command is one action: the validator, the
operation of the facade, and `Push`, which refuses a change that needs a stopped cluster
while it runs and otherwise makes corosync reload. `AddDevice` and `RemoveDevice` send
batches of requests to set up or tear down the client before they push. A batch that
fails ends the command and may have been carried out by any of the nodes (`Attempted`);
with `skip_offline` the command goes on as if it had not failed (`Reached`); and a push
that fails or is refused leaves the client as it then is. All of these are disjuncts of
the actions. `add_nodes` and `remove_nodes` bring and take nodes with and without the
client. `NewIds` is the set of assignments of the smallest free ids. Options that no
operation reads again, the form of single values, `ip_version` and nodes without a name
are left out. The validators of `rename_node_corosync` and `update_link` get no names
and addresses of pacemaker remote nodes because a stopped cluster has no CIB to read;
the properties are therefore about the nodelist only. `RemoveNodesCommand` has the
number of names that were given twice as an input: `node.py:177-179` counts the list,
validators and facade take it as a set, and the command line does not remove duplicates.
`Command(forces, skips, maxRepeats)` is the disjunction of all commands with these
inputs: the properties say of a step that loses something that it is not a step of
`Command` with the harmless inputs, whatever other inputs lead to the same state.

### Membership

A command holds the phases still to do (`plan`), the hosts that have not
answered (`todo`) and the new nodelist. `BeginCommand` makes the checks,
`Answer`, `AnswerReload`, `Refuse`, `LoseAnswer` and `TimeOut` are the fates of
a request, `ExecuteLate` is a host that gets to a request its command has given
up, `EndPhase` is `run_and_raise`, `Kill` ends a command anywhere. `Destroy`,
`SetCorosyncConf`, `ReloadCorosyncConf`, `StartCluster` and `Prepare` are what
the host does. `corosync-cfgtool -R` makes every node that the asked one knows
of read its own file, which is external and taken from the comment in `on_complete` of
`ReloadCorosyncConf`; as that comment says, it does not report problems of nodes
other than the asked one, so any of them may fail to take the file over
(`unreloaded`) while the asked node says "reloaded". With --force `add_nodes`
only warns of an authkey or settings file it cannot read and of a booth
configuration it cannot parse, and sends the others: the steps that miss a file
(`skipped`, a member of `Missing`) are `"partial"` phases that do not complete a
host. `agreed`, `belated` and `overlapped` are history. A command that has ended is reset to
`Idle`: nothing reads its fields again.

The model shows where the promises of these commands end. After a failed or killed
`remove_nodes` a destroyed host is still listed by the others. One reload only
reaches the nodes that the asked node runs with, so `ReloadedBeforeStart` is
about members that agreed when the command began (`agreed`). A request that is
carried out late undoes what a repeated command did, hence `belated`; and two
commands that run together overwrite each other's nodelist, hence `overlapped`.
`SelfListed` holds in all these cases.

### Communication, Communicator

`how` selects the communicator (with or without several addresses) and the
strategy (one by one or all at once). libcurl and the nodes are external: a
transfer ends with an answer, fails before or after the node executed the
request, or times out while the node is still at it (`late`). `GetAllReadyResponses`
takes a batch, `Yield` handles one response of it, `EndBatch` counts the batch,
`Stop` is the loop condition. `Promise` maps `asked` to the requests that have a
handle or an answer. The factory method for the communicator with several
addresses has no caller in pcs at this commit; it is modelled because the module offers it.

### Cib

A document gives each id a place and the ids it refers to. The names of the
classes are the tags; `Referring` elements refer by an attribute and go with
their target, `Holders` have `obj_ref` or `resource_ref` children without ids,
fencing levels a list of devices. Commands are one action each: conditions, the
edited document, and `Push`, where Pacemaker's schema (external: `Sound`,
`AclSound`) takes or refuses it; `rejected` remembers why. `remove_elements` is
the one command with steps: `StartRemove` fills the worklist, `TakeElement` and
`TakeReference` process one entry, in any order (the code's order depends on
sets), on the copy `wip`; `EndRemove` applies the result to the document and
pushes it. Commands do not overlap. Attributes, rules inside other elements,
bundles, templates and roles other than permissions are left out. The check
that resources are stopped before they are removed only delays the push.
`CloneResource`, `Unclone` and `GroupRemove` are the commands that still are in
`pcs/resource.py`; the last two clean up with `remove_resource_references`
(`Forgotten`), which goes by other rules than `remove_elements`. A clone gets the
constraints of its resource, those of tickets excepted
(`constraint_resource_update`).

Two things the properties leave out on purpose. A permission for a set, a rule
or another permission goes with a removed constraint or not, depending on the
order of the ids, so `RemovalExact` says nothing of these (`Nested`). And
commands other than `remove_elements` leave permissions for what they remove,
which Pacemaker refuses (`rejected = "acl"`).

Some commands regroup resources without a look at who refers to the group. `MayBreak`
lists the cases in which Pacemaker refuses the result, and `OnlyRegroupingBreaks`
says there are no others: `group_add` that empties a group which, or whose clone,
is named (a comment in `commands/resource.py:1842-1848` knows of it); `clone` and
`unclone` of the last member of a group that is named; and `group remove` of all
members of a cloned group with one name given twice.

## 3. Runs

Every run finishes within five minutes with two workers of TLC.

| Run | Instance | Shows |
|---|---|---|
| `workers` | 2 tasks, a pool worker and a temporary worker with 2 tasks each, 4 pids, a kill, a crash, a task whose exception escapes (1.5 million states) | the type and the inductive invariant; signals hit their own task unless its worker was lost to an exception, tasks run once, messages find their tasks, the limit of workers holds, no unfinished task is dropped, only the own update resumes a worker, states move forward |
| `progress` | 2 tasks, commands may hang, a kill, a client that waits | begun tasks finish, all tasks finish unless a worker stays stopped, finished tasks are collected, the client gets its answer |
| `nested_tasks` | the command of the only worker waits for a task | both tasks finish, whether or not the unresponsive time-out strikes one, and neither has to wait for it |
| `shutdown` | SIGTERM to the daemon at any moment | only a paused worker, or one whose SIGTERM was lost in a `put` that raised, can block `terminate_nowait` |
| `sync_lock` | 3 nodes, 2 commands that conflict, one removes what the other adds; the third node pulls | the lock invariant; the third node's file never goes back |
| `sync_converges` | 2 nodes that both push and pull, a lost or late request or a failed write | an undisturbed success lasts; all nodes end with one file |
| `sync_majority` | 3 nodes in any disagreement of two half-done pushes | the same, although pulls see different majorities |
| `corosync_conf` | 3 names, 4 addresses (IPv4, IPv6, two names), 2 links, clusters set up with 1 or 2 nodes, 3 kinds of device, a client on none, some or all nodes, forced or not, skipping nodes or not, a name given twice (38 thousand states) | the nodelist and the quorum section stay consistent; tie breaker and auto_tie_breaker are lost only as stated; a running cluster gets only what it can reload; SBD keeps what breaks a tie |
| `membership` | 2 members and a third host, 2 commands one after the other, one late request, files missed with --force, reloads that fail (1.2 million states) | no host has a file without itself; prepared before listed, but for the files skipped; reloaded before started, but where a reload failed unreported |
| `communicator` | 3 requests, 2 addresses, both communicators, both strategies | `Communicator` implements `Communication`; `run` returns; executions are bounded; one at a time where asked for |
| `cib` | 2 primitives, a device, 2 groups, a clone, one or two of everything else, at most 5 at once (0.8 million states) | a removal takes exactly the closure of what was asked for, which is defined independently of the algorithm as the least closed set (`Closure`); the result is valid; only regrouping, in the cases named, breaks a document |

One run is expected to be violated: what an assertion of the code says
does not hold of what the code does.

| Run | Violated | The behaviour |
|---|---|---|
| `kill_race` | `NoInvalidStateChange` | a command ends, its client kills it, the pass that holds neither message kills the task; its `TaskFinished` then raises and ends the next pass |

The properties are stated around other behaviour that the models show and a
reader of the code may not expect:

* The scheduler may handle `TaskFinished` before the worker's SIGSTOP; the worker then
  stays stopped and is lost to the pool. `TasksFinish`, `WaitersAnswered` and
  `NestedTasksComplete` have the condition that no worker is left stopped.
* When a worker dies at its task, `kill` finds no process and the task stays EXECUTED
  and registered. `progress` has no crashes.
* A worker that is paused when the daemon is told to stop blocks `Pool.terminate`: the
  main thread that would send SIGCONT waits for it (`OnlyPausedBlocksShutdown`). So does
  a worker whose handler left the exit to a `put` that then raises: the flag is not
  looked at, and the worker waits for a task that never comes.
* An exception that escapes `task_executor` makes the time-out of its task terminate the
  worker at another task (`SignalsHitOwnTask`).
* `_handle_conflict` saves without the lock and without a second comparison, so a newer
  file that arrived since the fetch is replaced. `ServedNodesForward` is about nodes
  without commands.
* The version so lost may live on in the answers of a pull. If a command then pushes
  another file of that version, the pull writes the old one between the two, another
  pull fetches it, and a failed request keeps that pull from seeing its own node's new
  file: the command reports success on every node and loses its entry on one of them
  afterwards (four commands, two nodes, three failures, 35 steps; the attempt to prove
  `KeptWhenAlone` without the condition on pulls in `Settled` led to it). A pull
  replaces a file of the same version whatever the hashes, while `set_configs` compares
  them.
* `pcs cluster node remove n1 n1` counts a node twice and may leave SBD without
  auto_tie_breaker: `AtbLostByForce` fails if it is stated for repeated names too.
* `remove_device` tears the client down first; when a later batch fails, or the push is
  refused because auto_tie_breaker would have to be enabled in a running cluster, the
  device stays configured without a client (`TieBreakingKept`).
* `add_nodes` starts the new nodes although members may have failed to reload, of which
  it hears nothing; with --force it lists nodes that miss files (`ReloadedBeforeStart`,
  `PreparedBeforeListed`).
* `pcs resource clone` or `unclone` of the last member of a group leaves references to
  the deleted group. `pcs resource group remove G A A B` for a cloned group of A and B
  passes the check, which counts three names, and empties the clone. Pacemaker refuses
  the results (`OnlyRegroupingBreaks`).

### Bounds

Two tasks are enough for every race between a worker's old and new task. In
`workers` the number of pids exceeds the number of workers, so that a worker can be
replaced while its pid is still referred to; `progress` has one pid only, which the
pool's next worker reuses. Time-outs of 0 and 1 tick with
`MaxAge` one above let every order of time-outs and messages happen, because
between two ticks any number of steps may be taken and a tick may happen at
any moment. `MaxCrashes` and `MaxReports` are 0 or 1; the proofs hold for any
value. `PidSymmetry` is used in runs of invariants and action properties only: nothing
distinguishes pids. Three nodes are the smallest number with a majority;
versions are bounded by the number of pushes. `MaxFailures` is at most 1 in the
runs.

For corosync.conf three names with at most two nodes added by one command give odd and
even clusters, freed and reused ids and exchanged names; two links with four addresses
let a link be full, replaced and changed into every mixture of families, and one
repeated name changes the parity that is counted. In `membership` one host outside the
cluster is enough to be added, removed and added again by the two commands, with a late
request of the first executed during the second; `Missing` has no or both steps that
miss a file; `Together` is FALSE there to bound the run, and the proof of `SelfListed`
covers commands that run together. Three requests make batches of every size while
others are under way. Five elements hold a primitive in a cloned group with a constraint
and a permission for it, or a constraint of two sets with two resources: chains of
dependencies upwards, downwards and across, and containers that lose one or all of their
members.

CHECK_DEADLOCK is off where the system stops: the daemon shut down, `run` returned, all
commands used up and the cluster destroyed, and a CIB at its bound.

### Fairness

The periodic callback keeps firing (`PassStep`). The kernel runs every process
that is not stopped, but no fairness is assumed of a command: it may hang. The
fork server reaps, the pool's thread respawns, time passes. A coroutine whose
event is set is resumed between two passes; it competes with the callback for
the loop, hence strong fairness. `TerminatingCommandsSpec` adds that a command
ends once its own requests are answered, and takes from the clock the duty to let a
task that runs reach its unresponsive time-out (`TimeoutIsFar`): the time-out may
strike, but what has to happen may not rest on it. Only `nested_tasks` uses it. In `CfgSync`
requests end by an answer or a time-out, the daemon schedules a pull after each
pull, and tornado's `Lock` serves waiters in order, which is strong fairness of
`HandleRequest` against the pulls of the same node. Clients start commands as
they like. In `Communicator` the loop goes on, and each transfer ends because
`_create_request_handle` sets `pycurl.TIMEOUT`; no node has to answer.

## 4. Proofs

`SchedulerProofs` proves for all constants that satisfy `TaskAssumption` and
`SchedulerAssumption` (any number of tasks, processes, crashes, reports; any
time-outs):

* `Invariance`: `Spec => []InductiveInvariant`;
* `TypeCorrectness`, `SignalSafety`, `SingleExecution`, `ExecutedMessageSafety`,
  `RegisterSafety`: the invariants of the runs;
* `ForwardSafety`, `ResumeSafety`: the action properties.

`SignalsHitOwnTask` is not inductive. That a stored pid is still at its task depends,
unless the task has `escaped`, on the message that carried it (`MessagesConsistent`: the
task is announced once, and until the announcement has been received nothing else about
the task is), on the position of the worker (`ProcessConsistent`: a worker that goes on
after its pause has a FINISHED task) and on the queue (`QueuedIsSilent`,
`RunsAtMostOnce`: the task is not run again). `EscapedIsLost` says that a task left by
its worker has been announced and is in nobody's hands, so nothing more comes of it.
`OnlyFinishedDeleted` and `ReceiveBounded` give `UnfinishedStaysRegistered` and the
existence of a head message. The proof has a lemma per group of steps: `CoreFrame`,
`CoreDeath` and `CoreSpawn` for changes that do not move a task, `CoreTakeTask`,
`CoreEndPut`, `CoreReturn` and `CoreEscape` for the worker, `CoreReceive` and
`CoreProcessTask` for the pass, `Register...` for the register.

`SchedulerShutdownProofs` adds

* `LimitSafety`: `WorkersWithinLimit`. The property counts processes, so pids are
  assumed to be finite (`SchedulerAssumption`: a kernel has a largest pid).
  `LimitInv` bounds the workers of the pool and the temporary ones separately and
  says that every live temporary worker is in `singleUse`, whose length the code
  compares with the limit;
* `ShutdownKeepsSafety`: the same invariants for `ShutdownSpec`, in which SIGTERM
  may interrupt any pass and any `put`. Every step of
  `Scheduler` is covered by `SchedulerProofs`; what is new are the steps of the
  handler.

`CfgSyncProofs` proves from `CfgSyncAssumption`, for any number of nodes,
commands and failures and any hash order:

* `LockSafety`: `Spec => []LockInvariant`;
* `ServedForward`: `Spec => ServedNodesForward`;
* `AloneIsKept`: `Spec => []KeptWhenAlone`, and `AloneNeverConflicts`;
* `FetchIsDeterministic`: `_find_newest_config` leaves exactly one file;
* `AgreementLasts`: in agreement, and with nothing but pulls under way, only a
  new command changes a file.

What makes the second inductive is `WritesUpToDate` together with `LockHeld`:
the comparison was made when the lock was taken or held, and as long as it is
held nobody else writes. The third rests on `AloneInvariant`, which has two
phases. While the command pushes (`PushesAlone`), its file is the only one newer
than what all nodes had, wherever a file may hide (nodes, requests, answers, a
pull about to save), and on a node that has accepted it no pull is about to
save, because `set_configs` needed the lock. After the last
answer (`HasSpread`), every file that is at least as new has the entries, and all that is
written is at least as new, since each writer compares with its local file.
That `_find_newest_config` returns anything is an argument on finite
sets: an element with the fewest at or above it is a maximum.

`CorosyncConfProofs` proves all seven properties of `corosync_conf` for any
names, addresses, number of links and inputs. `ConfInv` is the type together with
`NodelistConsistent` and `QuorumConsistent`: the parts need each other, since the validators
read the used links from one node, which is right only if links are uniform, and
`UniqueAddrs` of an update follows from `UnchangedAddrs` only then. There is a
lemma per operation of the facade; that new ids stay among as many numbers as there
are names is an argument on cardinalities. `TieBreakerKept`, `AtbKeptForSbd` and
`TieBreakingStays` go through the commands one by one and need the parity of the
nodelist before and after each.

`MembershipProofs` proves the four properties for any hosts and commands, late
requests and failures. `SelfListed` needs that commands and late requests send a file
only to hosts in it (`CommandShape`, `LateListed`). The other two rest on
`OrderInv`: which phases are behind a command (`PlanInv`), that it is alone
unless `overlapped` (`Alone`), which steps have reached each host (`PrepInv`, all but the
skipped ones), and how far the new file has got (`SpreadInv`: to all but the `unreloaded`).

`CommunicatorProofs` proves the invariants and that `Spec` implements `Communication`.
`LoopInv` says what the counters mean: handles are the finished ones and the active
ones, with the batch under way accounted for (`Counted`), and no request is at two
places (`Apart`). It gives `asked = Answered` when the loop stops.

`CibProofs` proves `TypeOK` and `RemovalClean` for any elements. `CopyInv` says that the
copy is the document without what has been processed, `WorkInv` that whatever the
processed elements ask for is done or in the worklist; when the worklist is empty,
`RemovalClean` follows. `DocInv` says that the document is valid and has the shape the
commands build. Each command has a lemma that it keeps a valid document valid or is one
of the cases of `MayBreak`.

`CibRemovalProofs` proves `RemovalExact` and `OnlyRegroupingBreaks` for any elements:
`Closure` is the intersection of all closed sets that have what was asked for.
`SearchInv` says that whatever is in the worklist or done belongs to each of these sets,
whatever the order, and `WorkInv` makes the result closed, so it is the least. The
invariant needs `Small`: the code takes a clone for empty as soon as a member goes,
which is right only because a clone has one member (`CloneHasOneMember`), and it counts
the members of a group and the references, which takes a finite document. `unclone` and
`group remove` rest on the same fact, which is why `OnlyRegrouping` is proved here.

Every invariant and action property of the passing runs is proved. Only
model-checked is liveness, which the prover does not do because it is about fairness:
`ExecutedFinishes`, `TasksFinish`, `FinishedCollected`, `WaitersAnswered`,
`NestedTasksComplete`, `OnlyPausedBlocksShutdown`, `Convergence`, `Returns`.

## 5. Plan

Done: scheduler, synchronization, communicator with its abstract specification,
corosync.conf, membership, CIB. Next, in this order:

1. `RawFile`: open, lock, truncate, write against concurrent readers and
   failures; `CfgSync` then takes failures after the truncation and files
   that cannot be parsed, backups and `force`.
2. Composition of `Scheduler` and `CfgSync`: `set_configs` occupies a worker
   while it holds the lock; do cross-node pushes and pulls end without time-outs?
3. `config_sync` with exceptions that end the series of pulls.
4. The CIB changed by another client between reading and pushing, as far as the
   semantics of `crm_diff` without versions can be stated.
5. Cluster setup, SBD and qdevice commands host by host, in the way of `Membership`.
6. `ServerManage` (certificate reload), web UI sessions, permissions.
7. Proofs: what the liveness properties rest on, as far as it is safety (measures
   that no step increases), in the way of `AgreementLasts`.

## 6. Not modelled

Most of the 115 thousand lines of the implementation have no behaviour to model:
messages and usage texts (`common/reports/messages.py`, `usage.py`), parsing of
arguments and formatting of output, DTOs and their conversions, reading and writing of XML,
corosync.conf and resource agent metadata, SNMP, packaging, and the Ruby daemon
that the Python one is replacing. They keep no state across steps or are pure I/O.
The map covers the code that decides and changes state: task scheduling, the
communicator, synchronization, corosync.conf, membership and the structure of
the CIB. `PROJECT.json` names each part and the reason.
