------------------------- MODULE SchedulerShutdown -------------------------
(***************************************************************************)
(* Shutdown of the daemon while the scheduler and its workers are running: *)
(* the signal handler of pcs/daemon/run.py calls Scheduler.terminate_nowait *)
(* on the main thread, which also runs the event loop.                     *)
(***************************************************************************)
EXTENDS Scheduler

\* handle_signal of the daemon runs between any two bytecodes of the main
\* thread and blocks it in Pool.terminate, which stops the respawning, sends
\* SIGTERM to the workers of the pool and joins them.
TerminateNowait ==
    /\ pc \notin {"terminating", "terminated"}
    /\ pc' = "terminating"
    /\ proc' = [p \in Pids |->
                  IF proc[p].kind = "pool" /\ proc[p].status \in Alive
                  THEN [proc[p] EXCEPT !.sigterm = TRUE]
                  ELSE proc[p]]
    /\ UNCHANGED <<task, register, inqueue, messages, singleUse, toReceive,
                   toProcess, crashes, escaped>>

\* Pool.terminate has joined the workers of the pool and returns.
Terminated ==
    /\ pc = "terminating"
    /\ \A p \in Pids : proc[p].kind = "pool" => proc[p].status = "gone"
    /\ pc' = "terminated"
    /\ UNCHANGED <<task, register, inqueue, messages, proc, singleUse,
                   toReceive, toProcess, crashes, escaped>>

NextOrShutdown ==
    \/ Next
    \/ TerminateNowait
    \/ Terminated

ShutdownSpec ==
    /\ Init
    /\ [][NextOrShutdown]_vars
    /\ Fairness
    /\ WF_vars(Terminated)

-----------------------------------------------------------------------------
\* terminate_nowait "cleanly terminates the scheduler"; only a worker that
\* _pause_worker has stopped, which nobody resumes any more, can keep it from
\* returning: a worker that runs a command, even one that hangs or is in the
\* middle of WorkerCommunicator.put, is terminated.  One put is different: if
\* it raises because the result cannot be pickled, the exit that the handler of
\* SIGTERM left to it is skipped, and the worker waits for a task it never gets.
OnlyPausedBlocksShutdown ==
    pc = "terminating" ~>
        \/ pc = "terminated"
        \/ \E p \in Pids : /\ proc[p].kind = "pool"
                            /\ \/ proc[p].status = "stopped"
                               \/ /\ proc[p].at = "get" /\ proc[p].terminate
                                  /\ escaped # {}
=============================================================================
