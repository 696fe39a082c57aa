------------------------ MODULE MCSchedulerShutdown ------------------------
(* Values for the constants of the runs that shut the daemon down. *)
EXTENDS SchedulerShutdown

CONSTANTS t1, t2, p1, p2, p3

\* No command sends a request to its own daemon.
NoParent == [t \in Tasks |-> NoTask]
=============================================================================
