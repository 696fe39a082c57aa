---------------------------- MODULE MCScheduler ----------------------------
(* Values for the constants of the scheduler's runs. *)
EXTENDS SchedulerProperties, TLC

CONSTANTS t1, t2, p1, p2, p3, p4

\* No command sends a request to its own daemon.
NoParent == [t \in Tasks |-> NoTask]

\* The command of t1 requests t2.
T2OfT1 == [t \in Tasks |-> IF t = t2 THEN t1 ELSE NoTask]

\* Processes differ in their state only.
PidSymmetry == Permutations(Pids)
=============================================================================
