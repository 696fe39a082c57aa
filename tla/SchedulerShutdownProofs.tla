----------------------- MODULE SchedulerShutdownProofs -----------------------
(***************************************************************************)
(* How many worker processes there are, and what a shutdown of the daemon  *)
(* at any moment leaves true: for every number of tasks, workers, reports  *)
(* and crashes.                                                            *)
(***************************************************************************)
EXTENDS SchedulerProofs, SchedulerShutdown, FiniteSetTheorems

-----------------------------------------------------------------------------
(* The number of worker processes.                                         *)

\* The processes of one kind that exist, zombies included.
Live(kind) == {p \in Pids : proc[p].kind = kind /\ proc[p].status # "gone"}

\* The scheduler has a handle of every temporary worker that exists, so that
\* the number it compares with the limit is not too small; the pool has no
\* more workers than configured.
LimitInv ==
    /\ Live("temp") \subseteq singleUse
    /\ Cardinality(Live("pool")) <= worker_count
    /\ worker_count <= max_worker_count =>
          Cardinality(Live("temp")) <= max_worker_count - worker_count

\* Sets of processes are finite and can be counted.
LEMMA Countable ==
    ASSUME NEW S \in SUBSET Pids
    PROVE  /\ IsFiniteSet(S) /\ Cardinality(S) \in Nat
           /\ \A T \in SUBSET S : Cardinality(T) <= Cardinality(S)
           /\ \A p : Cardinality(S \cup {p}) <= Cardinality(S) + 1
<1>1. IsFiniteSet(S)
  BY FS_Subset, SchedulerAssumption DEF SchedulerAssumption
<1>2. Cardinality(S) \in Nat
  BY <1>1, FS_CardinalityType
<1>3. \A T \in SUBSET S : Cardinality(T) <= Cardinality(S)
  BY <1>1, FS_Subset
<1>4. \A p : Cardinality(S \cup {p}) <= Cardinality(S) + 1
  <2> TAKE p
  <2>1. Cardinality(S \cup {p}) = IF p \in S THEN Cardinality(S) ELSE Cardinality(S) + 1
    BY <1>1, FS_AddElement
  <2> QED
    BY <1>2, <2>1
<1> QED
  BY <1>1, <1>2, <1>3, <1>4

\* No process comes into being or changes its kind.
NoneStarted ==
    \A p \in Pids : /\ proc'[p].kind = proc[p].kind
                    /\ proc[p].status = "gone" => proc'[p].status = "gone"

LEMMA LimitFrame ==
    ASSUME LimitInv, NoneStarted, UNCHANGED singleUse
    PROVE  LimitInv'
<1>1. /\ Live("temp")' \subseteq Live("temp") /\ Live("pool")' \subseteq Live("pool")
      /\ Live("temp") \in SUBSET Pids /\ Live("pool") \in SUBSET Pids
      /\ Live("temp")' \in SUBSET Pids /\ Live("pool")' \in SUBSET Pids
  BY DEF NoneStarted, Live
<1>2. /\ Cardinality(Live("temp")') <= Cardinality(Live("temp"))
      /\ Cardinality(Live("pool")') <= Cardinality(Live("pool"))
      /\ Cardinality(Live("temp")) \in Nat /\ Cardinality(Live("pool")) \in Nat
      /\ Cardinality(Live("temp")') \in Nat /\ Cardinality(Live("pool")') \in Nat
  BY <1>1, Countable
<1>3. worker_count \in Nat /\ max_worker_count \in Nat
  BY SchedulerAssumption DEF SchedulerAssumption
<1>4. Live("temp")' \subseteq singleUse'
  BY <1>1 DEF LimitInv
<1> HIDE DEF Live
<1> QED
  BY <1>2, <1>3, <1>4 DEF LimitInv

\* The steps of a worker process.
LEMMA WorkerStartsNone ==
    ASSUME TypeOK, NEW p \in Pids, ProcStep(p)
    PROVE  NoneStarted /\ UNCHANGED singleUse
<1>1. UNCHANGED singleUse
  BY DEF ProcStep, WorkerStep, CommandStep, TakeTask, PutExecuted, PutReport, PutFinished,
         BeginPut, EndPut, PauseWorker, ReturnFromTask, EscapeTask, LeavesTask, HandleSigterm, Crash, Reap,
         WorkerVarsUnchanged
<1>2. proc \in [Pids -> ProcRecord] /\ proc[p] \in ProcRecord
  BY DEF TypeOK
<1>3. \A q \in Pids \ {p} : proc'[q] = proc[q]
  BY <1>2 DEF ProcStep, WorkerStep, CommandStep, TakeTask, PutExecuted, PutReport, PutFinished,
         BeginPut, EndPut, PauseWorker, ReturnFromTask, EscapeTask, LeavesTask, HandleSigterm, Crash, Reap, Exits
<1>4. ASSUME NEW status, proc' = [proc EXCEPT ![p] = Ended(proc[p].kind, status)]
      PROVE  proc'[p].kind = proc[p].kind
  BY <1>2, <1>4 DEF Ended, FreshProc
<1>5. proc'[p].kind = proc[p].kind
  <2>1. CASE TakeTask(p)
    BY <1>2, <2>1 DEF TakeTask, ProcRecord
  <2>2. ASSUME NEW m, BeginPut(p, m) PROVE proc'[p].kind = proc[p].kind
    BY <1>2, <2>2 DEF BeginPut, ProcRecord
  <2>3. CASE EndPut(p)
    <3>1. CASE proc[p].terminate
      BY <1>4, <2>3, <3>1 DEF EndPut, Exits
    <3>2. CASE ~proc[p].terminate
      BY <1>2, <2>3, <3>2 DEF EndPut, ProcRecord
    <3> QED
      BY <3>1, <3>2
  <2>4. CASE PauseWorker(p)
    BY <1>2, <2>4 DEF PauseWorker, ProcRecord
  <2>5. CASE ReturnFromTask(p) \/ EscapeTask(p)
    <3>1. CASE Exits(p)
      BY <1>4, <3>1 DEF Exits
    <3>2. CASE ~Exits(p)
      BY <1>2, <2>5, <3>2 DEF ReturnFromTask, EscapeTask, LeavesTask, ProcRecord
    <3> QED
      BY <3>1, <3>2
  <2>6. CASE HandleSigterm(p)
    <3>1. CASE IsLocked(p)
      BY <1>2, <2>6, <3>1 DEF HandleSigterm, ProcRecord
    <3>2. CASE ~IsLocked(p)
      BY <1>4, <2>6, <3>2 DEF HandleSigterm, Exits
    <3> QED
      BY <3>1, <3>2
  <2>7. CASE Crash(p) \/ Reap(p)
    BY <1>4, <2>7 DEF Crash, Reap, Exits
  <2> QED
    BY <2>1, <2>2, <2>3, <2>4, <2>5, <2>6, <2>7
       DEF ProcStep, WorkerStep, CommandStep, PutExecuted, PutReport, PutFinished
<1>6. proc[p].status # "gone"
  BY DEF ProcStep, WorkerStep, CommandStep, TakeTask, PutExecuted, PutReport, PutFinished,
         EndPut, PauseWorker, ReturnFromTask, EscapeTask, HandleSigterm, Crash, Reap, Running
<1> QED
  BY <1>1, <1>3, <1>5, <1>6 DEF NoneStarted

\* Signals start nothing.
LEMMA SignalsStartNone ==
    ASSUME TypeOK, NEW pid, proc' = Sigterm(pid) \/ proc' = Sigcont(pid)
    PROVE  NoneStarted
<1> SUFFICES ASSUME NEW p \in Pids
             PROVE  proc'[p].kind = proc[p].kind
                    /\ (proc[p].status = "gone" => proc'[p].status = "gone")
  BY DEF NoneStarted
<1>1. proc[p] \in ProcRecord
  BY DEF TypeOK
<1>2. CASE proc' = Sigterm(pid)
  <2>1. proc'[p] = proc[p] \/ proc'[p] = [proc[p] EXCEPT !.sigterm = TRUE]
    BY <1>2 DEF Sigterm
  <2> QED
    BY <1>1, <2>1 DEF ProcRecord
<1>3. CASE proc' = Sigcont(pid)
  <2>1. \/ proc'[p] = proc[p]
        \/ proc[p].status = "stopped" /\ proc'[p] = [proc[p] EXCEPT !.status = "run"]
    BY <1>3 DEF Sigcont
  <2> QED
    BY <1>1, <2>1 DEF ProcRecord
<1> QED
  BY <1>2, <1>3

\* Only the mitigation of dead-locks and the pool start processes.
LEMMA OthersStartNone ==
    ASSUME TypeOK, [Next]_vars, ~HandleSingleUsePool, ~RespawnWorker
    PROVE  NoneStarted /\ UNCHANGED singleUse
<1>1. CASE UNCHANGED <<proc, singleUse>>
  BY <1>1 DEF NoneStarted
<1>2. CASE ReceiveFinished
  <2>1. UNCHANGED singleUse
    BY <1>2 DEF ReceiveFinished, ReceiveMessage
  <2>2. UNCHANGED proc \/ \E pid : proc' = Sigcont(pid)
    BY <1>2 DEF ReceiveFinished
  <2> QED
    BY <1>1, <2>1, <2>2, SignalsStartNone
<1>3. CASE ProcessTask
  <2>1. UNCHANGED singleUse
    BY <1>3 DEF ProcessTask
  <2>2. UNCHANGED proc \/ \E pid : proc' = Sigterm(pid)
    BY <1>3 DEF ProcessTask
  <2> QED
    BY <1>1, <2>1, <2>2, SignalsStartNone
<1>4. ASSUME NEW t \in Tasks, ApiStep(t)
      PROVE  UNCHANGED <<proc, singleUse>>
  BY <1>4 DEF ApiStep, NewTask, GetTask, KillTask, WaitForTask, WaitedForTask,
              ApiVarsUnchanged
<1>5. CASE BeginPass \/ ReceiveUnknown \/ ReceiveReport \/ ReceiveExecuted \/ EndReceive
              \/ Tick \/ UNCHANGED vars
  <2>1. UNCHANGED <<proc, singleUse>>
    BY <1>5 DEF BeginPass, ReceiveUnknown, ReceiveReport, ReceiveExecuted, ReceiveMessage,
                EndReceive, Tick, vars
  <2> QED
    BY <1>1, <2>1
<1> QED
  BY <1>1, <1>2, <1>3, <1>4, <1>5, WorkerStartsNone DEF Next, PassStep

\* One process is started.
LEMMA OneStarted ==
    ASSUME TypeOK, NEW p \in Pids, NEW kind \in {"pool", "temp"}, proc[p].status = "gone",
           proc' = [proc EXCEPT ![p] = FreshProc(kind)]
    PROVE  /\ Live(kind)' = Live(kind) \cup {p}
           /\ \A other \in {"pool", "temp"} \ {kind} : Live(other)' = Live(other)
<1>1. /\ proc'[p].kind = kind /\ proc'[p].status = "run"
      /\ \A q \in Pids \ {p} : proc'[q] = proc[q]
  BY DEF TypeOK, FreshProc
<1> QED
  BY <1>1 DEF Live

LEMMA LimitStep == InductiveInvariant /\ LimitInv /\ [Next]_vars => LimitInv'
<1> SUFFICES ASSUME TypeOK, LimitInv, [Next]_vars
             PROVE  LimitInv'
  BY DEF InductiveInvariant
<1>1. worker_count \in Nat /\ max_worker_count \in Nat
  BY SchedulerAssumption DEF SchedulerAssumption
<1>2. /\ Live("temp") \in SUBSET Pids /\ Live("pool") \in SUBSET Pids
      /\ singleUse \in SUBSET Pids
  BY DEF Live, TypeOK
<1>3. CASE HandleSingleUsePool
  <2> DEFINE temps == {p \in singleUse : proc[p].status # "gone"}
  <2>1. Live("temp") \subseteq temps /\ temps \in SUBSET Pids
    BY <1>2 DEF LimitInv, Live
  <2>2. CASE singleUse' = temps /\ UNCHANGED proc
    <3>1. Live("temp")' = Live("temp") /\ Live("pool")' = Live("pool")
      BY <2>2 DEF Live
    <3> QED
      BY <2>1, <2>2, <3>1 DEF LimitInv
  <2>3. ASSUME NEW p \in FreePids(temps), Cardinality(temps) < max_worker_count - worker_count,
               proc' = [proc EXCEPT ![p] = FreshProc("temp")], singleUse' = temps \cup {p}
        PROVE  LimitInv'
    <3>1. p \in Pids /\ proc[p].status = "gone"
      BY DEF FreePids
    <3>2. Live("temp")' = Live("temp") \cup {p} /\ Live("pool")' = Live("pool")
      BY <2>3, <3>1, OneStarted
    <3>3. /\ Cardinality(Live("temp") \cup {p}) <= Cardinality(Live("temp")) + 1
          /\ Cardinality(Live("temp")) <= Cardinality(temps)
          /\ Cardinality(Live("temp")) \in Nat /\ Cardinality(temps) \in Nat
          /\ Cardinality(Live("temp") \cup {p}) \in Nat
      BY <1>2, <2>1, <3>1, Countable
    <3> HIDE DEF temps, Live
    <3>4. Cardinality(Live("temp") \cup {p}) <= max_worker_count - worker_count
      BY <1>1, <2>3, <3>3
    <3> QED
      BY <2>1, <2>3, <3>2, <3>4 DEF LimitInv
  <2> QED
    BY <1>3, <2>2, <2>3 DEF HandleSingleUsePool
<1>4. CASE RespawnWorker
  <2>1. PICK p \in FreePids(singleUse) : proc' = [proc EXCEPT ![p] = FreshProc("pool")]
    BY <1>4 DEF RespawnWorker
  <2>2. p \in Pids /\ proc[p].status = "gone" /\ UNCHANGED singleUse
    BY <1>4 DEF FreePids, RespawnWorker, WorkerVarsUnchanged
  <2>3. Live("pool")' = Live("pool") \cup {p} /\ Live("temp")' = Live("temp")
    BY <2>1, <2>2, OneStarted
  <2>4. Cardinality(Live("pool")) < worker_count
    BY <1>4 DEF RespawnWorker, Live
  <2>5. /\ Cardinality(Live("pool") \cup {p}) <= Cardinality(Live("pool")) + 1
        /\ Cardinality(Live("pool")) \in Nat /\ Cardinality(Live("pool") \cup {p}) \in Nat
    BY <1>2, <2>2, Countable
  <2> HIDE DEF Live
  <2>6. Cardinality(Live("pool") \cup {p}) <= worker_count
    BY <1>1, <2>4, <2>5
  <2> QED
    BY <2>2, <2>3, <2>6 DEF LimitInv
<1>5. CASE ~HandleSingleUsePool /\ ~RespawnWorker
  BY <1>5, OthersStartNone, LimitFrame
<1> QED
  BY <1>3, <1>4, <1>5

LEMMA LimitInit == Init => LimitInv
<1> SUFFICES ASSUME Init PROVE LimitInv
  OBVIOUS
<1>1. PICK S \in SUBSET Pids :
         /\ Cardinality(S) = worker_count
         /\ proc = [p \in Pids |-> IF p \in S THEN FreshProc("pool") ELSE Ended("pool", "gone")]
  BY DEF Init
<1>2. \A p \in Pids : proc[p].kind = "pool" /\ (proc[p].status # "gone" <=> p \in S)
  BY <1>1 DEF FreshProc, Ended
<1>3. Live("pool") = S /\ Live("temp") = {}
  BY <1>2 DEF Live
<1>4. worker_count \in Nat /\ max_worker_count \in Nat /\ Cardinality({}) = 0
  BY SchedulerAssumption, FS_EmptySet DEF SchedulerAssumption
<1> HIDE DEF Live
<1> QED
  BY <1>1, <1>3, <1>4 DEF LimitInv

\* The pool and the temporary workers together are all there are.
LEMMA LimitImplies == InductiveInvariant /\ LimitInv => WorkersWithinLimit
<1> SUFFICES ASSUME TypeOK, LimitInv, worker_count <= max_worker_count
             PROVE  Cardinality({p \in Pids : proc[p].status # "gone"}) <= max_worker_count
  BY DEF InductiveInvariant, WorkersWithinLimit
<1>1. /\ Live("temp") \in SUBSET Pids /\ Live("pool") \in SUBSET Pids
      /\ Live("temp") \cap Live("pool") = {}
  BY DEF Live
<1>2. {p \in Pids : proc[p].status # "gone"} = Live("temp") \cup Live("pool")
  BY DEF Live, TypeOK, ProcRecord
<1>3. /\ IsFiniteSet(Live("temp")) /\ IsFiniteSet(Live("pool"))
      /\ Cardinality(Live("temp")) \in Nat /\ Cardinality(Live("pool")) \in Nat
  BY <1>1, Countable
<1>4. Cardinality(Live("temp") \cup Live("pool"))
         = Cardinality(Live("temp")) + Cardinality(Live("pool"))
  <2>1. Cardinality(Live("temp") \cup Live("pool"))
           = Cardinality(Live("temp")) + Cardinality(Live("pool"))
               - Cardinality(Live("temp") \cap Live("pool"))
    BY <1>3, FS_Union
  <2>2. Cardinality(Live("temp") \cap Live("pool")) = 0
    BY <1>1, FS_EmptySet
  <2> HIDE DEF Live
  <2> QED
    BY <1>3, <2>1, <2>2
<1>5. worker_count \in Nat /\ max_worker_count \in Nat
  BY SchedulerAssumption DEF SchedulerAssumption
<1>6. Cardinality(Live("temp")) + Cardinality(Live("pool")) <= max_worker_count
  <2> HIDE DEF Live
  <2> QED
    BY <1>3, <1>5 DEF LimitInv
<1> QED
  BY <1>2, <1>4, <1>6

\* However the pool's respawning, crashes and the mitigation of dead-locks
\* interleave, there are never more worker processes than max_worker_count.
THEOREM LimitSafety == Spec => []WorkersWithinLimit
  BY LimitInit, LimitStep, LimitImplies, Invariance, PTL DEF Spec

-----------------------------------------------------------------------------
(* Shutdown.                                                               *)

\* Pool.terminate only marks processes, and stops the main thread.
LEMMA TerminateMarks ==
    ASSUME TypeOK, TerminateNowait, NEW p \in Pids
    PROVE  /\ proc'[p].at = proc[p].at
           /\ proc'[p].job = proc[p].job
           /\ proc'[p].out = proc[p].out
           /\ proc'[p].status = proc[p].status
           /\ proc'[p].kind = proc[p].kind
           /\ proc'[p] \in ProcRecord
<1>1. proc[p] \in ProcRecord
  BY DEF TypeOK
<1>2. proc'[p] = proc[p] \/ proc'[p] = [proc[p] EXCEPT !.sigterm = TRUE]
  BY DEF TerminateNowait
<1>3. [proc[p] EXCEPT !.sigterm = TRUE] \in ProcRecord
  BY <1>1, ProcUpdates
<1> QED
  BY <1>1, <1>2, <1>3 DEF ProcRecord

\* Whatever the scheduler was doing when the signal came, its invariant
\* holds on.
LEMMA ShutdownInvariant ==
    ASSUME InductiveInvariant, TerminateNowait \/ Terminated
    PROVE  InductiveInvariant'
<1>1. /\ UNCHANGED <<task, register, inqueue, messages, singleUse, toReceive, toProcess, crashes,
                   escaped>>
      /\ pc' \in {"terminating", "terminated"}
  BY DEF TerminateNowait, Terminated
<1>2. TypeOK
  BY DEF InductiveInvariant
<1>3. /\ \A p \in Pids : /\ proc'[p].at = proc[p].at /\ proc'[p].job = proc[p].job
                         /\ proc'[p].out = proc[p].out /\ proc'[p].status = proc[p].status
      /\ proc' \in [Pids -> ProcRecord]
  <2>1. CASE TerminateNowait
    <3>1. \A p \in Pids : proc'[p] \in ProcRecord
      BY <1>2, <2>1, TerminateMarks
    <3>2. proc' \in [Pids -> ProcRecord]
      BY <2>1, <3>1 DEF TerminateNowait
    <3> QED
      BY <1>2, <2>1, <3>2, TerminateMarks
  <2>2. CASE Terminated
    BY <1>2, <2>2 DEF Terminated, TypeOK
  <2> QED
    BY <2>1, <2>2
<1>4. TypeOK'
  BY <1>1, <1>2, <1>3 DEF TypeOK
<1>5. SignalsHitOwnTask' /\ QueuedIsSilent' /\ MessagesConsistent' /\ EscapedIsLost'
  BY <1>1, <1>3 DEF InductiveInvariant, SignalsHitOwnTask, QueuedIsSilent, MessagesConsistent,
                    OwnsOrLost, EscapedIsLost, Announced
<1>6. RunsAtMostOnce'
  BY <1>1, <1>3 DEF InductiveInvariant, RunsAtMostOnce
<1>7. \A p \in Pids : ProcessConsistent(p)'
  BY <1>1, <1>3 DEF InductiveInvariant, ProcessConsistent, Announced
<1>8. UnfinishedStaysRegistered' /\ OnlyFinishedDeleted' /\ ReceiveBounded'
  BY <1>1 DEF InductiveInvariant, UnfinishedStaysRegistered, OnlyFinishedDeleted,
              ReceiveBounded, IsRegistered
<1> QED
  BY <1>4, <1>5, <1>6, <1>7, <1>8 DEF InductiveInvariant

LEMMA ShutdownLimit ==
    ASSUME TypeOK, LimitInv, TerminateNowait \/ Terminated
    PROVE  LimitInv'
<1>1. NoneStarted
  BY TerminateMarks DEF Terminated, NoneStarted
<1> QED
  BY <1>1, LimitFrame DEF TerminateNowait, Terminated

ShutdownInv == InductiveInvariant /\ LimitInv

LEMMA ShutdownInductive == ShutdownSpec => []ShutdownInv
<1>1. Init => ShutdownInv
  BY InitInvariant, LimitInit DEF ShutdownInv
<1>2. ShutdownInv /\ [NextOrShutdown]_vars => ShutdownInv'
  <2> SUFFICES ASSUME ShutdownInv, [NextOrShutdown]_vars
               PROVE  ShutdownInv'
    OBVIOUS
  <2>1. InductiveInvariant /\ LimitInv /\ TypeOK
    BY DEF ShutdownInv, InductiveInvariant
  <2>2. CASE [Next]_vars
    BY <2>1, <2>2, StepInvariant, LimitStep DEF ShutdownInv
  <2>3. CASE TerminateNowait \/ Terminated
    BY <2>1, <2>3, ShutdownInvariant, ShutdownLimit DEF ShutdownInv
  <2> QED
    BY <2>2, <2>3 DEF NextOrShutdown
<1> QED
  BY <1>1, <1>2, PTL DEF ShutdownSpec

\* A shutdown at any moment, in the middle of a pass or between two, breaks
\* none of the promises of the scheduler: no worker gets a signal meant for
\* another one's task, no task runs twice, no unfinished task is dropped, and
\* there are never too many workers.
THEOREM ShutdownKeepsSafety ==
    ShutdownSpec => [](/\ SignalsHitOwnTask /\ RunsAtMostOnce
                       /\ UnfinishedStaysRegistered /\ WorkersWithinLimit)
<1>1. ShutdownInv => /\ SignalsHitOwnTask /\ RunsAtMostOnce
                     /\ UnfinishedStaysRegistered /\ WorkersWithinLimit
  BY LimitImplies DEF ShutdownInv, InductiveInvariant
<1> QED
  BY <1>1, ShutdownInductive, PTL
=============================================================================
