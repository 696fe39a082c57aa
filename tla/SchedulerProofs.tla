-------------------------- MODULE SchedulerProofs --------------------------
(***************************************************************************)
(* Proofs about the scheduler for every number of tasks, workers, reports  *)
(* and crashes and for every timeout.                                      *)
(***************************************************************************)
EXTENDS SchedulerProperties, TLAPS

-----------------------------------------------------------------------------
(* Facts about the operators the steps are built from.                     *)

\* request_deletion, request_kill, the review of a task and a kill keep the
\* shape of a task.
LEMMA TaskOperatorsType ==
    ASSUME NEW r \in TaskRecord
    PROVE  /\ RequestDeletion(r) \in TaskRecord
           /\ \A reason \in KillReasons : RequestKill(r, reason) \in TaskRecord
           /\ DateFinished(r) \in TaskRecord
           /\ Killed(r) \in TaskRecord
           /\ Reviewed(r) \in TaskRecord
<1>1. \A s \in TaskRecord : RequestDeletion(s) \in TaskRecord
    BY TaskAssumption DEF TaskAssumption, TaskRecord, RequestDeletion
<1>5. \A s \in TaskRecord : DateFinished(s) \in TaskRecord
    BY TaskAssumption DEF TaskAssumption, TaskRecord, DateFinished
<1>6. Killed(r) \in TaskRecord
    BY DEF TaskRecord, Killed, States, FinishTypes
<1>2. \A reason \in KillReasons : RequestKill(r, reason) \in TaskRecord
    BY DEF TaskRecord, RequestKill
<1>3. [r EXCEPT !.state = "QUEUED"] \in TaskRecord
    BY DEF TaskRecord, States
<1>4. Reviewed(r) \in TaskRecord
    BY <1>1, <1>2, <1>3, <1>5 DEF Reviewed, KillReasons
<1> QED BY <1>1, <1>2, <1>4, <1>5, <1>6

\* Changing one field keeps the shape of a task.
LEMMA TaskUpdates ==
    ASSUME NEW r \in TaskRecord
    PROVE  /\ \A v \in States : [r EXCEPT !.state = v] \in TaskRecord
           /\ \A v \in FinishTypes : [r EXCEPT !.finishType = v] \in TaskRecord
           /\ \A v \in Pids : [r EXCEPT !.pid = v] \in TaskRecord
           /\ \A v \in {"none", "value"} : [r EXCEPT !.result = v] \in TaskRecord
           /\ [r EXCEPT !.lastMessage = 0] \in TaskRecord
           /\ [r EXCEPT !.reports = r.reports + 1] \in TaskRecord
    BY TaskAssumption DEF TaskAssumption, TaskRecord

\* Changing one field keeps the shape of a process.
LEMMA ProcUpdates ==
    ASSUME NEW f \in ProcRecord
    PROVE  /\ \A v \in {"run", "stopped"} : [f EXCEPT !.status = v] \in ProcRecord
           /\ \A v \in {"get", "begin", "run", "pause", "resume"} :
                 [f EXCEPT !.at = v] \in ProcRecord
           /\ \A v \in Tasks \cup {NoTask} : [f EXCEPT !.job = v] \in ProcRecord
           /\ \A v \in MessageSet \cup {NoMessage} :
                 [f EXCEPT !.out = v] \in ProcRecord
           /\ \A v \in BOOLEAN : /\ [f EXCEPT !.terminate = v] \in ProcRecord
                                 /\ [f EXCEPT !.sigterm = v] \in ProcRecord
           /\ \A v \in 0 .. MaxReports : [f EXCEPT !.sent = v] \in ProcRecord
           /\ \A v \in 0 .. worker_reset_limit :
                 [f EXCEPT !.done = v] \in ProcRecord
    BY DEF ProcRecord

\* Messages have the fields they are made of.
LEMMA MessageFields ==
    ASSUME NEW m \in MessageSet
    PROVE  /\ m.task \in Tasks
           /\ m.kind \in {"executed", "report", "finished"}
           /\ m.kind = "executed" => m.pid \in Pids
           /\ m.kind = "finished" => m.type \in CompletionTypes
    BY DEF MessageSet, Message

\* Processes that are started or have ended have the shape of a process.
LEMMA FreshProcType ==
    ASSUME NEW kind \in {"pool", "temp"}
    PROVE  /\ FreshProc(kind) \in ProcRecord
           /\ Ended(kind, "zombie") \in ProcRecord
           /\ Ended(kind, "gone") \in ProcRecord
<1>1. FreshProc(kind) \in ProcRecord
    BY SchedulerAssumption DEF SchedulerAssumption, FreshProc, ProcRecord
<1>2. \A f \in ProcRecord : \A status \in {"zombie", "gone"} :
         [f EXCEPT !.status = status] \in ProcRecord
    BY DEF ProcRecord
<1> QED BY <1>1, <1>2 DEF Ended

\* Removing a task from the register keeps the others.
LEMMA WithoutKeeps ==
    ASSUME NEW s \in Seq(Tasks), NEW t \in Tasks
    PROVE  /\ Without(s, t) \in Seq(Tasks)
           /\ \A u \in Tasks \ {t} :
                 (\E i \in DOMAIN s : s[i] = u) =>
                    \E i \in DOMAIN Without(s, t) : Without(s, t)[i] = u
<1>1. CASE \E j \in DOMAIN s : s[j] = t
  <2> DEFINE k == CHOOSE i \in DOMAIN s : s[i] = t
             w == [j \in 1 .. Len(s) - 1 |-> IF j < k THEN s[j] ELSE s[j + 1]]
  <2>1. k \in DOMAIN s /\ s[k] = t
    BY <1>1
  <2>2. Without(s, t) = w
    BY <1>1 DEF Without
  <2>3. DOMAIN s = 1 .. Len(s) /\ Len(s) \in Nat /\ Len(s) > 0
    BY <2>1
  <2> HIDE DEF k
  <2>4. \A j \in 1 .. Len(s) - 1 : w[j] \in Tasks
    BY <2>1, <2>3
  <2>5. w \in Seq(Tasks)
    BY <2>3, <2>4
  <2>6. ASSUME NEW u \in Tasks \ {t}, NEW i \in DOMAIN s, s[i] = u
        PROVE  \E j \in DOMAIN w : w[j] = u
    <3>1. i # k
      BY <2>1, <2>6
    <3>2. CASE i < k
      BY <2>1, <2>3, <2>6, <3>2
    <3>3. CASE i > k
      <4>1. i - 1 \in DOMAIN w /\ w[i - 1] = s[i]
        BY <2>1, <2>3, <2>6, <3>3
      <4> QED BY <4>1, <2>6
    <3> QED BY <2>1, <2>3, <3>1, <3>2, <3>3
  <2> QED BY <2>2, <2>5, <2>6
<1>2. CASE ~ \E j \in DOMAIN s : s[j] = t
    BY <1>2 DEF Without
<1> QED BY <1>1, <1>2

\* Signals change the shape of no process.
LEMMA SignalsType ==
    ASSUME TypeOK, NEW pid \in Pids \cup {NoPid}
    PROVE  /\ Sigterm(pid) \in [Pids -> ProcRecord]
           /\ Sigcont(pid) \in [Pids -> ProcRecord]
<1>1. \A f \in ProcRecord : /\ [f EXCEPT !.sigterm = TRUE] \in ProcRecord
                            /\ [f EXCEPT !.status = "run"] \in ProcRecord
    BY DEF ProcRecord
<1>2. Sigterm(pid) \in [Pids -> ProcRecord]
    BY <1>1 DEF TypeOK, Sigterm
<1>3. Sigcont(pid) \in [Pids -> ProcRecord]
    BY <1>1 DEF TypeOK, Sigcont
<1> QED BY <1>2, <1>3

-----------------------------------------------------------------------------
(* Type correctness.                                                       *)

\* The state that Scheduler.__init__ and the new pool leave has its types.
LEMMA InitType == Init => TypeOK
<1> SUFFICES ASSUME Init PROVE TypeOK
    OBVIOUS
<1>1. NewTaskRecord \in TaskRecord
    BY DEF NewTaskRecord, TaskRecord, States, FinishTypes, Never
<1>2. PICK S \in SUBSET Pids :
         proc = [p \in Pids |-> IF p \in S THEN FreshProc("pool")
                                          ELSE Ended("pool", "gone")]
    BY DEF Init
<1>3. proc \in [Pids -> ProcRecord]
    BY <1>2, FreshProcType
<1> QED BY <1>1, <1>3, SchedulerAssumption DEF Init, TypeOK, SchedulerAssumption

\* The API changes one task.
LEMMA ApiType ==
    ASSUME TypeOK, NEW t \in Tasks, ApiStep(t)
    PROVE  TypeOK'
<1>1. task[t] \in TaskRecord
    BY DEF TypeOK
<1>2. CASE NewTask(t)
  <2>1. [task[t] EXCEPT !.state = "CREATED"] \in TaskRecord
    BY <1>1 DEF TaskRecord, States
  <2> QED BY <1>2, <2>1 DEF NewTask, ApiVarsUnchanged, TypeOK
<1>3. CASE GetTask(t)
    BY <1>1, <1>3, TaskOperatorsType DEF GetTask, ApiVarsUnchanged, TypeOK
<1>4. CASE KillTask(t)
    BY <1>1, <1>4, TaskOperatorsType
       DEF KillTask, ApiVarsUnchanged, TypeOK, KillReasons
<1>5. CASE WaitForTask(t)
  <2>1. [task[t] EXCEPT !.client = "waiting"] \in TaskRecord
    BY <1>1 DEF TaskRecord
  <2> QED BY <1>5, <2>1 DEF WaitForTask, ApiVarsUnchanged, TypeOK
<1>6. CASE WaitedForTask(t)
  <2>1. \A r \in TaskRecord : [r EXCEPT !.client = "answered"] \in TaskRecord
    BY DEF TaskRecord
  <2> QED BY <1>1, <1>6, <2>1, TaskOperatorsType
          DEF WaitedForTask, ApiVarsUnchanged, TypeOK
<1> QED BY <1>2, <1>3, <1>4, <1>5, <1>6 DEF ApiStep

\* No step of perform_actions breaks a type.
LEMMA PassType ==
    ASSUME TypeOK, ReceiveBounded, PassStep
    PROVE  TypeOK'
<1>1. CASE BeginPass
    BY <1>1 DEF BeginPass, TypeOK
<1> DEFINE m == Head(messages)
<1>2. ASSUME ReceiveMessage
      PROVE  /\ m \in MessageSet
             /\ messages' \in Seq(MessageSet)
             /\ toReceive - 1 \in Nat
             /\ task[m.task] \in TaskRecord
  <2>1. messages # <<>>
    BY <1>2 DEF ReceiveMessage, ReceiveBounded, TypeOK
  <2>2. m \in MessageSet /\ messages' \in Seq(MessageSet)
    BY <1>2, <2>1 DEF ReceiveMessage, TypeOK
  <2> QED BY <1>2, <2>2, MessageFields DEF ReceiveMessage, TypeOK
<1>3. CASE ReceiveUnknown
    BY <1>2, <1>3 DEF ReceiveUnknown, ReceiveMessage, NextMessage, TypeOK
<1>4. CASE ReceiveReport
  <2> DEFINE r == task[m.task]
             r1 == [r EXCEPT !.reports = r.reports + 1]
  <2>0. r1 \in TaskRecord
    BY <1>2, <1>4, TaskUpdates DEF ReceiveReport
  <2>1. [r1 EXCEPT !.lastMessage = 0] \in TaskRecord
    BY <2>0, TaskUpdates
  <2>2. task' \in [Tasks -> TaskRecord]
    BY <1>2, <1>4, <2>1 DEF ReceiveReport, TypeOK
  <2> QED BY <1>2, <1>4, <2>2
          DEF ReceiveReport, ReceiveMessage, NextMessage, TypeOK
<1>5. CASE ReceiveExecuted
  <2>1. m.pid \in Pids
    BY <1>2, <1>5, MessageFields DEF ReceiveExecuted
  <2> DEFINE r == task[m.task]
             r1 == [r EXCEPT !.pid = m.pid]
             r2 == [r1 EXCEPT !.state = "EXECUTED"]
  <2>2. r1 \in TaskRecord
    BY <1>2, <1>5, <2>1, TaskUpdates DEF ReceiveExecuted
  <2>4. r2 \in TaskRecord
    BY <2>2, TaskUpdates DEF States
  <2>5. [r2 EXCEPT !.lastMessage = 0] \in TaskRecord
    BY <2>4, TaskUpdates
  <2>3. task' \in [Tasks -> TaskRecord]
    BY <1>2, <1>5, <2>2, <2>5 DEF ReceiveExecuted, TypeOK
  <2> QED BY <1>2, <1>5, <2>3
          DEF ReceiveExecuted, ReceiveMessage, NextMessage, AbortPass, TypeOK
<1>6. CASE ReceiveFinished
  <2> DEFINE r == task[m.task]
             done == [r EXCEPT !.result = ResultOf(m.type),
                               !.state = "FINISHED", !.finishType = m.type]
  <2>1. m.type \in CompletionTypes /\ r \in TaskRecord
    BY <1>2, <1>6, MessageFields DEF ReceiveFinished
  <2>2. ResultOf(m.type) \in {"none", "value"}
    BY DEF ResultOf
  <2>3. done \in TaskRecord
    BY <2>1, <2>2 DEF TaskRecord, States, FinishTypes
  <2>4. /\ [done EXCEPT !.lastMessage = 0] \in TaskRecord
        /\ [r EXCEPT !.result = ResultOf(m.type)] \in TaskRecord
    BY <2>1, <2>2, <2>3, TaskUpdates
  <2> HIDE DEF done
  <2>5. task' \in [Tasks -> TaskRecord]
    BY <1>6, <2>1, <2>3, <2>4 DEF ReceiveFinished, TypeOK, done
  <2>6. r.pid \in Pids \cup {NoPid}
    BY <2>1 DEF TaskRecord
  <2>7. proc' \in [Pids -> ProcRecord]
    BY <1>6, <2>6, SignalsType DEF ReceiveFinished, TypeOK
  <2> QED BY <1>2, <1>6, <2>5, <2>7
          DEF ReceiveFinished, ReceiveMessage, NextMessage, AbortPass, TypeOK
<1>7. CASE EndReceive
    BY <1>7 DEF EndReceive, TypeOK
<1>8. CASE ProcessTask
  <2> DEFINE t == Head(toProcess)
             reviewed == Reviewed(task[t])
             final == IF CanKill(reviewed) THEN Killed(reviewed) ELSE reviewed
  <2>1. t \in Tasks /\ Tail(toProcess) \in Seq(Tasks)
    BY <1>8 DEF ProcessTask, TypeOK
  <2>2. reviewed \in TaskRecord /\ final \in TaskRecord
    BY <2>1, TaskOperatorsType DEF TypeOK
  <2>3. reviewed.pid \in Pids \cup {NoPid}
    BY <2>2 DEF TaskRecord
  <2> HIDE DEF reviewed, final
  <2>4. task' \in [Tasks -> TaskRecord]
    BY <1>8, <2>1, <2>2 DEF ProcessTask, TypeOK, reviewed, final
  <2>5. proc' \in [Pids -> ProcRecord]
    BY <1>8, <2>3, SignalsType DEF ProcessTask, TypeOK, reviewed
  <2>6. register' \in Seq(Tasks)
    BY <1>8, <2>1, WithoutKeeps DEF ProcessTask, TypeOK
  <2>7. inqueue' \in Seq(Tasks)
    BY <1>8, <2>1 DEF ProcessTask, TypeOK
  <2> QED BY <1>8, <2>1, <2>4, <2>5, <2>6, <2>7 DEF ProcessTask, TypeOK
<1>9. CASE HandleSingleUsePool
    BY <1>9, FreshProcType DEF HandleSingleUsePool, FreePids, TypeOK
<1> QED BY <1>1, <1>3, <1>4, <1>5, <1>6, <1>7, <1>8, <1>9 DEF PassStep

\* No step of a worker process breaks a type.
LEMMA ProcType ==
    ASSUME TypeOK, NEW p \in Pids, ProcessConsistent(p), ProcStep(p)
    PROVE  TypeOK'
<1>1. proc[p] \in ProcRecord
    BY DEF TypeOK
<1>2. /\ Ended(proc[p].kind, "zombie") \in ProcRecord
      /\ Ended(proc[p].kind, "gone") \in ProcRecord
    BY <1>1, FreshProcType DEF ProcRecord
<1>3. /\ proc[p].out \in MessageSet \cup {NoMessage}
      /\ proc[p].sent \in 0 .. MaxReports
      /\ proc[p].done \in 0 .. worker_reset_limit
      /\ proc[p].at # "get" => proc[p].job \in Tasks
    BY <1>1 DEF ProcRecord, ProcessConsistent
<1>0. escaped' \in SUBSET Tasks
  <2>1. UNCHANGED escaped \/ EscapeTask(p)
    BY DEF ProcStep, WorkerStep, CommandStep, TakeTask, PutExecuted,
       PutReport, PutFinished, BeginPut, EndPut, PauseWorker, ReturnFromTask,
       HandleSigterm, Crash, Reap, WorkerVarsUnchanged
  <2>2. EscapeTask(p) => escaped' \in SUBSET Tasks
    BY <1>3 DEF EscapeTask, TypeOK
  <2> QED BY <2>1, <2>2 DEF TypeOK
<1> SUFFICES /\ proc' \in [Pids -> ProcRecord]
             /\ inqueue' \in Seq(Tasks)
             /\ messages' \in Seq(MessageSet)
             /\ crashes' \in 0 .. MaxCrashes
    BY <1>0
       DEF TypeOK, ProcStep, WorkerStep, CommandStep, TakeTask, PutExecuted,
       PutReport, PutFinished, BeginPut, EndPut, PauseWorker, ReturnFromTask,
       EscapeTask, HandleSigterm, Crash, Reap, WorkerVarsUnchanged
<1>4. CASE TakeTask(p)
  <2> DEFINE f1 == [proc[p] EXCEPT !.at = "begin"]
             f2 == [f1 EXCEPT !.job = Head(inqueue)]
  <2>1. Head(inqueue) \in Tasks /\ Tail(inqueue) \in Seq(Tasks)
    BY <1>4 DEF TakeTask, TypeOK
  <2>2. f1 \in ProcRecord
    BY <1>1, ProcUpdates
  <2>3. f2 \in ProcRecord
    BY <2>1, <2>2, ProcUpdates
  <2>5. 0 \in 0 .. MaxReports
    BY SchedulerAssumption DEF SchedulerAssumption
  <2> HIDE DEF f2
  <2>6. [f2 EXCEPT !.sent = 0] \in ProcRecord
    BY <2>3, <2>5, ProcUpdates
  <2>4. [proc[p] EXCEPT !.at = "begin", !.job = Head(inqueue), !.sent = 0]
           \in ProcRecord
    BY <2>6 DEF f2
  <2> QED BY <1>4, <2>1, <2>4 DEF TakeTask, WorkerVarsUnchanged, TypeOK
<1>5. ASSUME NEW m \in MessageSet, BeginPut(p, m),
             m.kind = "report" => proc[p].sent < MaxReports
      PROVE  /\ proc' \in [Pids -> ProcRecord]
             /\ inqueue' \in Seq(Tasks)
             /\ messages' \in Seq(MessageSet)
             /\ crashes' \in 0 .. MaxCrashes
  <2> DEFINE n == IF m.kind = "report" THEN proc[p].sent + 1 ELSE proc[p].sent
             f1 == [proc[p] EXCEPT !.out = m]
  <2>1. f1 \in ProcRecord
    BY <1>1, ProcUpdates
  <2>2. n \in 0 .. MaxReports
    BY <1>3, <1>5, SchedulerAssumption DEF SchedulerAssumption
  <2>3. [f1 EXCEPT !.sent = n] \in ProcRecord
    BY <2>1, <2>2, ProcUpdates
  <2> QED BY <1>5, <2>3 DEF BeginPut, WorkerVarsUnchanged, TypeOK
<1>6. CASE PutExecuted(p)
  <2> DEFINE m == Message("executed", proc[p].job, p, "none")
  <2>1. m \in MessageSet /\ m.kind # "report"
    BY <1>3, <1>6 DEF PutExecuted, Running, MessageSet, Message
  <2>2. BeginPut(p, m)
    BY <1>6 DEF PutExecuted
  <2> HIDE DEF m
  <2> QED BY <1>5, <2>1, <2>2
<1>7. CASE PutReport(p)
  <2> DEFINE m == Message("report", proc[p].job, NoPid, "none")
  <2>1. m \in MessageSet
    BY <1>3, <1>7 DEF PutReport, Running, MessageSet, Message
  <2>2. BeginPut(p, m) /\ proc[p].sent < MaxReports
    BY <1>7 DEF PutReport
  <2> HIDE DEF m
  <2> QED BY <1>5, <2>1, <2>2
<1>8. ASSUME NEW type \in CompletionTypes, PutFinished(p, type)
      PROVE  /\ proc' \in [Pids -> ProcRecord]
             /\ inqueue' \in Seq(Tasks)
             /\ messages' \in Seq(MessageSet)
             /\ crashes' \in 0 .. MaxCrashes
    BY <1>3, <1>5, <1>8 DEF PutFinished, Running, MessageSet, Message
<1>9. CASE EndPut(p)
  <2> DEFINE at == IF proc[p].out.kind = "finished" THEN "pause" ELSE "run"
             f1 == [proc[p] EXCEPT !.out = NoMessage]
  <2>1. f1 \in ProcRecord
    BY <1>1, ProcUpdates
  <2>2. [f1 EXCEPT !.at = at] \in ProcRecord
    BY <2>1, ProcUpdates
  <2>3. messages' \in Seq(MessageSet)
    BY <1>3, <1>9 DEF EndPut, IsLocked, TypeOK
  <2> QED BY <1>2, <1>9, <2>2, <2>3
          DEF EndPut, Exits, WorkerVarsUnchanged, TypeOK
<1>10. CASE PauseWorker(p)
  <2> DEFINE f1 == [proc[p] EXCEPT !.status = "stopped"]
  <2>1. f1 \in ProcRecord
    BY <1>1, ProcUpdates
  <2>2. [f1 EXCEPT !.at = "resume"] \in ProcRecord
    BY <2>1, ProcUpdates
  <2> QED BY <1>10, <2>2 DEF PauseWorker, WorkerVarsUnchanged, TypeOK
<1>11. CASE ReturnFromTask(p) \/ EscapeTask(p)
  <2>0. /\ LeavesTask(p) /\ UNCHANGED <<inqueue, messages, crashes>>
    BY <1>11 DEF ReturnFromTask, EscapeTask, WorkerVarsUnchanged
  <2>1. CASE Exits(p)
    BY <1>2, <2>0, <2>1 DEF Exits, TypeOK
  <2>2. CASE ~Exits(p)
    <3> DEFINE f1 == [proc[p] EXCEPT !.at = "get"]
               f2 == [f1 EXCEPT !.job = NoTask]
               f3 == [f2 EXCEPT !.out = NoMessage]
    <3>1. f1 \in ProcRecord
      BY <1>1, ProcUpdates
    <3>2. f2 \in ProcRecord
      BY <3>1, ProcUpdates
    <3>5. f3 \in ProcRecord
      BY <3>2, ProcUpdates
    <3>3. proc[p].done + 1 \in 0 .. worker_reset_limit
      BY <1>3, <2>0, <2>2, SchedulerAssumption
         DEF LeavesTask, SchedulerAssumption
    <3> HIDE DEF f3
    <3>4. [f3 EXCEPT !.done = proc[p].done + 1] \in ProcRecord
      BY <3>5, <3>3, ProcUpdates
    <3>6. [proc[p] EXCEPT !.at = "get", !.job = NoTask, !.out = NoMessage,
                          !.done = proc[p].done + 1] \in ProcRecord
      BY <3>4 DEF f3
    <3> QED BY <2>0, <2>2, <3>6 DEF LeavesTask, TypeOK
  <2> QED BY <2>1, <2>2
<1>12. CASE HandleSigterm(p)
  <2> DEFINE f1 == [proc[p] EXCEPT !.sigterm = FALSE]
  <2>1. f1 \in ProcRecord
    BY <1>1, ProcUpdates
  <2>2. [f1 EXCEPT !.terminate = TRUE] \in ProcRecord
    BY <2>1, ProcUpdates
  <2> QED BY <1>2, <1>12, <2>2
          DEF HandleSigterm, Exits, WorkerVarsUnchanged, TypeOK
<1>13. CASE Crash(p)
    BY <1>2, <1>13, SchedulerAssumption
       DEF Crash, Exits, TypeOK, SchedulerAssumption
<1>14. CASE Reap(p)
    BY <1>2, <1>14 DEF Reap, WorkerVarsUnchanged, TypeOK
<1> QED BY <1>4, <1>6, <1>7, <1>8, <1>9, <1>10, <1>11, <1>12, <1>13, <1>14
        DEF ProcStep, WorkerStep, CommandStep

\* The pool's replacement of an exited worker breaks no type.
LEMMA RespawnType ==
    ASSUME TypeOK, RespawnWorker
    PROVE  TypeOK'
    BY FreshProcType DEF RespawnWorker, FreePids, WorkerVarsUnchanged, TypeOK

\* The passing of time breaks no type.
LEMMA TickType ==
    ASSUME TypeOK, Tick
    PROVE  TypeOK'
<1> DEFINE Older(r) == IF r.lastMessage \in {Never, MaxAge}
                       THEN r.lastMessage ELSE r.lastMessage + 1
           Nearer(r) == IF r.toDelete \in {Never, 0}
                        THEN r.toDelete ELSE r.toDelete - 1
<1>1. ASSUME NEW r \in TaskRecord
      PROVE  /\ Older(r) \in {Never} \cup 0 .. MaxAge
             /\ Nearer(r) \in {Never} \cup 0 .. deletion_timeout
    BY TaskAssumption DEF TaskRecord, TaskAssumption, Never
<1>2. \A r \in TaskRecord :
         /\ \A v \in {Never} \cup 0 .. MaxAge :
               [r EXCEPT !.lastMessage = v] \in TaskRecord
         /\ \A v \in {Never} \cup 0 .. deletion_timeout :
               [r EXCEPT !.toDelete = v] \in TaskRecord
    BY DEF TaskRecord
<1>3. ASSUME NEW r \in TaskRecord
      PROVE  [r EXCEPT !.lastMessage = Older(r), !.toDelete = Nearer(r)]
                \in TaskRecord
  <2> DEFINE r1 == [r EXCEPT !.lastMessage = Older(r)]
  <2> HIDE DEF Older, Nearer
  <2>1. r1 \in TaskRecord
    BY <1>1, <1>2
  <2>2. [r1 EXCEPT !.toDelete = Nearer(r)] \in TaskRecord
    BY <1>1, <1>2, <2>1
  <2> QED BY <2>2
<1>4. task' \in [Tasks -> TaskRecord]
    BY <1>3 DEF Tick, TypeOK
<1> QED BY <1>4 DEF Tick, TypeOK

-----------------------------------------------------------------------------
(* The conjuncts about queues, messages and processes.                     *)

Core ==
    /\ SignalsHitOwnTask
    /\ RunsAtMostOnce
    /\ QueuedIsSilent
    /\ \A p \in Pids : ProcessConsistent(p)
    /\ MessagesConsistent
    /\ EscapedIsLost

\* The types the proofs below use most.
LEMMA Shapes ==
    ASSUME TypeOK
    PROVE  /\ \A t \in Tasks : task[t].state \in States
           /\ \A p \in Pids : /\ proc[p].job \in Tasks \cup {NoTask}
                              /\ proc[p].out \in MessageSet \cup {NoMessage}
           /\ \A i \in DOMAIN messages : /\ messages[i] \in MessageSet
                                         /\ messages[i].task \in Tasks
           /\ \A i \in DOMAIN inqueue : inqueue[i] \in Tasks
           /\ Len(messages) \in Nat /\ DOMAIN messages = 1 .. Len(messages)
           /\ Len(inqueue) \in Nat /\ DOMAIN inqueue = 1 .. Len(inqueue)
           /\ NoTask \notin Tasks /\ escaped \in SUBSET Tasks
<1>1. \A t \in Tasks : task[t].state \in States
    BY DEF TypeOK, TaskRecord
<1>2. \A p \in Pids : /\ proc[p].job \in Tasks \cup {NoTask}
                      /\ proc[p].out \in MessageSet \cup {NoMessage}
    BY DEF TypeOK, ProcRecord
<1>3. \A i \in DOMAIN messages : messages[i] \in MessageSet
    BY DEF TypeOK
<1> QED BY <1>1, <1>2, <1>3, MessageFields, SchedulerAssumption
        DEF TypeOK, SchedulerAssumption

\* Core looks at the states and pids of tasks that have been queued, so it
\* survives every step that changes neither.
LEMMA CoreFrame ==
    ASSUME TypeOK, Core, UNCHANGED <<inqueue, messages, proc, escaped>>,
           \A t \in Tasks :
              \/ task'[t].state = task[t].state /\ task'[t].pid = task[t].pid
              \/ /\ task[t].state \in {"NEW", "CREATED"}
                 /\ task'[t].state # "EXECUTED"
    PROVE  Core'
<1>1. SignalsHitOwnTask'
    BY DEF Core, SignalsHitOwnTask, OwnsOrLost
<1>2. RunsAtMostOnce'
    BY Shapes DEF Core, RunsAtMostOnce, ProcessConsistent
<1>3. QueuedIsSilent'
    BY DEF Core, QueuedIsSilent
<1>4. ASSUME NEW p \in Pids
      PROVE  ProcessConsistent(p)'
    BY Shapes DEF Core, ProcessConsistent, Announced
<1>5. MessagesConsistent'
    BY Shapes DEF Core, MessagesConsistent, OwnsOrLost
<1>6. EscapedIsLost'
    BY Shapes DEF Core, EscapedIsLost, Announced
<1> QED BY <1>1, <1>2, <1>3, <1>4, <1>5, <1>6 DEF Core

\* A process that dies leaves nothing behind but its messages.
LEMMA CoreDeath ==
    ASSUME TypeOK, Core, NEW p \in Pids, NEW status \in {"zombie", "gone"},
           proc' = [proc EXCEPT ![p] = Ended(proc[p].kind, status)],
           UNCHANGED <<task, inqueue, messages, escaped>>
    PROVE  Core'
<1>1. /\ proc'[p].status = status /\ proc'[p].at = "get"
      /\ proc'[p].job = NoTask /\ proc'[p].out = NoMessage
      /\ \A q \in Pids \ {p} : proc'[q] = proc[q]
    BY DEF TypeOK, Ended, FreshProc
<1>2. SignalsHitOwnTask'
    BY <1>1 DEF Core, SignalsHitOwnTask, OwnsOrLost
<1>3. RunsAtMostOnce'
    BY <1>1, Shapes DEF Core, RunsAtMostOnce
<1>4. QueuedIsSilent'
    BY DEF Core, QueuedIsSilent
<1>5. ASSUME NEW q \in Pids
      PROVE  ProcessConsistent(q)'
    BY <1>1 DEF Core, ProcessConsistent, Announced, Alive
<1>6. MessagesConsistent'
    BY <1>1 DEF Core, MessagesConsistent, OwnsOrLost
<1>7. EscapedIsLost'
    BY <1>1, Shapes DEF Core, EscapedIsLost, Announced
<1> QED BY <1>2, <1>3, <1>4, <1>5, <1>6, <1>7 DEF Core

\* A new process takes a pid nobody refers to.
LEMMA CoreSpawn ==
    ASSUME TypeOK, Core, NEW p \in Pids, NEW kind \in {"pool", "temp"},
           proc[p].status = "gone", ~IsReferenced(p),
           proc' = [proc EXCEPT ![p] = FreshProc(kind)],
           UNCHANGED <<task, inqueue, messages, escaped>>
    PROVE  Core'
<1>1. /\ proc'[p].status = "run" /\ proc'[p].at = "get"
      /\ proc'[p].job = NoTask /\ proc'[p].out = NoMessage
      /\ \A q \in Pids \ {p} : proc'[q] = proc[q]
    BY DEF TypeOK, FreshProc
<1>2. SignalsHitOwnTask'
    BY <1>1 DEF Core, SignalsHitOwnTask, OwnsOrLost, IsReferenced
<1>3. RunsAtMostOnce'
    BY <1>1, Shapes DEF Core, RunsAtMostOnce
<1>4. QueuedIsSilent'
    BY DEF Core, QueuedIsSilent
<1>5. ASSUME NEW q \in Pids
      PROVE  ProcessConsistent(q)'
    BY <1>1 DEF Core, ProcessConsistent, Announced, Alive
<1>6. MessagesConsistent'
    BY <1>1 DEF Core, MessagesConsistent, OwnsOrLost, IsReferenced
<1>7. EscapedIsLost'
    BY <1>1, Shapes DEF Core, EscapedIsLost, Announced
<1> QED BY <1>2, <1>3, <1>4, <1>5, <1>6, <1>7 DEF Core

\* mp.pool.worker takes a task that nobody else has or has heard of.
LEMMA CoreTakeTask ==
    ASSUME TypeOK, Core, NEW p \in Pids, TakeTask(p)
    PROVE  Core'
<1> DEFINE t == Head(inqueue)
<1>1. /\ t \in Tasks /\ t = inqueue[1] /\ 1 \in DOMAIN inqueue
      /\ DOMAIN inqueue' = 1 .. Len(inqueue) - 1
      /\ \A i \in DOMAIN inqueue' : /\ inqueue'[i] = inqueue[i + 1]
                                    /\ i + 1 \in DOMAIN inqueue
    BY DEF TakeTask, TypeOK
<1>2. /\ proc[p].status = "run" /\ proc[p].at = "get"
      /\ proc[p].out = NoMessage
    BY DEF TakeTask, Running, IsLocked
<1>3. /\ proc'[p].status = "run" /\ proc'[p].at = "begin"
      /\ proc'[p].job = t /\ proc'[p].out = NoMessage
      /\ \A q \in Pids \ {p} : proc'[q] = proc[q]
    BY <1>2 DEF TakeTask, TypeOK
<1>4. UNCHANGED <<task, messages, escaped>>
    BY DEF TakeTask, WorkerVarsUnchanged
<1> HIDE DEF t
<1>5. SignalsHitOwnTask'
    BY <1>2, <1>3, <1>4 DEF Core, SignalsHitOwnTask, OwnsOrLost
<1>6. /\ \A i \in DOMAIN inqueue' : inqueue'[i] # t
      /\ task[t].state = "QUEUED"
      /\ \A q \in Pids : proc[q].job # t
      /\ \A j \in DOMAIN messages : messages[j].task # t
    BY <1>1, Shapes DEF Core, RunsAtMostOnce, QueuedIsSilent
<1>7. RunsAtMostOnce'
  <2>1. \A i, j \in DOMAIN inqueue' : inqueue'[i] = inqueue'[j] => i = j
    BY <1>1, Shapes DEF Core, RunsAtMostOnce
  <2>2. \A q, r \in Pids : proc'[q].job = proc'[r].job /\ proc'[q].job # NoTask
                              => q = r
    BY <1>3, <1>6 DEF Core, RunsAtMostOnce
  <2>3. \A i \in DOMAIN inqueue' : /\ task'[inqueue'[i]].state = "QUEUED"
                                   /\ \A q \in Pids : proc'[q].job # inqueue'[i]
    BY <1>1, <1>3, <1>4, <1>6 DEF Core, RunsAtMostOnce
  <2>4. \A q \in Pids : proc'[q].at = "begin" =>
                           task'[proc'[q].job].state = "QUEUED"
    BY <1>3, <1>4, <1>6 DEF Core, RunsAtMostOnce
  <2> QED BY <2>1, <2>2, <2>3, <2>4 DEF RunsAtMostOnce
<1>8. QueuedIsSilent'
    BY <1>1, <1>4 DEF Core, QueuedIsSilent
<1>9. ASSUME NEW q \in Pids
      PROVE  ProcessConsistent(q)'
    BY <1>1, <1>3, <1>4, <1>6, Shapes
       DEF Core, ProcessConsistent, Announced, Alive
<1>10. MessagesConsistent'
    BY <1>2, <1>3, <1>4 DEF Core, MessagesConsistent, OwnsOrLost
<1>11. EscapedIsLost'
    BY <1>1, <1>3, <1>4, Shapes DEF Core, EscapedIsLost, Announced
<1> QED BY <1>5, <1>7, <1>8, <1>9, <1>10, <1>11 DEF Core

\* Steps of a worker that neither take nor leave a task and send nothing.
LEMMA CoreStay ==
    ASSUME TypeOK, Core, NEW p \in Pids,
           UNCHANGED <<task, inqueue, messages, escaped>>,
           \A q \in Pids \ {p} : proc'[q] = proc[q],
           proc'[p].job = proc[p].job,
           \/ proc'[p].at = proc[p].at /\ proc'[p].status = proc[p].status
           \/ /\ proc[p].at = "pause" /\ proc'[p].at = "resume"
              /\ proc'[p].status = "stopped",
           proc[p].status = "run",
           \/ proc'[p].out = proc[p].out /\ proc'[p].at = proc[p].at
           \/ proc'[p].out = NoMessage
           \/ /\ proc'[p].out.task = proc[p].job
              /\ proc'[p].out.kind = "executed" => /\ proc'[p].at = "begin"
                                                   /\ proc'[p].out.pid = p
              /\ proc'[p].out.kind # "executed" => proc'[p].at = "run"
    PROVE  Core'
<1>1. SignalsHitOwnTask'
    BY DEF Core, SignalsHitOwnTask, OwnsOrLost
<1>2. RunsAtMostOnce'
    BY DEF Core, RunsAtMostOnce
<1>3. QueuedIsSilent'
    BY DEF Core, QueuedIsSilent
<1>4. ASSUME NEW q \in Pids
      PROVE  ProcessConsistent(q)'
    BY DEF Core, ProcessConsistent, Announced, Alive
<1>5. MessagesConsistent'
    BY DEF Core, MessagesConsistent, OwnsOrLost
<1>6. EscapedIsLost'
    BY DEF Core, EscapedIsLost, Announced
<1> QED BY <1>1, <1>2, <1>3, <1>4, <1>5, <1>6 DEF Core

\* WorkerCommunicator.put appends a message about the worker's own task,
\* after that task's TaskExecuted.
LEMMA CoreEndPut ==
    ASSUME TypeOK, Core, NEW p \in Pids, EndPut(p),
           NEW m, m = proc[p].out, NEW t, t = proc[p].job,
           NEW n, n = Len(messages) + 1
    PROVE  Core'
<1>1. /\ m \in MessageSet /\ m.task = t /\ t \in Tasks
      /\ m.kind = "executed" => proc[p].at = "begin" /\ m.pid = p
      /\ m.kind # "executed" => proc[p].at = "run"
      /\ proc[p].status = "run"
    BY Shapes, MessageFields DEF EndPut, IsLocked, Core, ProcessConsistent
<1>2. /\ DOMAIN messages' = 1 .. n /\ n \in Nat /\ messages'[n] = m
      /\ \A i \in DOMAIN messages : messages'[i] = messages[i]
      /\ DOMAIN messages = 1 .. n - 1
    BY <1>1 DEF EndPut, TypeOK
<1>3. UNCHANGED <<task, inqueue, escaped>>
    BY DEF EndPut, WorkerVarsUnchanged
<1>4. /\ \A q \in Pids \ {p} : proc'[q] = proc[q]
      /\ proc'[p].out = NoMessage
      /\ \/ /\ proc'[p].status = "zombie" /\ proc'[p].at = "get"
            /\ proc'[p].job = NoTask
         \/ /\ proc'[p].status = "run" /\ proc'[p].job = t
            /\ proc'[p].at = IF m.kind = "finished" THEN "pause" ELSE "run"
  <2>1. CASE proc[p].terminate
    BY <1>1, <2>1 DEF EndPut, Exits, Ended, FreshProc, TypeOK
  <2>2. CASE ~proc[p].terminate
    <3>1. PICK at : /\ at = IF m.kind = "finished" THEN "pause" ELSE "run"
                    /\ proc' = [proc EXCEPT ![p].out = NoMessage, ![p].at = at]
      BY <2>2 DEF EndPut
    <3>2. proc[p] \in ProcRecord /\ proc \in [Pids -> ProcRecord]
      BY DEF TypeOK
    <3>3. /\ proc'[p].out = NoMessage /\ proc'[p].at = at
          /\ proc'[p].status = proc[p].status /\ proc'[p].job = proc[p].job
      BY <3>1, <3>2 DEF ProcRecord
    <3> QED BY <1>1, <3>1, <3>2, <3>3
  <2> QED BY <2>1, <2>2
<1>5. /\ m.kind = "executed" =>
            /\ task[t].state = "QUEUED"
            /\ \A j \in DOMAIN messages : messages[j].task # t
      /\ m.kind # "executed" =>
            \/ task[t].state \in {"EXECUTED", "FINISHED"}
            \/ task[t].state = "QUEUED" /\ Announced(t)
    BY <1>1 DEF Core, RunsAtMostOnce, ProcessConsistent
<1>6. ASSUME NEW u \in Tasks, NEW q \in Pids, OwnsOrLost(q, u)
      PROVE  OwnsOrLost(q, u)'
    BY <1>1, <1>3, <1>4, <1>6 DEF OwnsOrLost
<1>7. SignalsHitOwnTask'
    BY <1>3, <1>6 DEF Core, SignalsHitOwnTask
<1>8. RunsAtMostOnce'
    BY <1>3, <1>4, Shapes DEF Core, RunsAtMostOnce
<1>9. QueuedIsSilent'
  <2>1. \A i \in DOMAIN inqueue : inqueue[i] # t
    BY DEF Core, RunsAtMostOnce
  <2> QED BY <1>1, <1>2, <1>3, <2>1 DEF Core, QueuedIsSilent
<1>10. \A u \in Tasks : /\ Announced(u) => Announced(u)'
                        /\ m.kind = "executed" => Announced(t)'
    BY <1>1, <1>2 DEF Announced
<1>11. ASSUME NEW q \in Pids
       PROVE  ProcessConsistent(q)'
  <2>1. CASE q = p
    <3>1. proc'[p].at = "run" => \A j \in DOMAIN messages' :
             messages'[j].kind = "finished" => messages'[j].task # t
      BY <1>1, <1>2, <1>4, <1>5 DEF Core, ProcessConsistent
    <3>2. proc'[p].job = t \/ proc'[p].at = "get"
      BY <1>4
    <3> QED BY <1>1, <1>3, <1>4, <1>5, <1>10, <2>1, <3>1, <3>2, Shapes
            DEF Core, ProcessConsistent, Alive
  <2>2. CASE q # p
    <3>1. proc[q].at # "get" => proc[q].job \in Tasks /\ proc[q].job # t
      BY <1>1, <2>2, Shapes DEF Core, ProcessConsistent, RunsAtMostOnce
    <3>2. proc[q].at = "begin" =>
             \A j \in DOMAIN messages' : messages'[j].task # proc[q].job
      BY <1>1, <1>2, <3>1 DEF Core, ProcessConsistent
    <3>5. proc[q].at = "run" => \A j \in DOMAIN messages' :
             messages'[j].kind = "finished" => messages'[j].task # proc[q].job
      BY <1>1, <1>2, <3>1 DEF Core, ProcessConsistent
    <3>3. ProcessConsistent(q)
      BY DEF Core
    <3>4. proc'[q] = proc[q]
      BY <1>4, <2>2
    <3> QED BY <1>3, <1>10, <3>1, <3>2, <3>3, <3>4, <3>5 DEF ProcessConsistent
  <2> QED BY <2>1, <2>2
<1>12. MessagesConsistent'
  <2>1. ASSUME NEW i \in DOMAIN messages', messages'[i].kind = "executed"
        PROVE  /\ task'[messages'[i].task].state = "QUEUED"
               /\ messages'[i].pid \in Pids
               /\ OwnsOrLost(messages[i].pid, messages[i].task)'
               /\ \A j \in DOMAIN messages' :
                     /\ messages'[j].kind = "executed"
                     /\ messages'[j].task = messages'[i].task
                     => i = j
    <3>1. CASE i = n
      <4>1. messages'[i] = m /\ m.pid = p /\ m.task = t
        BY <1>1, <1>2, <2>1, <3>1
      <4>2. OwnsOrLost(p, t)'
        BY <1>4 DEF OwnsOrLost
      <4>3. \A j \in DOMAIN messages' : messages'[j].task = t => j = n
        BY <1>2, <1>5, <2>1, <4>1
      <4> QED BY <1>3, <1>5, <2>1, <3>1, <4>1, <4>2, <4>3
    <3>2. CASE i # n
      <4>1. i \in DOMAIN messages /\ messages'[i] = messages[i]
        BY <1>2, <3>2
      <4>2. messages[i].task \in Tasks
        BY <4>1, Shapes
      <4>3. /\ task[messages[i].task].state = "QUEUED"
            /\ messages[i].pid \in Pids
            /\ OwnsOrLost(messages[i].pid, messages[i].task)
            /\ \A j \in DOMAIN messages :
                  /\ messages[j].kind = "executed"
                  /\ messages[j].task = messages[i].task
                  => i = j
        BY <2>1, <4>1 DEF Core, MessagesConsistent
      <4>4. m.kind = "executed" => messages[i].task # t
        BY <1>5, <4>1
      <4> QED BY <1>1, <1>2, <1>3, <1>6, <4>1, <4>2, <4>3, <4>4
    <3> QED BY <3>1, <3>2
  <2>2. ASSUME NEW i \in DOMAIN messages', messages'[i].kind # "executed"
        PROVE  \/ task'[messages'[i].task].state \in {"EXECUTED", "FINISHED"}
               \/ \E j \in DOMAIN messages' :
                     /\ j < i
                     /\ messages'[j].kind = "executed"
                     /\ messages'[j].task = messages'[i].task
    <3>1. CASE i = n
      BY <1>1, <1>2, <1>3, <1>5, <2>2, <3>1 DEF Announced
    <3>2. CASE i # n
      BY <1>2, <1>3, <2>2, <3>2 DEF Core, MessagesConsistent
    <3> QED BY <3>1, <3>2
  <2> QED BY <2>1, <2>2 DEF MessagesConsistent
<1>13. EscapedIsLost'
  <2>1. ASSUME NEW u \in escaped
        PROVE  u \in Tasks /\ u # t
    BY Shapes DEF Core, EscapedIsLost
  <2> QED BY <1>1, <1>2, <1>3, <1>4, <1>10, <2>1, Shapes DEF Core, EscapedIsLost
<1> QED BY <1>7, <1>8, <1>9, <1>11, <1>12, <1>13 DEF Core

\* What the worker process is like once it has left its task.
LEMMA LeftTask ==
    ASSUME TypeOK, NEW p \in Pids, proc[p].status = "run", LeavesTask(p)
    PROVE  /\ proc'[p].at = "get" /\ proc'[p].job = NoTask
           /\ proc'[p].status \in {"run", "zombie"} /\ proc'[p].out = NoMessage
           /\ \A q \in Pids \ {p} : proc'[q] = proc[q]
<1>1. CASE Exits(p)
    BY <1>1 DEF Exits, Ended, FreshProc, TypeOK
<1>2. CASE ~Exits(p)
  <2>1. proc' = [proc EXCEPT ![p].at = "get", ![p].job = NoTask,
                             ![p].out = NoMessage, ![p].done = @ + 1]
    BY <1>2 DEF LeavesTask
  <2>2. proc \in [Pids -> ProcRecord]
    BY DEF TypeOK
  <2> QED BY <2>1, <2>2 DEF ProcRecord
<1> QED BY <1>1, <1>2

\* A worker returns from its task only when the scheduler has finished it.
LEMMA CoreReturn ==
    ASSUME TypeOK, Core, NEW p \in Pids, ReturnFromTask(p)
    PROVE  Core'
<1>1. /\ UNCHANGED <<task, inqueue, messages, escaped>>
      /\ proc[p].at = "resume" /\ proc[p].status = "run"
      /\ proc[p].out = NoMessage
    BY DEF ReturnFromTask, Running, IsLocked, WorkerVarsUnchanged
<1>2. /\ proc'[p].at = "get" /\ proc'[p].job = NoTask
      /\ proc'[p].status \in {"run", "zombie"} /\ proc'[p].out = NoMessage
      /\ \A q \in Pids \ {p} : proc'[q] = proc[q]
    BY <1>1, LeftTask DEF ReturnFromTask
<1>3. proc[p].job \in Tasks /\ task[proc[p].job].state = "FINISHED"
    BY <1>1, Shapes DEF Core, ProcessConsistent
<1>4. ASSUME NEW q \in Pids, NEW t \in Tasks, OwnsOrLost(q, t),
             task[t].state # "FINISHED"
      PROVE  OwnsOrLost(q, t)'
    BY <1>1, <1>2, <1>3, <1>4 DEF OwnsOrLost
<1>5. SignalsHitOwnTask'
    BY <1>1, <1>4 DEF Core, SignalsHitOwnTask
<1>6. RunsAtMostOnce'
    BY <1>1, <1>2, Shapes DEF Core, RunsAtMostOnce
<1>7. QueuedIsSilent'
    BY <1>1 DEF Core, QueuedIsSilent
<1>8. ASSUME NEW q \in Pids
      PROVE  ProcessConsistent(q)'
    BY <1>1, <1>2 DEF Core, ProcessConsistent, Announced, Alive
<1>9. MessagesConsistent'
    BY <1>1, <1>4, Shapes DEF Core, MessagesConsistent
<1>10. EscapedIsLost'
    BY <1>1, <1>2, Shapes DEF Core, EscapedIsLost, Announced
<1> QED BY <1>5, <1>6, <1>7, <1>8, <1>9, <1>10 DEF Core

\* A worker taken out of its task by an exception leaves the task to nobody.
LEMMA CoreEscape ==
    ASSUME TypeOK, Core, NEW p \in Pids, EscapeTask(p), NEW t, t = proc[p].job
    PROVE  Core'
<1>1. /\ UNCHANGED <<task, inqueue, messages>>
      /\ escaped' = escaped \cup {t}
      /\ proc[p].at = "run" /\ proc[p].status = "run"
    BY DEF EscapeTask
<1>2. /\ proc'[p].at = "get" /\ proc'[p].job = NoTask
      /\ proc'[p].status \in {"run", "zombie"} /\ proc'[p].out = NoMessage
      /\ \A q \in Pids \ {p} : proc'[q] = proc[q]
    BY <1>1, LeftTask DEF EscapeTask
<1>3. /\ t \in Tasks
      /\ \/ task[t].state \in {"EXECUTED", "FINISHED"}
         \/ task[t].state = "QUEUED" /\ Announced(t)
      /\ \A j \in DOMAIN messages :
            messages[j].kind = "finished" => messages[j].task # t
    BY <1>1, Shapes DEF Core, ProcessConsistent
<1>4. ASSUME NEW q \in Pids, NEW u \in Tasks, OwnsOrLost(q, u)
      PROVE  OwnsOrLost(q, u)'
    BY <1>1, <1>2, <1>4 DEF OwnsOrLost
<1>5. SignalsHitOwnTask'
    BY <1>1, <1>4 DEF Core, SignalsHitOwnTask
<1>6. RunsAtMostOnce'
    BY <1>1, <1>2, Shapes DEF Core, RunsAtMostOnce
<1>7. QueuedIsSilent'
    BY <1>1 DEF Core, QueuedIsSilent
<1>8. ASSUME NEW q \in Pids
      PROVE  ProcessConsistent(q)'
    BY <1>1, <1>2 DEF Core, ProcessConsistent, Announced, Alive
<1>9. MessagesConsistent'
    BY <1>1, <1>4, Shapes DEF Core, MessagesConsistent
<1>10. EscapedIsLost'
  <2>1. \A q \in Pids : proc'[q].job # t
    BY <1>1, <1>2, <1>3, Shapes DEF Core, RunsAtMostOnce
  <2>2. \A i \in DOMAIN inqueue : inqueue[i] # t
    BY <1>1 DEF Core, RunsAtMostOnce
  <2>3. \A u \in escaped : \A q \in Pids : proc'[q].job # u
    BY <1>2, Shapes DEF Core, EscapedIsLost
  <2> QED BY <1>1, <1>3, <2>1, <2>2, <2>3 DEF Core, EscapedIsLost, Announced
<1> QED BY <1>5, <1>6, <1>7, <1>8, <1>9, <1>10 DEF Core

\* Every step of a worker process preserves the core of the invariant.
LEMMA CoreProc ==
    ASSUME TypeOK, Core, NEW p \in Pids, ProcStep(p)
    PROVE  Core'
<1>1. proc \in [Pids -> ProcRecord] /\ proc[p] \in ProcRecord
    BY DEF TypeOK
<1>2. CASE TakeTask(p)
    BY <1>2, CoreTakeTask
<1>3. ASSUME NEW m \in MessageSet, BeginPut(p, m), Running(p, proc[p].at),
             m.task = proc[p].job,
             m.kind = "executed" => proc[p].at = "begin" /\ m.pid = p,
             m.kind # "executed" => proc[p].at = "run"
      PROVE  Core'
  <2>1. /\ proc'[p].out = m
        /\ proc'[p].at = proc[p].at /\ proc'[p].status = proc[p].status
        /\ proc'[p].job = proc[p].job
        /\ \A q \in Pids \ {p} : proc'[q] = proc[q]
    BY <1>1, <1>3 DEF BeginPut, ProcRecord
  <2>2. UNCHANGED <<task, inqueue, messages, escaped>> /\ proc[p].status = "run"
    BY <1>3 DEF BeginPut, WorkerVarsUnchanged, Running
  <2> QED BY <1>3, <2>1, <2>2, CoreStay
<1>4. proc[p].at # "get" => proc[p].job \in Tasks
    BY Shapes DEF Core, ProcessConsistent
<1>5. CASE PutExecuted(p)
  <2> DEFINE m == Message("executed", proc[p].job, p, "none")
  <2>1. /\ m \in MessageSet /\ m.task = proc[p].job /\ m.kind = "executed"
        /\ m.pid = p
    BY <1>4, <1>5 DEF PutExecuted, Running, MessageSet, Message
  <2>2. BeginPut(p, m) /\ proc[p].at = "begin" /\ Running(p, proc[p].at)
    BY <1>5 DEF PutExecuted, Running
  <2> HIDE DEF m
  <2> QED BY <1>3, <2>1, <2>2
<1>6. CASE PutReport(p)
  <2> DEFINE m == Message("report", proc[p].job, NoPid, "none")
  <2>1. m \in MessageSet /\ m.task = proc[p].job /\ m.kind = "report"
    BY <1>4, <1>6 DEF PutReport, Running, MessageSet, Message
  <2>2. BeginPut(p, m) /\ proc[p].at = "run" /\ Running(p, proc[p].at)
    BY <1>6 DEF PutReport, Running
  <2> HIDE DEF m
  <2> QED BY <1>3, <2>1, <2>2
<1>7. ASSUME NEW type \in CompletionTypes, PutFinished(p, type)
      PROVE  Core'
  <2> DEFINE m == Message("finished", proc[p].job, NoPid, type)
  <2>1. m \in MessageSet /\ m.task = proc[p].job /\ m.kind = "finished"
    BY <1>4, <1>7 DEF PutFinished, Running, MessageSet, Message
  <2>2. BeginPut(p, m) /\ proc[p].at = "run" /\ Running(p, proc[p].at)
    BY <1>7 DEF PutFinished, Running
  <2> HIDE DEF m
  <2> QED BY <1>3, <2>1, <2>2
<1>8. CASE EndPut(p)
    BY <1>8, CoreEndPut
<1>9. CASE PauseWorker(p)
  <2>1. /\ proc'[p].out = NoMessage /\ proc'[p].job = proc[p].job
        /\ proc'[p].at = "resume" /\ proc'[p].status = "stopped"
        /\ proc[p].at = "pause" /\ proc[p].status = "run"
        /\ \A q \in Pids \ {p} : proc'[q] = proc[q]
    BY <1>1, <1>9 DEF PauseWorker, Running, IsLocked, ProcRecord
  <2>2. UNCHANGED <<task, inqueue, messages, escaped>>
    BY <1>9 DEF PauseWorker, WorkerVarsUnchanged
  <2> QED BY <2>1, <2>2, CoreStay
<1>10. CASE ReturnFromTask(p)
    BY <1>10, CoreReturn
<1>11. CASE HandleSigterm(p)
  <2>1. CASE IsLocked(p)
    <3>1. /\ proc'[p].out = proc[p].out /\ proc'[p].job = proc[p].job
          /\ proc'[p].at = proc[p].at /\ proc'[p].status = proc[p].status
          /\ \A q \in Pids \ {p} : proc'[q] = proc[q]
      BY <1>1, <1>11, <2>1 DEF HandleSigterm, ProcRecord
    <3>2. UNCHANGED <<task, inqueue, messages, escaped>> /\ proc[p].status = "run"
      BY <1>11 DEF HandleSigterm, WorkerVarsUnchanged
    <3> QED BY <3>1, <3>2, CoreStay
  <2>2. CASE ~IsLocked(p)
    BY <1>11, <2>2, CoreDeath DEF HandleSigterm, Exits, WorkerVarsUnchanged
  <2> QED BY <2>1, <2>2
<1>12. CASE Crash(p)
    BY <1>12, CoreDeath DEF Crash, Exits
<1>13. CASE Reap(p)
    BY <1>13, CoreDeath DEF Reap, WorkerVarsUnchanged
<1>14. CASE EscapeTask(p)
    BY <1>14, CoreEscape
<1> QED BY <1>2, <1>5, <1>6, <1>7, <1>8, <1>9, <1>10, <1>11, <1>12, <1>13, <1>14
        DEF ProcStep, WorkerStep, CommandStep

-----------------------------------------------------------------------------
(* The steps of a pass.                                                    *)

\* The scheduler takes the first message off the queue; if it is a TaskExecuted
\* its task leaves QUEUED, and no task gets any other state than FINISHED.
LEMMA CoreReceive ==
    ASSUME TypeOK, TypeOK', Core, messages # <<>>, messages' = Tail(messages),
           UNCHANGED <<inqueue, escaped>>, NEW m, m = Head(messages),
           \A t \in Tasks \ {m.task} : task'[t] = task[t],
           task'[m.task].state \in
              IF m.kind = "executed" THEN {"EXECUTED"}
                                     ELSE {task[m.task].state, "FINISHED"},
           task'[m.task].pid =
              IF m.kind = "executed" THEN m.pid ELSE task[m.task].pid,
           m.kind # "executed" /\ task'[m.task].state # task[m.task].state =>
              m.kind = "finished" /\ task[m.task].state = "EXECUTED",
           \A p \in Pids :
              /\ proc'[p].at = proc[p].at
              /\ proc'[p].job = proc[p].job
              /\ proc'[p].out = proc[p].out
              /\ \/ proc'[p].status = proc[p].status
                 \/ /\ proc[p].status = "stopped" /\ proc'[p].status = "run"
                    /\ proc[p].job = m.task
                    /\ task'[m.task].state = "FINISHED"
    PROVE  Core'
<1>1. /\ m = messages[1] /\ m \in MessageSet /\ m.task \in Tasks
      /\ 1 \in DOMAIN messages
      /\ DOMAIN messages' = 1 .. Len(messages) - 1
      /\ \A i \in DOMAIN messages' : /\ messages'[i] = messages[i + 1]
                                     /\ i + 1 \in DOMAIN messages
    BY Shapes DEF TypeOK
<1>2. /\ m.kind = "executed" => /\ task[m.task].state = "QUEUED"
                                /\ m.pid \in Pids
                                /\ OwnsOrLost(m.pid, m.task)
                                /\ \A j \in DOMAIN messages :
                                      /\ messages[j].kind = "executed"
                                      /\ messages[j].task = m.task
                                      => j = 1
      /\ m.kind # "executed" =>
            task[m.task].state \in {"EXECUTED", "FINISHED"}
    BY <1>1, Shapes DEF Core, MessagesConsistent
<1>3. ASSUME NEW q \in Pids, NEW t \in Tasks, OwnsOrLost(q, t)
      PROVE  OwnsOrLost(q, t)'
    BY <1>3 DEF OwnsOrLost
<1>4. \A t \in Tasks : task'[t].state = "QUEUED" <=>
                          /\ task[t].state = "QUEUED"
                          /\ ~(m.kind = "executed" /\ t = m.task)
    BY <1>1, <1>2, Shapes DEF States
<1>5. SignalsHitOwnTask'
  <2>1. ASSUME NEW t \in Tasks, task'[t].state = "EXECUTED"
        PROVE  task'[t].pid \in Pids /\ OwnsOrLost(task[t].pid, t)'
    <3>1. CASE t = m.task /\ m.kind = "executed"
      <4>1. task'[t].pid = m.pid
        BY <3>1
      <4>2. OwnsOrLost(m.pid, t)'
        BY <1>2, <1>3, <2>1, <3>1
      <4> QED BY <1>2, <3>1, <4>1, <4>2 DEF OwnsOrLost
    <3>2. CASE ~(t = m.task /\ m.kind = "executed")
      <4>1. task[t].state = "EXECUTED" /\ task'[t].pid = task[t].pid
        BY <2>1, <3>2
      <4>2. task[t].pid \in Pids /\ OwnsOrLost(task[t].pid, t)
        BY <4>1 DEF Core, SignalsHitOwnTask
      <4> QED BY <1>3, <4>1, <4>2 DEF OwnsOrLost
    <3> QED BY <3>1, <3>2
  <2> QED BY <2>1 DEF SignalsHitOwnTask
<1>6. RunsAtMostOnce'
  <2>1. \A i \in DOMAIN inqueue : inqueue[i] # m.task
    BY <1>1 DEF Core, QueuedIsSilent
  <2>2. \A p \in Pids : proc[p].at = "begin" => proc[p].job # m.task
    BY <1>1 DEF Core, ProcessConsistent
  <2> QED BY <1>4, <2>1, <2>2, Shapes DEF Core, RunsAtMostOnce, ProcessConsistent
<1>7. QueuedIsSilent'
    BY <1>1 DEF Core, QueuedIsSilent
<1>11. \A t \in Tasks : Announced(t) /\ ~(m.kind = "executed" /\ t = m.task)
                            => Announced(t)'
  <2>1. ASSUME NEW t \in Tasks, NEW i \in DOMAIN messages,
               messages[i].kind = "executed", messages[i].task = t,
               ~(m.kind = "executed" /\ t = m.task)
        PROVE  Announced(t)'
    <3>1. i # 1
      BY <1>1, <2>1
    <3>2. i - 1 \in DOMAIN messages' /\ messages'[i - 1] = messages[i]
      BY <1>1, <3>1, Shapes
    <3> QED BY <2>1, <3>2 DEF Announced
  <2> QED BY <2>1 DEF Announced
<1>8. ASSUME NEW p \in Pids
      PROVE  ProcessConsistent(p)'
  <2>1. proc[p].at = "begin" =>
           \A j \in DOMAIN messages' : messages'[j].task # proc[p].job
    BY <1>1 DEF Core, ProcessConsistent
  <2>3. proc[p].at \in {"run", "pause", "resume"} =>
           \/ task'[proc[p].job].state \in {"EXECUTED", "FINISHED"}
           \/ task'[proc[p].job].state = "QUEUED" /\ Announced(proc[p].job)'
    <3> SUFFICES ASSUME proc[p].at \in {"run", "pause", "resume"}
                 PROVE  \/ task'[proc[p].job].state \in {"EXECUTED", "FINISHED"}
                        \/ /\ task'[proc[p].job].state = "QUEUED"
                           /\ Announced(proc[p].job)'
      OBVIOUS
    <3>1. PICK t \in Tasks : t = proc[p].job
      BY Shapes DEF Core, ProcessConsistent
    <3>2. \/ task[t].state \in {"EXECUTED", "FINISHED"}
          \/ task[t].state = "QUEUED" /\ Announced(t)
      BY <3>1 DEF Core, ProcessConsistent
    <3>3. \/ task'[t].state \in {"EXECUTED", "FINISHED"}
          \/ task'[t].state = "QUEUED" /\ Announced(t)'
      BY <1>1, <1>2, <1>11, <3>2
    <3>4. proc'[p].job = t
      BY <3>1
    <3> QED BY <3>1, <3>3, <3>4 DEF Announced
  <2>4. proc'[p].at = "resume" /\ proc'[p].status = "run" =>
           task'[proc'[p].job].state = "FINISHED"
    <3>1. proc[p].at = "resume" => proc[p].job \in Tasks
      BY Shapes DEF Core, ProcessConsistent
    <3> QED BY <1>1, <1>2, <3>1 DEF Core, ProcessConsistent
  <2>5. proc[p].at = "run" => \A j \in DOMAIN messages' :
           messages'[j].kind = "finished" => messages'[j].task # proc[p].job
    BY <1>1 DEF Core, ProcessConsistent
  <2> QED BY <2>1, <2>3, <2>4, <2>5 DEF Core, ProcessConsistent, Alive
<1>9. MessagesConsistent'
  <2>1. ASSUME NEW i \in DOMAIN messages', messages'[i].kind = "executed"
        PROVE  /\ task'[messages'[i].task].state = "QUEUED"
               /\ messages'[i].pid \in Pids
               /\ OwnsOrLost(messages[i].pid, messages[i].task)'
               /\ \A j \in DOMAIN messages' :
                     /\ messages'[j].kind = "executed"
                     /\ messages'[j].task = messages'[i].task
                     => i = j
    <3>1. PICK k : k = i + 1 /\ k \in DOMAIN messages /\ messages'[i] = messages[k]
      BY <1>1
    <3>2. /\ task[messages[k].task].state = "QUEUED"
          /\ messages[k].pid \in Pids /\ messages[k].task \in Tasks
          /\ OwnsOrLost(messages[k].pid, messages[k].task)
          /\ \A j \in DOMAIN messages :
                /\ messages[j].kind = "executed"
                /\ messages[j].task = messages[k].task
                => k = j
      BY <2>1, <3>1, Shapes DEF Core, MessagesConsistent
    <3>3. PICK q \in Pids, t \in Tasks :
             q = messages[k].pid /\ t = messages[k].task
      BY <3>2
    <3>4. OwnsOrLost(q, t)'
      BY <1>3, <3>2, <3>3
    <3>5. messages'[i].pid = q /\ messages'[i].task = t
      BY <3>1, <3>3
    <3>6. OwnsOrLost(messages[i].pid, messages[i].task)'
      BY <3>4, <3>5 DEF OwnsOrLost
    <3>7. ~(m.kind = "executed" /\ t = m.task)
      BY <1>1, <1>2, <2>1, <3>1, <3>3, Shapes
    <3>8. \A j \in DOMAIN messages' :
             /\ messages'[j].kind = "executed"
             /\ messages'[j].task = messages'[i].task
             => i = j
      BY <1>1, <3>1, <3>2, Shapes
    <3> QED BY <1>4, <3>2, <3>3, <3>5, <3>6, <3>7, <3>8
  <2>2. ASSUME NEW i \in DOMAIN messages', messages'[i].kind # "executed"
        PROVE  \/ task'[messages'[i].task].state \in {"EXECUTED", "FINISHED"}
               \/ \E j \in DOMAIN messages' :
                     /\ j < i
                     /\ messages'[j].kind = "executed"
                     /\ messages'[j].task = messages'[i].task
    <3>1. PICK k : k = i + 1 /\ k \in DOMAIN messages /\ messages'[i] = messages[k]
      BY <1>1
    <3>2. CASE task[messages[k].task].state \in {"EXECUTED", "FINISHED"}
      BY <1>1, <1>2, <3>1, <3>2, Shapes
    <3>3. CASE \E j \in DOMAIN messages :
                  /\ j < k
                  /\ messages[j].kind = "executed"
                  /\ messages[j].task = messages[k].task
      <4>1. PICK j \in DOMAIN messages : /\ j < k
                                         /\ messages[j].kind = "executed"
                                         /\ messages[j].task = messages[k].task
        BY <3>3
      <4>2. CASE j = 1
        BY <1>1, <3>1, <4>1, <4>2
      <4>3. CASE j # 1
        <5>1. /\ j - 1 \in DOMAIN messages' /\ messages'[j - 1] = messages[j]
              /\ j - 1 < i
          BY <1>1, <3>1, <4>1, <4>3, Shapes
        <5> QED BY <3>1, <4>1, <5>1
      <4> QED BY <4>2, <4>3
    <3> QED BY <2>2, <3>1, <3>2, <3>3 DEF Core, MessagesConsistent
  <2> QED BY <2>1, <2>2 DEF MessagesConsistent
<1>10. EscapedIsLost'
  <2> SUFFICES ASSUME NEW t \in escaped
               PROVE  /\ \/ task'[t].state \in {"EXECUTED", "FINISHED"}
                         \/ task'[t].state = "QUEUED" /\ Announced(t)'
                      /\ \A p \in Pids : proc'[p].job # t
                      /\ \A i \in DOMAIN inqueue' : inqueue'[i] # t
                      /\ \A i \in DOMAIN messages' :
                            messages'[i].kind = "finished" => messages'[i].task # t
    BY DEF EscapedIsLost
  <2>1. /\ t \in Tasks
        /\ \/ task[t].state \in {"EXECUTED", "FINISHED"}
           \/ task[t].state = "QUEUED" /\ Announced(t)
        /\ \A p \in Pids : proc[p].job # t
        /\ \A i \in DOMAIN inqueue : inqueue[i] # t
        /\ \A i \in DOMAIN messages :
              messages[i].kind = "finished" => messages[i].task # t
    BY Shapes DEF Core, EscapedIsLost
  <2>2. \/ task'[t].state \in {"EXECUTED", "FINISHED"}
        \/ task'[t].state = "QUEUED" /\ Announced(t)'
    BY <1>1, <1>2, <1>11, <2>1
  <2> QED BY <1>1, <2>1, <2>2
<1> QED BY <1>5, <1>6, <1>7, <1>8, <1>9, <1>10 DEF Core

\* Facts about the message a receiving step looks at.
LEMMA HeadFacts ==
    ASSUME TypeOK, Core, UnfinishedStaysRegistered, ReceiveBounded,
           ReceiveMessage, NEW m, m = Head(messages)
    PROVE  /\ messages # <<>>
           /\ m \in MessageSet /\ m.task \in Tasks
           /\ m.kind = "executed" => /\ task[m.task].state = "QUEUED"
                                     /\ IsRegistered(m.task)
           /\ m.kind # "executed" =>
                 task[m.task].state \in {"EXECUTED", "FINISHED"}
           /\ m.kind = "finished" => m.task \notin escaped
<1>1. messages # <<>>
    BY DEF ReceiveMessage, ReceiveBounded, TypeOK
<1>2. 1 \in DOMAIN messages /\ m = messages[1]
    BY <1>1 DEF TypeOK
<1>3. m \in MessageSet /\ m.task \in Tasks
    BY <1>2, Shapes
<1>4. /\ m.kind = "executed" => task[m.task].state = "QUEUED"
      /\ m.kind # "executed" =>
            task[m.task].state \in {"EXECUTED", "FINISHED"}
    BY <1>2, Shapes DEF Core, MessagesConsistent
<1>5. m.kind = "finished" => m.task \notin escaped
    BY <1>2 DEF Core, EscapedIsLost
<1> QED BY <1>1, <1>3, <1>4, <1>5 DEF UnfinishedStaysRegistered

\* A SIGCONT after TaskFinished wakes the worker of that task or nobody.
LEMMA SigcontWakesOwner ==
    ASSUME TypeOK, Core, NEW t \in Tasks \ escaped, task[t].state = "EXECUTED",
           proc' = Sigcont(task[t].pid), NEW p \in Pids
    PROVE  /\ proc'[p].at = proc[p].at
           /\ proc'[p].job = proc[p].job
           /\ proc'[p].out = proc[p].out
           /\ \/ proc'[p].status = proc[p].status
              \/ /\ proc[p].status = "stopped" /\ proc'[p].status = "run"
                 /\ proc[p].job = t
<1>1. task[t].pid \in Pids /\ OwnsOrLost(task[t].pid, t)
    BY DEF Core, SignalsHitOwnTask
<1>2. Targets(task[t].pid) = {task[t].pid}
    BY <1>1, TaskAssumption DEF Targets, TaskAssumption
<1>3. proc[p] \in ProcRecord
    BY DEF TypeOK
<1>4. proc'[p] = IF p = task[t].pid /\ proc[p].status = "stopped"
                 THEN [proc[p] EXCEPT !.status = "run"] ELSE proc[p]
    BY <1>2 DEF Sigcont
<1>5. CASE p = task[t].pid /\ proc[p].status = "stopped"
    BY <1>1, <1>3, <1>4, <1>5 DEF OwnsOrLost, ProcRecord
<1>6. CASE ~(p = task[t].pid /\ proc[p].status = "stopped")
    BY <1>4, <1>6
<1> QED BY <1>5, <1>6

\* A SIGTERM only marks processes.
LEMMA SigtermMarks ==
    ASSUME TypeOK, NEW pid, proc' = Sigterm(pid), NEW p \in Pids
    PROVE  /\ proc'[p].at = proc[p].at
           /\ proc'[p].job = proc[p].job
           /\ proc'[p].out = proc[p].out
           /\ proc'[p].status = proc[p].status
<1>1. proc[p] \in ProcRecord
    BY DEF TypeOK
<1>2. proc'[p] = proc[p] \/ proc'[p] = [proc[p] EXCEPT !.sigterm = TRUE]
    BY DEF Sigterm
<1> QED BY <1>1, <1>2 DEF ProcRecord

\* Every branch of _receive_messages preserves the core of the invariant.
LEMMA CoreReceiving ==
    ASSUME TypeOK, TypeOK', Core, UnfinishedStaysRegistered, ReceiveBounded,
           ReceiveUnknown \/ ReceiveReport \/ ReceiveExecuted \/ ReceiveFinished
    PROVE  Core'
<1> PICK m : m = Head(messages)
    OBVIOUS
<1>1. ReceiveMessage
    BY DEF ReceiveUnknown, ReceiveReport, ReceiveExecuted, ReceiveFinished
<1>2. /\ messages # <<>> /\ messages' = Tail(messages)
      /\ UNCHANGED <<inqueue, escaped>>
      /\ task \in [Tasks -> TaskRecord] /\ m.task \in Tasks
    BY <1>1, HeadFacts DEF ReceiveMessage, TypeOK
<1>3. CASE ReceiveUnknown
  <2>1. m.kind # "executed" /\ UNCHANGED <<task, proc>>
    BY <1>1, <1>3, HeadFacts DEF ReceiveUnknown
  <2> QED BY <1>2, <2>1, CoreReceive
<1>4. CASE ReceiveReport
  <2>1. /\ \A t \in Tasks \ {m.task} : task'[t] = task[t]
        /\ task'[m.task].state = task[m.task].state
        /\ task'[m.task].pid = task[m.task].pid
    BY <1>2, <1>4 DEF ReceiveReport, TaskRecord
  <2>2. m.kind = "report" /\ UNCHANGED proc
    BY <1>4 DEF ReceiveReport
  <2> QED BY <1>2, <2>1, <2>2, CoreReceive
<1>5. CASE ReceiveExecuted
  <2>1. m.kind = "executed" /\ UNCHANGED proc
    BY <1>5 DEF ReceiveExecuted
  <2>2. CanSetState(task[m.task], "EXECUTED")
    BY <1>1, <2>1, HeadFacts DEF CanSetState, StateIndex, States
  <2>3. /\ \A t \in Tasks \ {m.task} : task'[t] = task[t]
        /\ task'[m.task].state = "EXECUTED"
        /\ task'[m.task].pid = m.pid
    BY <1>2, <1>5, <2>2 DEF ReceiveExecuted, TaskRecord
  <2> QED BY <1>2, <2>1, <2>3, CoreReceive
<1>6. CASE ReceiveFinished
  <2>1. /\ m.kind = "finished"
        /\ task[m.task].state \in {"EXECUTED", "FINISHED"}
        /\ m.task \notin escaped
    BY <1>1, <1>6, HeadFacts DEF ReceiveFinished
  <2>2. CanSetState(task[m.task], "FINISHED") <=> task[m.task].state = "EXECUTED"
    BY <2>1 DEF CanSetState, StateIndex, States
  <2>3. /\ \A t \in Tasks \ {m.task} : task'[t] = task[t]
        /\ task'[m.task].state = "FINISHED"
        /\ task'[m.task].pid = task[m.task].pid
    <3>1. task[m.task] \in TaskRecord
      BY <1>2
    <3>2. CASE ~CanSetState(task[m.task], "FINISHED")
      BY <1>2, <1>6, <2>1, <2>2, <3>1, <3>2 DEF ReceiveFinished, TaskRecord
    <3>3. CASE CanSetState(task[m.task], "FINISHED")
      <4> DEFINE done == [task[m.task] EXCEPT !.result = ResultOf(m.type),
                                              !.state = "FINISHED",
                                              !.finishType = m.type]
      <4>1. /\ done.state = "FINISHED" /\ done.pid = task[m.task].pid
            /\ [done EXCEPT !.lastMessage = 0].state = "FINISHED"
            /\ [done EXCEPT !.lastMessage = 0].pid = task[m.task].pid
        BY <3>1 DEF TaskRecord
      <4>2. \/ task' = [task EXCEPT ![m.task] = done]
            \/ task' = [task EXCEPT ![m.task] = [done EXCEPT !.lastMessage = 0]]
        BY <1>6, <3>3 DEF ReceiveFinished
      <4> HIDE DEF done
      <4> QED BY <1>2, <4>1, <4>2
    <3> QED BY <3>2, <3>3
  <2>4. \/ UNCHANGED proc
        \/ /\ task[m.task].state = "EXECUTED"
           /\ proc' = Sigcont(task[m.task].pid)
    BY <1>6, <2>2 DEF ReceiveFinished
  <2>5. \A p \in Pids :
           /\ proc'[p].at = proc[p].at
           /\ proc'[p].job = proc[p].job
           /\ proc'[p].out = proc[p].out
           /\ \/ proc'[p].status = proc[p].status
              \/ /\ proc[p].status = "stopped" /\ proc'[p].status = "run"
                 /\ proc[p].job = m.task
    BY <1>2, <2>1, <2>4, SigcontWakesOwner
  <2> QED BY <1>2, <2>1, <2>3, <2>5, CoreReceive
<1> QED BY <1>3, <1>4, <1>5, <1>6

\* What one round of _process_task makes of a task.
LEMMA ProcessedTask ==
    ASSUME TypeOK, ProcessTask, NEW t, t = Head(toProcess)
    PROVE  /\ t \in Tasks
           /\ \A u \in Tasks \ {t} : task'[u] = task[u]
           /\ task'[t].pid = task[t].pid
           /\ \/ /\ task[t].state = "CREATED" /\ task'[t].state = "QUEUED"
                 /\ inqueue' = Append(inqueue, t)
                 /\ task'[t].toDelete = task[t].toDelete
                 /\ UNCHANGED proc
              \/ /\ task'[t].state = task[t].state
                 /\ UNCHANGED inqueue
                 /\ task[t].state # "FINISHED" =>
                       task'[t].toDelete = task[t].toDelete
                 /\ UNCHANGED proc
              \/ /\ task[t].state \in {"CREATED", "EXECUTED"}
                 /\ task'[t].state = "FINISHED"
                 /\ task'[t].toDelete = task[t].toDelete
                 /\ UNCHANGED inqueue
                 /\ proc' = Sigterm(task[t].pid) \/ UNCHANGED proc
           /\ task[t].state = "FINISHED" =>
                 task'[t].finishType = task[t].finishType
           /\ register' = IF task'[t].toDelete = 0 THEN Without(register, t)
                                                   ELSE register
<1> DEFINE r == task[t]
           v == Reviewed(r)
           final == IF CanKill(v) THEN Killed(v) ELSE v
<1>1. t \in Tasks /\ r \in TaskRecord
    BY DEF ProcessTask, TypeOK
<1>2. /\ task' = [task EXCEPT ![t] = final]
      /\ inqueue' = IF r.state = "CREATED" /\ ~IsKillRequested(r)
                    THEN Append(inqueue, t) ELSE inqueue
      /\ proc' = IF CanKill(v) /\ v.state = "EXECUTED"
                 THEN Sigterm(v.pid) ELSE proc
      /\ register' = IF IsDeletionRequested(final)
                     THEN Without(register, t) ELSE register
    BY DEF ProcessTask
<1>3. /\ \A u \in Tasks \ {t} : task'[u] = task[u]
      /\ task'[t] = final
    BY <1>1, <1>2 DEF TypeOK
<1>4. /\ v.pid = r.pid
      /\ \/ /\ r.state = "CREATED" /\ v.state = "QUEUED" /\ ~IsKillRequested(r)
            /\ v.toDelete = r.toDelete
         \/ /\ v.state = r.state
            /\ ~(r.state = "CREATED" /\ ~IsKillRequested(r))
            /\ r.state # "FINISHED" => v.toDelete = r.toDelete
      /\ v.finishType = r.finishType
  <2>1. CASE r.state = "CREATED"
    <3>1. v = IF IsKillRequested(r) THEN r ELSE [r EXCEPT !.state = "QUEUED"]
      BY <2>1 DEF Reviewed, IsDefunct
    <3>2. /\ [r EXCEPT !.state = "QUEUED"].state = "QUEUED"
          /\ [r EXCEPT !.state = "QUEUED"].pid = r.pid
          /\ [r EXCEPT !.state = "QUEUED"].toDelete = r.toDelete
          /\ [r EXCEPT !.state = "QUEUED"].finishType = r.finishType
      BY <1>1 DEF TaskRecord
    <3> HIDE DEF v
    <3> QED BY <2>1, <3>1, <3>2
  <2>2. CASE r.state # "CREATED" /\ IsDefunct(r, unresponsive_timeout)
    <3>1. v = RequestKill(r, "COMPLETION_TIMEOUT")
      BY <2>2 DEF Reviewed, IsDefunct
    <3>2. /\ RequestKill(r, "COMPLETION_TIMEOUT").state = r.state
          /\ RequestKill(r, "COMPLETION_TIMEOUT").pid = r.pid
          /\ RequestKill(r, "COMPLETION_TIMEOUT").toDelete = r.toDelete
          /\ RequestKill(r, "COMPLETION_TIMEOUT").finishType = r.finishType
      BY <1>1 DEF RequestKill, TaskRecord
    <3> HIDE DEF v
    <3> QED BY <2>2, <3>1, <3>2
  <2>3. CASE r.state = "FINISHED"
    <3>1. /\ DateFinished(r).state = r.state
          /\ DateFinished(r).pid = r.pid
          /\ DateFinished(r).finishType = r.finishType
          /\ DateFinished(r) \in TaskRecord
      BY <1>1, TaskOperatorsType DEF DateFinished, TaskRecord
    <3>2. \A s \in TaskRecord : /\ RequestDeletion(s).state = s.state
                                /\ RequestDeletion(s).pid = s.pid
                                /\ RequestDeletion(s).finishType = s.finishType
      BY DEF RequestDeletion, TaskRecord
    <3>3. v = DateFinished(r) \/ v = RequestDeletion(DateFinished(r))
      BY <2>3 DEF Reviewed, IsDefunct
    <3> QED BY <2>3, <3>1, <3>2, <3>3
  <2>4. CASE /\ r.state \notin {"CREATED", "FINISHED"}
             /\ ~IsDefunct(r, unresponsive_timeout)
    BY <1>1, <2>4 DEF Reviewed
  <2> QED BY <2>1, <2>2, <2>3, <2>4
<1>5. v \in TaskRecord
    BY <1>1, TaskOperatorsType
<1>6. /\ CanKill(v) => v.state \in {"CREATED", "EXECUTED"}
      /\ final.pid = v.pid /\ final.toDelete = v.toDelete
      /\ CanKill(v) => final.state = "FINISHED"
      /\ ~CanKill(v) => final = v
    BY <1>5 DEF CanKill, Killed, TaskRecord
<1> HIDE DEF v, final
<1> QED BY <1>1, <1>2, <1>3, <1>4, <1>6 DEF IsDeletionRequested

\* One round of _process_task preserves the core of the invariant.
LEMMA CoreProcessTask ==
    ASSUME TypeOK, TypeOK', Core, ProcessTask
    PROVE  Core'
<1> PICK t : t = Head(toProcess)
    OBVIOUS
<1>0. UNCHANGED <<messages, escaped>>
    BY DEF ProcessTask
<1>1. CASE task[t].state = "CREATED" /\ task'[t].state = "QUEUED"
  <2>1. /\ t \in Tasks /\ \A u \in Tasks \ {t} : task'[u] = task[u]
        /\ inqueue' = Append(inqueue, t) /\ UNCHANGED proc
        /\ task'[t].pid = task[t].pid
    BY <1>1, ProcessedTask
  <2>2. /\ DOMAIN inqueue' = 1 .. Len(inqueue) + 1
        /\ inqueue'[Len(inqueue) + 1] = t
        /\ \A i \in DOMAIN inqueue : inqueue'[i] = inqueue[i]
    BY <2>1 DEF TypeOK
  <2>3. /\ \A i \in DOMAIN inqueue : inqueue[i] # t
        /\ \A p \in Pids : proc[p].job # t
    <3>1. \A p \in Pids :
             proc[p].at \in {"get", "begin", "run", "pause", "resume"}
      BY DEF TypeOK, ProcRecord
    <3>2. ASSUME NEW p \in Pids, proc[p].job = t
          PROVE  FALSE
      BY <1>1, <2>1, <3>1, <3>2, Shapes DEF Core, RunsAtMostOnce, ProcessConsistent
    <3> QED BY <1>1, <3>2 DEF Core, RunsAtMostOnce
  <2>4. \A j \in DOMAIN messages : messages[j].task # t
    BY <1>1, <2>1 DEF Core, MessagesConsistent
  <2>5. SignalsHitOwnTask'
    BY <1>0, <1>1, <2>1 DEF Core, SignalsHitOwnTask, OwnsOrLost
  <2>6. RunsAtMostOnce'
    BY <1>1, <2>1, <2>2, <2>3, Shapes DEF Core, RunsAtMostOnce, ProcessConsistent
  <2>7. QueuedIsSilent'
    BY <1>0, <2>2, <2>4, Shapes DEF Core, QueuedIsSilent
  <2>8. ASSUME NEW p \in Pids
        PROVE  ProcessConsistent(p)'
    BY <1>0, <2>1, <2>3, Shapes DEF Core, ProcessConsistent, Announced
  <2>9. MessagesConsistent'
    BY <1>0, <2>1, <2>4, Shapes DEF Core, MessagesConsistent, OwnsOrLost
  <2>10. EscapedIsLost'
    <3>1. t \notin escaped
      BY <1>1 DEF Core, EscapedIsLost
    <3> QED BY <1>0, <2>1, <2>2, <3>1, Shapes DEF Core, EscapedIsLost, Announced
  <2> QED BY <2>5, <2>6, <2>7, <2>8, <2>9, <2>10 DEF Core
<1>2. CASE task'[t].state = task[t].state
    BY <1>0, <1>2, ProcessedTask, CoreFrame
<1>3. CASE /\ task[t].state \in {"CREATED", "EXECUTED"}
           /\ task'[t].state = "FINISHED"
  <2>1. /\ t \in Tasks /\ \A u \in Tasks \ {t} : task'[u] = task[u]
        /\ UNCHANGED inqueue
        /\ task'[t].pid = task[t].pid
        /\ proc' = Sigterm(task[t].pid) \/ UNCHANGED proc
    BY <1>3, ProcessedTask
  <2>2. \A p \in Pids : /\ proc'[p].at = proc[p].at
                        /\ proc'[p].job = proc[p].job
                        /\ proc'[p].out = proc[p].out
                        /\ proc'[p].status = proc[p].status
    BY <2>1, SigtermMarks
  <2>3. SignalsHitOwnTask'
    BY <1>0, <1>3, <2>1, <2>2 DEF Core, SignalsHitOwnTask, OwnsOrLost
  <2>4. RunsAtMostOnce'
    BY <1>3, <2>1, <2>2, Shapes DEF Core, RunsAtMostOnce, ProcessConsistent
  <2>5. QueuedIsSilent'
    BY <1>0, <2>1 DEF Core, QueuedIsSilent
  <2>6. ASSUME NEW p \in Pids
        PROVE  ProcessConsistent(p)'
    BY <1>0, <1>3, <2>1, <2>2, Shapes DEF Core, ProcessConsistent, Announced
  <2>7. MessagesConsistent'
    BY <1>0, <1>3, <2>1, <2>2, Shapes DEF Core, MessagesConsistent, OwnsOrLost
  <2>8. EscapedIsLost'
    BY <1>0, <1>3, <2>1, <2>2, Shapes DEF Core, EscapedIsLost, Announced
  <2> QED BY <2>3, <2>4, <2>5, <2>6, <2>7, <2>8 DEF Core
<1> QED BY <1>1, <1>2, <1>3, ProcessedTask

-----------------------------------------------------------------------------
(* The register and the bound of _receive_messages.                        *)

\* A registered task stays registered unless this step deletes it.
LEMMA RegisterKept ==
    ASSUME TypeOK, NEW t \in Tasks, IsRegistered(t),
           \/ UNCHANGED register
           \/ \E u : register' = Append(register, u)
           \/ \E u \in Tasks \ {t} : register' = Without(register, u)
    PROVE  IsRegistered(t)'
<1>1. CASE UNCHANGED register
    BY <1>1 DEF IsRegistered
<1>2. CASE \E u : register' = Append(register, u)
  <2>1. PICK u : register' = Append(register, u)
    BY <1>2
  <2>2. PICK i \in DOMAIN register : register[i] = t
    BY DEF IsRegistered
  <2>3. i \in DOMAIN register' /\ register'[i] = t
    BY <2>1, <2>2 DEF TypeOK
  <2> QED BY <2>3 DEF IsRegistered
<1>3. CASE \E u \in Tasks \ {t} : register' = Without(register, u)
  <2>1. PICK u \in Tasks : u # t /\ register' = Without(register, u)
    BY <1>3
  <2>2. \E i \in DOMAIN Without(register, u) : Without(register, u)[i] = t
    <3>1. register \in Seq(Tasks)
      BY DEF TypeOK
    <3>2. \A w \in Tasks \ {u} : (\E i \in DOMAIN register : register[i] = w) =>
             \E i \in DOMAIN Without(register, u) : Without(register, u)[i] = w
      BY <3>1, WithoutKeeps
    <3> QED BY <2>1, <3>2 DEF IsRegistered
  <2> QED BY <2>1, <2>2 DEF IsRegistered
<1> QED BY <1>1, <1>2, <1>3

\* The API deletes no task from the register and asks for the deletion of
\* finished ones only.
LEMMA RegisterApi ==
    ASSUME TypeOK, UnfinishedStaysRegistered, OnlyFinishedDeleted,
           NEW t \in Tasks, ApiStep(t)
    PROVE  /\ UnfinishedStaysRegistered'
           /\ OnlyFinishedDeleted'
           /\ UNCHANGED <<inqueue, messages, proc, escaped>>
           /\ \A u \in Tasks :
                 \/ task'[u].state = task[u].state /\ task'[u].pid = task[u].pid
                 \/ /\ task[u].state \in {"NEW", "CREATED"}
                    /\ task'[u].state # "EXECUTED"
<1>1. UNCHANGED <<inqueue, messages, proc, escaped>>
    BY DEF ApiStep, NewTask, GetTask, KillTask, WaitForTask, WaitedForTask,
       ApiVarsUnchanged
<1>2. task \in [Tasks -> TaskRecord] /\ task[t] \in TaskRecord
    BY DEF TypeOK
<1>3. CASE NewTask(t)
  <2>1. /\ \A u \in Tasks \ {t} : task'[u] = task[u]
        /\ task[t].state = "NEW" /\ task'[t].state = "CREATED"
        /\ task'[t].toDelete = task[t].toDelete
    BY <1>2, <1>3 DEF NewTask, TaskRecord
  <2>2. register' = Append(register, t)
    BY <1>3 DEF NewTask
  <2>3. IsRegistered(t)'
    <3>1. /\ Len(register) + 1 \in DOMAIN register'
          /\ register'[Len(register) + 1] = t
      BY <2>2 DEF TypeOK
    <3> QED BY <3>1 DEF IsRegistered
  <2>4. UnfinishedStaysRegistered'
    BY <2>1, <2>2, <2>3, RegisterKept DEF UnfinishedStaysRegistered
  <2> QED BY <1>1, <2>1, <2>4 DEF OnlyFinishedDeleted
<1>4. CASE ~NewTask(t)
  <2>1. UNCHANGED register
    BY <1>4 DEF ApiStep, GetTask, KillTask, WaitForTask, WaitedForTask
  <2>2. /\ \A u \in Tasks \ {t} : task'[u] = task[u]
        /\ task'[t].state = task[t].state /\ task'[t].pid = task[t].pid
        /\ task[t].state # "FINISHED" => task'[t].toDelete = task[t].toDelete
    <3>1. CASE GetTask(t)
      BY <1>2, <3>1 DEF GetTask, RequestDeletion, TaskRecord
    <3>2. CASE KillTask(t)
      BY <1>2, <3>2 DEF KillTask, RequestKill, TaskRecord
    <3>3. CASE WaitForTask(t)
      BY <1>2, <3>3 DEF WaitForTask, TaskRecord
    <3>4. CASE WaitedForTask(t)
      <4>1. RequestDeletion(task[t]) \in TaskRecord
        BY <1>2, TaskOperatorsType
      <4>2. /\ RequestDeletion(task[t]).state = task[t].state
            /\ RequestDeletion(task[t]).pid = task[t].pid
        BY <1>2 DEF RequestDeletion, TaskRecord
      <4>3. /\ task' = [task EXCEPT ![t] =
                          [RequestDeletion(task[t]) EXCEPT !.client = "answered"]]
            /\ task[t].state = "FINISHED"
        BY <3>4 DEF WaitedForTask
      <4> QED BY <1>2, <4>1, <4>2, <4>3 DEF TaskRecord
    <3> QED BY <1>4, <3>1, <3>2, <3>3, <3>4 DEF ApiStep
  <2>3. UnfinishedStaysRegistered'
    BY <2>1, <2>2 DEF UnfinishedStaysRegistered, IsRegistered
  <2> QED BY <1>1, <2>2, <2>3 DEF OnlyFinishedDeleted
<1> QED BY <1>3, <1>4

\* Messages move tasks forward and ask for no deletion.
LEMMA RegisterReceiving ==
    ASSUME TypeOK, Core, UnfinishedStaysRegistered, OnlyFinishedDeleted,
           ReceiveBounded,
           ReceiveUnknown \/ ReceiveReport \/ ReceiveExecuted \/ ReceiveFinished
    PROVE  UnfinishedStaysRegistered' /\ OnlyFinishedDeleted' /\ ReceiveBounded'
<1> PICK m : m = Head(messages)
    OBVIOUS
<1>1. ReceiveMessage
    BY DEF ReceiveUnknown, ReceiveReport, ReceiveExecuted, ReceiveFinished
<1>2. /\ task \in [Tasks -> TaskRecord] /\ m.task \in Tasks
      /\ task[m.task] \in TaskRecord
      /\ messages # <<>> /\ messages' = Tail(messages) /\ UNCHANGED register
    BY <1>1, HeadFacts DEF TypeOK, ReceiveMessage
<1>3. /\ \A t \in Tasks \ {m.task} : task'[t] = task[t]
      /\ task'[m.task].toDelete = task[m.task].toDelete
      /\ \/ task'[m.task].state = task[m.task].state
         \/ IsRegistered(m.task) /\ task[m.task].state # "FINISHED"
  <2>1. CASE ReceiveUnknown
    BY <2>1 DEF ReceiveUnknown
  <2>2. CASE ReceiveReport
    BY <1>2, <2>2 DEF ReceiveReport, TaskRecord
  <2>3. CASE ReceiveExecuted
    <3>1. task[m.task].state = "QUEUED" /\ IsRegistered(m.task)
      BY <1>1, <2>3, HeadFacts DEF ReceiveExecuted
    <3> QED BY <1>2, <2>3, <3>1 DEF ReceiveExecuted, TaskRecord
  <2>4. CASE ReceiveFinished
    <3> DEFINE done == [task[m.task] EXCEPT !.result = ResultOf(m.type),
                                            !.state = "FINISHED",
                                            !.finishType = m.type]
    <3>1. /\ done.toDelete = task[m.task].toDelete
          /\ [done EXCEPT !.lastMessage = 0].toDelete = task[m.task].toDelete
      BY <1>2 DEF TaskRecord
    <3>2. IsRegistered(m.task)
      BY <2>4 DEF ReceiveFinished
    <3>3. CASE ~CanSetState(task[m.task], "FINISHED")
      BY <1>2, <2>4, <3>3 DEF ReceiveFinished, TaskRecord
    <3>4. CASE CanSetState(task[m.task], "FINISHED")
      <4>1. \/ task' = [task EXCEPT ![m.task] = done]
            \/ task' = [task EXCEPT ![m.task] = [done EXCEPT !.lastMessage = 0]]
        BY <2>4, <3>4 DEF ReceiveFinished
      <4>2. task[m.task].state # "FINISHED"
        BY <3>4 DEF CanSetState, StateIndex, States
      <4> HIDE DEF done
      <4> QED BY <1>2, <3>1, <3>2, <4>1, <4>2
    <3> QED BY <3>3, <3>4
  <2> QED BY <2>1, <2>2, <2>3, <2>4
<1>4. UnfinishedStaysRegistered'
    BY <1>2, <1>3, Shapes DEF UnfinishedStaysRegistered, IsRegistered, States
<1>5. OnlyFinishedDeleted'
  <2>1. CASE task'[m.task].state = task[m.task].state
    BY <1>3, <2>1 DEF OnlyFinishedDeleted
  <2>2. CASE task[m.task].state # "FINISHED"
    BY <1>2, <1>3, <2>2 DEF OnlyFinishedDeleted
  <2> QED BY <1>3, <2>1, <2>2
<1>6. ReceiveBounded'
  <2>1. Len(messages') = Len(messages) - 1
    BY <1>2 DEF TypeOK
  <2>2. /\ pc = "receive" /\ toReceive > 0
        /\ \/ pc' = "idle" \/ toReceive' = toReceive - 1
    BY <1>1 DEF ReceiveMessage, ReceiveUnknown, ReceiveReport, ReceiveExecuted,
       ReceiveFinished, NextMessage, AbortPass
  <2> QED BY <2>1, <2>2, Shapes DEF ReceiveBounded, TypeOK
<1> QED BY <1>4, <1>5, <1>6

\* _process_task deletes a task from the register only if it is finished.
LEMMA RegisterProcessTask ==
    ASSUME TypeOK, UnfinishedStaysRegistered, OnlyFinishedDeleted, ProcessTask
    PROVE  UnfinishedStaysRegistered' /\ OnlyFinishedDeleted'
<1> PICK t : t = Head(toProcess)
    OBVIOUS
<1>1. /\ t \in Tasks
      /\ \A u \in Tasks \ {t} : task'[u] = task[u]
      /\ task'[t].state # "FINISHED" =>
            /\ task[t].state # "FINISHED"
            /\ task'[t].toDelete = task[t].toDelete
      /\ task[t].state = "FINISHED" => task'[t].state = "FINISHED"
      /\ task[t].state = "NEW" => task'[t].state = "NEW"
      /\ register' = IF task'[t].toDelete = 0 THEN Without(register, t)
                                              ELSE register
    BY ProcessedTask
<1>2. OnlyFinishedDeleted'
    BY <1>1 DEF OnlyFinishedDeleted
<1>3. task'[t].toDelete = 0 => task'[t].state = "FINISHED"
    BY <1>1, <1>2 DEF OnlyFinishedDeleted, Never
<1>4. ASSUME NEW u \in Tasks, IsRegistered(u), task'[u].state # "FINISHED"
      PROVE  IsRegistered(u)'
  <2>1. CASE UNCHANGED register
    BY <1>4, <2>1 DEF IsRegistered
  <2>2. CASE register' = Without(register, t) /\ task'[t].toDelete = 0
    <3>1. t \in Tasks \ {u}
      BY <1>1, <1>3, <1>4, <2>2
    <3> QED BY <1>4, <2>2, <3>1, RegisterKept
  <2> QED BY <1>1, <2>1, <2>2
<1>5. ASSUME NEW u \in Tasks,
             task'[u].state \in {"CREATED", "QUEUED", "EXECUTED"}
      PROVE  IsRegistered(u)'
  <2>1. task[u].state \in {"CREATED", "QUEUED", "EXECUTED"}
    BY <1>1, <1>5, Shapes DEF States
  <2> QED BY <1>4, <1>5, <2>1 DEF UnfinishedStaysRegistered
<1> QED BY <1>2, <1>5 DEF UnfinishedStaysRegistered

-----------------------------------------------------------------------------
(* The invariant is inductive.                                             *)

\* The scheduler starts in a state that satisfies the invariant.
LEMMA InitInvariant == Init => InductiveInvariant
<1> SUFFICES ASSUME Init PROVE InductiveInvariant
    OBVIOUS
<1>1. TypeOK
    BY InitType
<1>2. PICK S \in SUBSET Pids :
         proc = [p \in Pids |-> IF p \in S THEN FreshProc("pool")
                                          ELSE Ended("pool", "gone")]
    BY DEF Init
<1>3. \A p \in Pids : /\ proc[p].at = "get" /\ proc[p].job = NoTask
                      /\ proc[p].out = NoMessage
                      /\ proc[p].status \in {"run", "gone"}
    BY <1>2 DEF FreshProc, Ended
<1>8. EscapedIsLost
    BY DEF Init, EscapedIsLost
<1>4. /\ \A t \in Tasks : task[t].state = "NEW" /\ task[t].toDelete = Never
      /\ DOMAIN inqueue = {} /\ DOMAIN messages = {}
      /\ pc = "idle"
    BY DEF Init, NewTaskRecord
<1>5. \A p \in Pids : ProcessConsistent(p)
    BY <1>3 DEF ProcessConsistent
<1>6. SignalsHitOwnTask /\ UnfinishedStaysRegistered /\ OnlyFinishedDeleted
    BY <1>4 DEF SignalsHitOwnTask, UnfinishedStaysRegistered, OnlyFinishedDeleted
<1>7. RunsAtMostOnce /\ QueuedIsSilent /\ MessagesConsistent
    BY <1>3, <1>4 DEF RunsAtMostOnce, QueuedIsSilent, MessagesConsistent
<1> QED BY <1>1, <1>4, <1>5, <1>6, <1>7, <1>8
        DEF InductiveInvariant, ReceiveBounded

\* One step of the system preserves the invariant.
LEMMA StepInvariant == InductiveInvariant /\ [Next]_vars => InductiveInvariant'
<1> SUFFICES ASSUME InductiveInvariant, [Next]_vars
             PROVE  InductiveInvariant'
    OBVIOUS
<1>1. /\ TypeOK /\ Core /\ UnfinishedStaysRegistered /\ OnlyFinishedDeleted
      /\ ReceiveBounded
    BY DEF InductiveInvariant, Core
<1> DEFINE Rest == UnfinishedStaysRegistered /\ OnlyFinishedDeleted
<1>2. TypeOK'
  <2>1. CASE UNCHANGED vars
    BY <1>1, <2>1 DEF vars, TypeOK
  <2>2. ASSUME NEW p \in Pids, ProcStep(p) PROVE TypeOK'
    BY <1>1, <2>2, ProcType DEF Core
  <2> QED BY <1>1, <2>1, <2>2, ApiType, PassType, RespawnType, TickType DEF Next
\* Steps that leave the tasks alone leave the register's conjuncts alone.
<1>3. ASSUME UNCHANGED <<task, register>> PROVE Rest'
    BY <1>1, <1>3 DEF UnfinishedStaysRegistered, OnlyFinishedDeleted, IsRegistered
<1>4. ASSUME UNCHANGED <<pc, toReceive>>, Len(messages) <= Len(messages')
      PROVE  ReceiveBounded'
    BY <1>1, <1>2, <1>4, Shapes DEF ReceiveBounded, TypeOK
<1>5. CASE UNCHANGED vars
    BY <1>1, <1>2, <1>3, <1>4, <1>5, CoreFrame
       DEF vars, InductiveInvariant, Core, ReceiveBounded
<1>6. ASSUME NEW t \in Tasks, ApiStep(t)
      PROVE  InductiveInvariant'
  <2>1. UNCHANGED <<pc, toReceive, messages>>
    BY <1>6 DEF ApiStep, NewTask, GetTask, KillTask, WaitForTask, WaitedForTask,
       ApiVarsUnchanged
  <2>2. Core' /\ Rest'
    BY <1>1, <1>6, RegisterApi, CoreFrame
  <2> QED BY <1>1, <1>2, <2>1, <2>2
          DEF InductiveInvariant, Core, ReceiveBounded
<1>7. CASE BeginPass
  <2>1. UNCHANGED <<task, register, inqueue, messages, proc, escaped>>
    BY <1>7 DEF BeginPass
  <2>2. ReceiveBounded'
    BY <1>7, Shapes, <1>1 DEF BeginPass, ReceiveBounded
  <2> QED BY <1>1, <1>2, <1>3, <2>1, <2>2, CoreFrame DEF InductiveInvariant, Core
<1>8. CASE ReceiveUnknown \/ ReceiveReport \/ ReceiveExecuted \/ ReceiveFinished
  <2>1. Core'
    BY <1>1, <1>2, <1>8, CoreReceiving
  <2> QED BY <1>1, <1>2, <1>8, <2>1, RegisterReceiving
          DEF InductiveInvariant, Core
<1>9. CASE EndReceive
  <2>1. UNCHANGED <<task, register, inqueue, messages, proc, escaped>> /\ pc' = "process"
    BY <1>9 DEF EndReceive
  <2> QED BY <1>1, <1>2, <1>3, <2>1, CoreFrame
          DEF InductiveInvariant, Core, ReceiveBounded
<1>10. CASE ProcessTask
  <2>1. pc = "process" /\ UNCHANGED pc
    BY <1>10 DEF ProcessTask
  <2> QED BY <1>1, <1>2, <1>10, <2>1, CoreProcessTask, RegisterProcessTask
          DEF InductiveInvariant, Core, ReceiveBounded
<1>11. CASE HandleSingleUsePool
  <2>1. UNCHANGED <<task, register, inqueue, messages, escaped>> /\ pc' = "idle"
    BY <1>11 DEF HandleSingleUsePool
  <2>2. \/ UNCHANGED proc
        \/ \E p \in Pids : /\ proc[p].status = "gone" /\ ~IsReferenced(p)
                           /\ proc' = [proc EXCEPT ![p] = FreshProc("temp")]
    BY <1>11 DEF HandleSingleUsePool, FreePids
  <2>3. Core'
    BY <1>1, <2>1, <2>2, CoreFrame, CoreSpawn
  <2> QED BY <1>1, <1>2, <1>3, <2>1, <2>3
          DEF InductiveInvariant, Core, ReceiveBounded
<1>12. ASSUME NEW p \in Pids, ProcStep(p)
       PROVE  InductiveInvariant'
  <2>1. /\ UNCHANGED <<task, register, pc, toReceive>>
        /\ \/ UNCHANGED messages
           \/ EndPut(p)
    BY <1>12 DEF ProcStep, WorkerStep, CommandStep, TakeTask, PutExecuted,
       PutReport, PutFinished, BeginPut, EndPut, PauseWorker, ReturnFromTask,
       EscapeTask, LeavesTask, HandleSigterm, Crash, Reap, WorkerVarsUnchanged
  <2>2. Len(messages) <= Len(messages')
    <3>1. CASE UNCHANGED messages
      BY <1>1, <3>1, Shapes
    <3>2. CASE EndPut(p)
      BY <1>1, <1>2, <3>2 DEF EndPut, TypeOK
    <3> QED BY <2>1, <3>1, <3>2
  <2>3. Core'
    BY <1>1, <1>12, CoreProc
  <2> QED BY <1>2, <1>3, <1>4, <2>1, <2>2, <2>3 DEF InductiveInvariant, Core
<1>13. CASE RespawnWorker
  <2>1. UNCHANGED <<task, register, inqueue, messages, pc, toReceive,
                   escaped>>
    BY <1>13 DEF RespawnWorker, WorkerVarsUnchanged
  <2>2. Core'
    BY <1>1, <1>13, <2>1, CoreSpawn DEF RespawnWorker, FreePids
  <2> QED BY <1>1, <1>2, <1>3, <2>1, <2>2
          DEF InductiveInvariant, Core, ReceiveBounded
<1>14. CASE Tick
  <2>1. UNCHANGED <<register, inqueue, messages, proc, pc, toReceive, escaped>>
    BY <1>14 DEF Tick
  <2>2. \A t \in Tasks : /\ task'[t].state = task[t].state
                         /\ task'[t].pid = task[t].pid
                         /\ task[t].toDelete = Never => task'[t].toDelete = Never
    BY <1>1, <1>14 DEF Tick, TypeOK, TaskRecord
  <2>3. Core'
    BY <1>1, <2>1, <2>2, CoreFrame
  <2>4. Rest'
    BY <1>1, <2>1, <2>2
       DEF UnfinishedStaysRegistered, OnlyFinishedDeleted, IsRegistered
  <2> QED BY <1>1, <1>2, <2>1, <2>3, <2>4
          DEF InductiveInvariant, Core, ReceiveBounded
<1> QED BY <1>5, <1>6, <1>7, <1>8, <1>9, <1>10, <1>11, <1>12, <1>13, <1>14
        DEF Next, PassStep

-----------------------------------------------------------------------------
(* Theorems.                                                               *)

\* The inductive invariant holds in every reachable state.
THEOREM Invariance == Spec => []InductiveInvariant
    BY InitInvariant, StepInvariant, PTL DEF Spec

\* Every variable keeps its type, whatever the scheduler, its clients and its
\* workers do.
THEOREM TypeCorrectness == Spec => []TypeOK
<1>1. InductiveInvariant => TypeOK
    BY DEF InductiveInvariant
<1> QED BY <1>1, Invariance, PTL

\* For every number of tasks, workers and crashes: the signals of Task.kill and
\* _message_finished reach the worker of that very task or nobody.
THEOREM SignalSafety == Spec => []SignalsHitOwnTask
<1>1. InductiveInvariant => SignalsHitOwnTask
    BY DEF InductiveInvariant
<1> QED BY <1>1, Invariance, PTL

\* No task is run twice, and none that was killed before it was scheduled.
THEOREM SingleExecution == Spec => []RunsAtMostOnce
<1>1. InductiveInvariant => RunsAtMostOnce
    BY DEF InductiveInvariant
<1> QED BY <1>1, Invariance, PTL

\* A TaskExecuted message always finds its task registered and QUEUED.
THEOREM ExecutedMessageSafety == Spec => []ExecutedMeetsQueued
<1>1. InductiveInvariant => ExecutedMeetsQueued
  <2> SUFFICES ASSUME InductiveInvariant PROVE ExecutedMeetsQueued
    OBVIOUS
  <2>1. \A i \in DOMAIN messages : messages[i].task \in Tasks
    BY Shapes DEF InductiveInvariant
  <2> QED BY <2>1 DEF InductiveInvariant, MessagesConsistent,
             ExecutedMeetsQueued, UnfinishedStaysRegistered
<1> QED BY <1>1, Invariance, PTL

\* The garbage collector never drops a task that has not finished.
THEOREM RegisterSafety == Spec => []UnfinishedStaysRegistered
<1>1. InductiveInvariant => UnfinishedStaysRegistered
    BY DEF InductiveInvariant
<1> QED BY <1>1, Invariance, PTL

-----------------------------------------------------------------------------
(* Properties of steps.                                                    *)

\* What a step may do to a task's state and finish type.
LEMMA TaskForward ==
    ASSUME InductiveInvariant, [Next]_vars, NEW t \in Tasks
    PROVE  /\ StateIndex[task[t].state] <= StateIndex[task'[t].state]
           /\ task[t].state = "FINISHED" =>
                 task'[t].finishType = task[t].finishType
<1>1. /\ TypeOK /\ Core /\ UnfinishedStaysRegistered /\ OnlyFinishedDeleted
      /\ ReceiveBounded /\ task \in [Tasks -> TaskRecord]
    BY DEF InductiveInvariant, Core, TypeOK
<1>2. task[t].state \in States /\ task[t] \in TaskRecord
    BY <1>1, Shapes
<1>3. SUFFICES \/ /\ task'[t].state = task[t].state
                  /\ task[t].state = "FINISHED" =>
                        task'[t].finishType = task[t].finishType
               \/ task[t].state = "NEW" /\ task'[t].state = "CREATED"
               \/ task[t].state = "CREATED" /\ task'[t].state = "QUEUED"
               \/ task[t].state = "QUEUED" /\ task'[t].state = "EXECUTED"
               \/ task[t].state # "FINISHED" /\ task'[t].state = "FINISHED"
    BY <1>2 DEF StateIndex, States
<1>4. CASE UNCHANGED task
    BY <1>4
<1>5. ASSUME NEW u \in Tasks, ApiStep(u)
      PROVE  \/ /\ task'[t].state = task[t].state
                /\ task'[t].finishType = task[t].finishType
             \/ task[t].state = "NEW" /\ task'[t].state = "CREATED"
  <2>1. CASE NewTask(u)
    BY <1>1, <1>2, <2>1 DEF NewTask, TaskRecord
  <2>2. CASE GetTask(u)
    BY <1>1, <1>2, <2>2 DEF GetTask, RequestDeletion, TaskRecord
  <2>3. CASE KillTask(u)
    BY <1>1, <1>2, <2>3 DEF KillTask, RequestKill, TaskRecord
  <2>4. CASE WaitForTask(u)
    BY <1>1, <1>2, <2>4 DEF WaitForTask, TaskRecord
  <2>5. CASE WaitedForTask(u)
    <3>1. RequestDeletion(task[u]) \in TaskRecord
      BY <1>1, TaskOperatorsType
    <3>2. /\ RequestDeletion(task[u]).state = task[u].state
          /\ RequestDeletion(task[u]).finishType = task[u].finishType
      BY <1>1 DEF RequestDeletion, TaskRecord
    <3>3. task' = [task EXCEPT ![u] =
                     [RequestDeletion(task[u]) EXCEPT !.client = "answered"]]
      BY <2>5 DEF WaitedForTask
    <3> QED BY <1>1, <3>1, <3>2, <3>3 DEF TaskRecord
  <2> QED BY <1>5, <2>1, <2>2, <2>3, <2>4, <2>5 DEF ApiStep
<1>6. CASE ReceiveReport
  <2>1. Head(messages).task \in Tasks
    BY <1>1, <1>6, HeadFacts DEF ReceiveReport
  <2> QED BY <1>1, <1>2, <1>6, <2>1 DEF ReceiveReport, TaskRecord
<1>7. CASE ReceiveExecuted
  <2>1. /\ Head(messages).task \in Tasks
        /\ task[Head(messages).task].state = "QUEUED"
    BY <1>1, <1>7, HeadFacts DEF ReceiveExecuted
  <2>2. CanSetState(task[Head(messages).task], "EXECUTED")
    BY <2>1 DEF CanSetState, StateIndex, States
  <2> QED BY <1>1, <1>2, <1>7, <2>1, <2>2 DEF ReceiveExecuted, TaskRecord
<1>8. CASE ReceiveFinished
  <2> DEFINE u == Head(messages).task
             done == [task[u] EXCEPT !.result = ResultOf(Head(messages).type),
                                     !.state = "FINISHED",
                                     !.finishType = Head(messages).type]
  <2>1. u \in Tasks /\ task[u] \in TaskRecord
    BY <1>1, <1>8, HeadFacts DEF ReceiveFinished
  <2>2. CASE ~CanSetState(task[u], "FINISHED")
    BY <1>1, <1>2, <1>8, <2>1, <2>2 DEF ReceiveFinished, TaskRecord
  <2>3. CASE CanSetState(task[u], "FINISHED")
    <3>1. /\ done.state = "FINISHED"
          /\ [done EXCEPT !.lastMessage = 0].state = "FINISHED"
      BY <2>1 DEF TaskRecord
    <3>2. \/ task' = [task EXCEPT ![u] = done]
          \/ task' = [task EXCEPT ![u] = [done EXCEPT !.lastMessage = 0]]
      BY <1>8, <2>3 DEF ReceiveFinished
    <3>3. task[u].state # "FINISHED"
      BY <2>3 DEF CanSetState, StateIndex, States
    <3> HIDE DEF u, done
    <3> QED BY <1>1, <2>1, <3>1, <3>2, <3>3
  <2> QED BY <2>2, <2>3
<1>9. CASE ProcessTask
  <2>1. CASE t = Head(toProcess)
    <3>1. task[t].state = "FINISHED" => task'[t].state = "FINISHED"
      BY <1>1, <1>9, <2>1, ProcessedTask
    <3> QED BY <1>1, <1>9, <2>1, ProcessedTask
  <2>2. CASE t # Head(toProcess)
    BY <1>1, <1>9, <2>2, ProcessedTask
  <2> QED BY <2>1, <2>2
<1>10. CASE Tick
    BY <1>1, <1>2, <1>10 DEF Tick, TaskRecord
<1>11. ASSUME NEW p \in Pids, ProcStep(p) PROVE UNCHANGED task
    BY <1>11 DEF ProcStep, WorkerStep, CommandStep, TakeTask, PutExecuted,
       PutReport, PutFinished, BeginPut, EndPut, PauseWorker, ReturnFromTask,
       EscapeTask, LeavesTask, HandleSigterm, Crash, Reap, WorkerVarsUnchanged
<1>12. CASE RespawnWorker \/ BeginPass \/ EndReceive \/ ReceiveUnknown
               \/ HandleSingleUsePool \/ UNCHANGED vars
    BY <1>12 DEF RespawnWorker, WorkerVarsUnchanged, BeginPass, EndReceive,
       ReceiveUnknown, HandleSingleUsePool, vars
<1> QED BY <1>4, <1>5, <1>6, <1>7, <1>8, <1>9, <1>10, <1>11, <1>12
        DEF Next, PassStep

\* Task states only move forward and finish types are final.
THEOREM ForwardSafety == Spec => StateMovesForward
<1> DEFINE A == \A t \in Tasks :
                   /\ StateIndex[task[t].state] <= StateIndex[task'[t].state]
                   /\ task[t].state = "FINISHED" =>
                         task'[t].finishType = task[t].finishType
<1>1. InductiveInvariant /\ [Next]_vars => [A]_vars
    BY TaskForward
<1> QED BY <1>1, Invariance, PTL DEF Spec, StateMovesForward

\* Who wakes a stopped worker.
LEMMA WokenByOwnTask ==
    ASSUME InductiveInvariant, [Next]_vars, NEW p \in Pids,
           proc[p].status = "stopped", proc'[p].status = "run"
    PROVE  /\ task[proc[p].job].state # "FINISHED"
           /\ task'[proc[p].job].state = "FINISHED"
<1>1. /\ TypeOK /\ Core /\ UnfinishedStaysRegistered /\ ReceiveBounded
      /\ task \in [Tasks -> TaskRecord] /\ proc \in [Pids -> ProcRecord]
    BY DEF InductiveInvariant, Core, TypeOK
<1>2. proc' # proc
    OBVIOUS
<1>3. CASE ReceiveFinished
  <2> PICK m : m = Head(messages)
    OBVIOUS
  <2>1. /\ m.task \in Tasks \ escaped
        /\ task[m.task].state \in {"EXECUTED", "FINISHED"}
    BY <1>1, <1>3, HeadFacts DEF ReceiveFinished
  <2>2. CanSetState(task[m.task], "FINISHED") <=> task[m.task].state = "EXECUTED"
    BY <2>1 DEF CanSetState, StateIndex, States
  <2>3. /\ task[m.task].state = "EXECUTED"
        /\ proc' = Sigcont(task[m.task].pid)
        /\ task'[m.task].state = "FINISHED"
    <3> DEFINE done == [task[m.task] EXCEPT !.result = ResultOf(m.type),
                                            !.state = "FINISHED",
                                            !.finishType = m.type]
    <3>1. task[m.task] \in TaskRecord
      BY <1>1, <2>1
    <3>2. [done EXCEPT !.lastMessage = 0].state = "FINISHED"
      BY <3>1 DEF TaskRecord
    <3>3. /\ CanSetState(task[m.task], "FINISHED")
          /\ proc' = Sigcont(task[m.task].pid)
          /\ task' = [task EXCEPT ![m.task] = [done EXCEPT !.lastMessage = 0]]
      BY <1>2, <1>3 DEF ReceiveFinished
    <3> HIDE DEF done
    <3> QED BY <1>1, <2>1, <2>2, <3>2, <3>3
  <2>4. proc[p].job = m.task
    BY <1>1, <2>1, <2>3, SigcontWakesOwner
  <2> QED BY <2>3, <2>4
<1>4. CASE ProcessTask
  <2>1. PICK t : t = Head(toProcess)
    OBVIOUS
  <2>2. proc' = Sigterm(task[t].pid) \/ UNCHANGED proc
    BY <1>1, <1>4, <2>1, ProcessedTask
  <2>3. proc'[p].status = proc[p].status
    BY <1>1, <2>2, SigtermMarks
  <2> QED BY <2>3
<1>5. ASSUME NEW q \in Pids, ProcStep(q) PROVE FALSE
  <2>1. \A r \in Pids \ {q} : proc'[r] = proc[r]
    BY <1>1, <1>5 DEF ProcStep, WorkerStep, CommandStep, TakeTask, PutExecuted,
       PutReport, PutFinished, BeginPut, EndPut, PauseWorker, ReturnFromTask,
       EscapeTask, LeavesTask, HandleSigterm, Crash, Reap, Exits
  <2>2. proc[q].status # "stopped"
    BY <1>5 DEF ProcStep, WorkerStep, CommandStep, TakeTask, PutExecuted,
       PutReport, PutFinished, EndPut, PauseWorker, ReturnFromTask,
       EscapeTask, LeavesTask, HandleSigterm, Crash, Reap, Running
  <2> QED BY <2>1, <2>2
<1>6. ASSUME NEW q \in Pids, NEW kind, proc[q].status = "gone",
             proc' = [proc EXCEPT ![q] = FreshProc(kind)]
      PROVE  FALSE
    BY <1>1, <1>6
<1>7. CASE RespawnWorker
    BY <1>6, <1>7 DEF RespawnWorker, FreePids
<1>8. CASE HandleSingleUsePool
    BY <1>2, <1>6, <1>8 DEF HandleSingleUsePool, FreePids
<1>9. ASSUME NEW t \in Tasks, ApiStep(t) PROVE UNCHANGED proc
    BY <1>9 DEF ApiStep, NewTask, GetTask, KillTask, WaitForTask, WaitedForTask,
       ApiVarsUnchanged
<1>10. CASE BeginPass \/ ReceiveUnknown \/ ReceiveReport \/ ReceiveExecuted
               \/ EndReceive \/ Tick \/ UNCHANGED vars
    BY <1>2, <1>10 DEF BeginPass, ReceiveUnknown, ReceiveReport,
       ReceiveExecuted, EndReceive, Tick, vars
<1> QED BY <1>2, <1>3, <1>4, <1>5, <1>7, <1>8, <1>9, <1>10 DEF Next, PassStep

\* A paused worker is resumed by the update of its own task only.
THEOREM ResumeSafety == Spec => ResumedByOwnTask
<1> DEFINE A == \A p \in Pids :
                   proc[p].status = "stopped" /\ proc'[p].status = "run" =>
                      task[proc[p].job].state # "FINISHED"
                        /\ task'[proc[p].job].state = "FINISHED"
<1>1. InductiveInvariant /\ [Next]_vars => [A]_vars
    BY WokenByOwnTask
<1> QED BY <1>1, Invariance, PTL DEF Spec, ResumedByOwnTask
=============================================================================
