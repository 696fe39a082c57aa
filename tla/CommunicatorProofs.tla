------------------------- MODULE CommunicatorProofs -------------------------
(***************************************************************************)
(* Proofs about the communicator, for every number of requests and of      *)
(* addresses: the loop over the handles implements Communication.          *)
(***************************************************************************)
EXTENDS CommunicatorProperties, FiniteSetTheorems, TLAPS

-----------------------------------------------------------------------------
(* The inductive invariant, in parts.                                      *)

\* A request waits, has a handle, or is answered.
Apart ==
    /\ waiting \cap active = {}
    /\ (waiting \cup active) \cap Answered = {}
    /\ \A r \in waiting : ended[r] = "none"

\* A batch is only there while it is looped over, and what is in it has ended.
BatchEnded ==
    /\ pc # "batch" => batch = {}
    /\ batch \subseteq active
    /\ \A r \in batch : ended[r] # "none"

\* Before the loop nothing has happened.
AtStart ==
    pc = "start" => /\ active = {} /\ handles = 0 /\ finished = 0 /\ log = <<>>
                    /\ ~satisfied

\* The handles are those finished, those of the batch yielded so far, and
\* those with a transfer.
Counted ==
    /\ pc # "batch" => handles = finished + Cardinality(active)
    /\ pc = "batch" => handles + Cardinality(batch)
                         = finished + size + Cardinality(active)

LoopInv == TypeOK /\ Apart /\ BatchEnded /\ AtStart /\ Counted

\* For each address tried at most one execution, none yet for a transfer that
\* has not ended.
Executions ==
    /\ \A r \in Requests : executed[r] + late[r] <= dest[r]
    /\ \A r \in Requests : ended[r] = "none" => executed[r] + late[r] < dest[r]
    /\ \A r \in Requests : ended[r] = "ok" => executed[r] > 0
    /\ ~how.multi => \A r \in Requests : dest[r] = 1
    /\ \A i \in DOMAIN log : log[i].result = "ok" => executed[log[i].request] > 0

\* One by one: at most one handle has a transfer, none once the answer is there.
Single ==
    how.one => /\ \A r, s \in active : r = s
               /\ satisfied => active = {}

-----------------------------------------------------------------------------
(* Lemmas.                                                                 *)

\* Sets of requests are finite.
LEMMA FiniteRequests ==
    ASSUME NEW S \in SUBSET Requests
    PROVE  IsFiniteSet(S) /\ Cardinality(S) \in Nat
BY CommunicatorAssumption, FS_Subset, FS_CardinalityType

\* A new answer is the last of the log and adds its request to the answered.
LEMMA AppendAnswered ==
    ASSUME log \in Seq(Answers), NEW a \in Answers, log' = Append(log, a)
    PROVE  /\ log' \in Seq(Answers)
           /\ Answered' = Answered \cup {a.request}
<1>1. /\ log' \in Seq(Answers)
      /\ Len(log') = Len(log) + 1
      /\ \A i \in 1 .. Len(log) : log'[i] = log[i]
      /\ log'[Len(log) + 1] = a
  OBVIOUS
<1>2. DOMAIN log = 1 .. Len(log) /\ DOMAIN log' = 1 .. Len(log')
  BY <1>1
<1>3. DOMAIN log' = DOMAIN log \cup {Len(log) + 1}
  BY <1>1, <1>2
<1> QED
  BY <1>1, <1>2, <1>3 DEF Answered

\* The requests of the next list wait; there is at most one of them.
LEMMA NextListSingle ==
    ASSUME NEW new \in GetNextList
    PROVE  new \subseteq waiting /\ \A r, s \in new : r = s
BY DEF GetNextList

\* Taking on requests that have no handle counts them.
LEMMA AddedCount ==
    ASSUME NEW S \in SUBSET Requests, NEW T \in SUBSET Requests, S \cap T = {}
    PROVE  Cardinality(S \cup T) = Cardinality(S) + Cardinality(T)
<1>1. IsFiniteSet(S) /\ IsFiniteSet(T) /\ Cardinality(S) \in Nat /\ Cardinality(T) \in Nat
  BY FiniteRequests
<1>2. Cardinality(S \cap T) = 0
  BY FS_EmptySet
<1>3. Cardinality(S \cup T) = Cardinality(S) + Cardinality(T) - Cardinality(S \cap T)
  BY <1>1, FS_Union
<1> QED
  BY <1>1, <1>2, <1>3

\* Answering a request and taking on others instead keeps the parts that the
\* loop is about; the counts only move.
LEMMA AnswerStep ==
    ASSUME LoopInv, NEW r \in batch, NEW new \in SUBSET waiting,
           pc = "batch", AddRequests(active \ {r}, new),
           log' = Append(log, [request |-> r, result |-> ended[r]]),
           waiting' = waiting \ new, batch' = batch \ {r},
           UNCHANGED <<pc, ended, dest, finished, size, executed, late, how>>,
           satisfied' \in BOOLEAN
    PROVE  /\ LoopInv'
           /\ active' = (active \ {r}) \cup new
           /\ Answered' = Answered \cup {r}
           /\ [request |-> r, result |-> ended[r]] \in Answers
           /\ r \in active \ Answered
           /\ new \subseteq Requests \ (active \cup Answered)
<1>1. /\ TypeOK /\ Apart /\ BatchEnded /\ Counted
      /\ r \in Requests /\ r \in active /\ ended[r] \in Results
  BY DEF LoopInv, BatchEnded, TypeOK
<1>0. /\ pc' = pc /\ ended' = ended /\ dest' = dest /\ finished' = finished
      /\ size' = size /\ executed' = executed /\ late' = late /\ how' = how
      /\ handles' = handles + Cardinality(new)
  BY DEF AddRequests
<1>2. [request |-> r, result |-> ended[r]] \in Answers
  BY <1>1 DEF Answers
<1>3. log' \in Seq(Answers) /\ Answered' = Answered \cup {r}
  <2>1. log \in Seq(Answers)
    BY <1>1 DEF TypeOK
  <2> QED
    BY <1>2, <2>1, AppendAnswered
<1>4. active' = (active \ {r}) \cup new
  BY DEF AddRequests
<1>5. /\ active \in SUBSET Requests /\ batch \in SUBSET Requests
      /\ waiting \in SUBSET Requests /\ new \in SUBSET Requests
  BY <1>1 DEF TypeOK
<1>6. /\ Cardinality(active) \in Nat /\ Cardinality(batch) \in Nat
      /\ Cardinality(new) \in Nat
      /\ IsFiniteSet(active) /\ IsFiniteSet(batch)
  BY <1>5, FiniteRequests
<1>7. TypeOK'
  <2>1. handles' \in Nat
    BY <1>0, <1>1, <1>6 DEF TypeOK
  <2> QED
    BY <1>0, <1>1, <1>3, <1>4, <1>5, <2>1 DEF TypeOK
<1>8. Apart'
  BY <1>0, <1>1, <1>3, <1>4 DEF Apart
<1>9. BatchEnded'
  BY <1>0, <1>1, <1>4 DEF BatchEnded
<1>10. AtStart'
  BY DEF AtStart
<1>11. Counted'
  <2>1. Cardinality(batch') = Cardinality(batch) - 1
    BY <1>6, FS_RemoveElement
  <2>2. Cardinality(active \ {r}) = Cardinality(active) - 1
    BY <1>1, <1>6, FS_RemoveElement
  <2>3. (active \ {r}) \cap new = {}
    BY <1>1 DEF Apart
  <2>4. Cardinality(active') = Cardinality(active) - 1 + Cardinality(new)
    BY <1>4, <1>5, <2>2, <2>3, AddedCount
  <2>5. handles \in Nat /\ finished \in Nat /\ size \in Nat
    BY <1>1 DEF TypeOK
  <2>6. handles + Cardinality(batch) = finished + size + Cardinality(active)
    BY <1>1 DEF Counted
  <2>7. handles' + Cardinality(batch') = finished' + size' + Cardinality(active')
    <3> DEFINE a == Cardinality(active)
               b == Cardinality(batch)
               n == Cardinality(new)
    <3>1. /\ a \in Nat /\ b \in Nat /\ n \in Nat
          /\ handles + b = finished + size + a
      BY <1>6, <2>6
    <3>2. /\ handles' = handles + n /\ finished' = finished /\ size' = size
          /\ Cardinality(batch') = b - 1 /\ Cardinality(active') = a - 1 + n
      BY <1>0, <2>1, <2>4
    <3> HIDE DEF a, b, n
    <3>3. (handles + n) + (b - 1) = finished + size + (a - 1 + n)
      BY <2>5, <3>1
    <3> QED
      BY <3>2, <3>3
  <2> QED
    BY <1>0, <2>7 DEF Counted
<1>12. r \in active \ Answered /\ new \subseteq Requests \ (active \cup Answered)
  BY <1>1, <1>5 DEF Apart
<1> QED
  BY <1>2, <1>3, <1>4, <1>7, <1>8, <1>9, <1>10, <1>11, <1>12 DEF LoopInv

\* Yield answers a request, or takes it to its next address.
LEMMA YieldSteps ==
    ASSUME LoopInv, NEW r \in Requests, Yield(r), UNCHANGED how
    PROVE  \/ /\ NextDest(r)
              /\ TriesNextDest(r)
           \/ \E new \in SUBSET waiting :
                 /\ AddRequests(active \ {r}, new)
                 /\ log' = Append(log, [request |-> r, result |-> ended[r]])
                 /\ waiting' = waiting \ new
                 /\ UNCHANGED <<ended, dest>>
                 /\ satisfied' \in BOOLEAN
                 /\ how.one => /\ \A s, t \in new : s = t
                               /\ satisfied' => new = {} \/ satisfied
<1> SUFFICES ASSUME ~TriesNextDest(r)
             PROVE  \E new \in SUBSET waiting :
                 /\ AddRequests(active \ {r}, new)
                 /\ log' = Append(log, [request |-> r, result |-> ended[r]])
                 /\ waiting' = waiting \ new
                 /\ UNCHANGED <<ended, dest>>
                 /\ satisfied' \in BOOLEAN
                 /\ how.one => /\ \A s, t \in new : s = t
                               /\ satisfied' => new = {} \/ satisfied
  BY DEF Yield
<1>1. OnResponse(r) /\ TypeOK
  BY DEF Yield, LoopInv
<1>2. CASE /\ \E new \in GetNextList : /\ AddRequests(active \ {r}, new)
                                       /\ waiting' = waiting \ new
           /\ UNCHANGED satisfied
  <2>1. PICK new \in GetNextList : /\ AddRequests(active \ {r}, new)
                                   /\ waiting' = waiting \ new
    BY <1>2
  <2>2. new \subseteq waiting /\ \A s, t \in new : s = t
    BY <2>1, NextListSingle
  <2>3. new \in SUBSET waiting
    BY <2>2
  <2> QED
    BY <1>1, <1>2, <2>1, <2>3, <2>2 DEF OnResponse, TypeOK
<1>3. CASE /\ AddRequests(active \ {r}, {})
           /\ satisfied' = how.one
           /\ UNCHANGED waiting
  <2> WITNESS {} \in SUBSET waiting
  <2> QED
    BY <1>1, <1>3 DEF OnResponse, TypeOK
<1> QED
  BY <1>1, <1>2, <1>3 DEF OnResponse

\* A request that goes to its next address keeps its handle's place.
LEMMA NextDestStep ==
    ASSUME LoopInv, NEW r \in Requests, Yield(r), NextDest(r), TriesNextDest(r),
           UNCHANGED how
    PROVE  LoopInv' /\ active' = active /\ log' = log
<1>1. /\ TypeOK /\ Apart /\ BatchEnded /\ Counted /\ pc = "batch"
      /\ r \in batch /\ r \in active
  BY DEF LoopInv, BatchEnded, Yield
<1>2. active' = active /\ handles' = handles + 1
  <2>1. Cardinality({r}) = 1
    BY FS_Singleton
  <2> QED
    BY <1>1, <2>1 DEF NextDest, AddRequests
<1>3. dest[r] < MaxDest /\ MaxDest \in Nat
  BY CommunicatorAssumption DEF TriesNextDest
<1>4. dest' \in [Requests -> 1 .. MaxDest]
  BY <1>1, <1>3 DEF TypeOK, NextDest
<1>5. TypeOK'
  BY <1>1, <1>2, <1>4 DEF TypeOK, NextDest, Yield
<1>6. Apart' /\ BatchEnded' /\ AtStart'
  BY <1>1, <1>2 DEF Apart, BatchEnded, AtStart, TypeOK, NextDest, Yield, Answered
<1>7. Counted'
  <2>1. IsFiniteSet(batch) /\ Cardinality(batch) \in Nat /\ Cardinality(active) \in Nat
    BY <1>1, FiniteRequests DEF TypeOK
  <2>2. Cardinality(batch') = Cardinality(batch) - 1
    BY <1>1, <2>1, FS_RemoveElement DEF Yield
  <2> QED
    BY <1>1, <1>2, <2>1, <2>2 DEF Counted, TypeOK, Yield
<1> QED
  BY <1>2, <1>5, <1>6, <1>7 DEF LoopInv, NextDest

-----------------------------------------------------------------------------
(* The invariant of the loop, and the refinement.                          *)

\* Nothing is under way at first.
LEMMA LoopInvInit == Init => LoopInv
<1> SUFFICES ASSUME Init
             PROVE  LoopInv
  OBVIOUS
<1>1. MaxDest \in Nat \ {0}
  BY CommunicatorAssumption
<1>2. Answered = {} /\ log \in Seq(Answers)
  BY DEF Init, Answered
<1>3. TypeOK
  <2>1. how \in [multi : BOOLEAN, one : BOOLEAN] /\ satisfied \in BOOLEAN
    BY DEF Init
  <2>2. dest \in [Requests -> 1 .. MaxDest]
    BY <1>1 DEF Init
  <2>3. ended \in [Requests -> Results \cup {"none"}]
    BY DEF Init
  <2> QED
    BY <1>2, <2>1, <2>2, <2>3 DEF Init, TypeOK
<1>4. Cardinality(active) = 0
  BY FS_EmptySet DEF Init
<1>5. Apart /\ BatchEnded /\ AtStart /\ Counted
  BY <1>2, <1>4 DEF Init, Apart, BatchEnded, AtStart, Counted
<1> QED
  BY <1>3, <1>5 DEF LoopInv

\* Every step preserves the invariant of the loop and is a step of
\* Communication or none.
LEMMA LoopInvStep ==
    ASSUME LoopInv, [Next]_vars
    PROVE  LoopInv' /\ [Promise!Next]_(Promise!cvars)
<1>1. /\ TypeOK /\ Apart /\ BatchEnded /\ AtStart /\ Counted
  BY DEF LoopInv
<1>2. ASSUME active' = active, log' = log, (pc' = "done") = (pc = "done")
      PROVE  [Promise!Next]_(Promise!cvars)
  BY <1>2 DEF Promise!cvars, Answered
<1>3. CASE Run /\ UNCHANGED how
  <2>1. PICK new \in GetInitialRequestList :
           active' = new /\ handles' = Cardinality(new) /\ waiting' = waiting \ new
    BY <1>3 DEF Run
  <2>2. new \subseteq waiting
    BY <2>1, NextListSingle DEF GetInitialRequestList
  <2>3. new \in SUBSET Requests
    BY <1>1, <2>2 DEF TypeOK
  <2>4. Cardinality(new) \in Nat
    BY <2>3, FiniteRequests
  <2>5. /\ pc = "start" /\ pc' = "loop"
        /\ UNCHANGED <<ended, finished, batch, size, dest, executed, late, satisfied,
                       log, how>>
        /\ active = {} /\ finished = 0 /\ log = <<>>
    BY <1>1, <1>3 DEF Run, AtStart
  <2>6. Answered = {} /\ Answered' = {}
    BY <2>5 DEF Answered
  <2>7. TypeOK'
    BY <1>1, <2>1, <2>3, <2>4, <2>5 DEF TypeOK
  <2>8. Apart' /\ BatchEnded' /\ AtStart'
    BY <1>1, <2>1, <2>2, <2>5, <2>6 DEF Apart, BatchEnded, AtStart
  <2>9. Counted'
    BY <2>1, <2>4, <2>5 DEF Counted
  <2>10. Promise!Begin(new)
    BY <2>1, <2>3, <2>5, <2>6 DEF Promise!Begin, Promise!Ask
  <2>11. Promise!Next
    BY <2>3, <2>10 DEF Promise!Next
  <2> QED
    BY <2>7, <2>8, <2>9, <2>11 DEF LoopInv
<1>4. CASE GetAllReadyResponses /\ UNCHANGED how
  <2>1. /\ pc = "loop" /\ pc' = "batch"
        /\ batch' = {r \in active : ended[r] # "none"}
        /\ size' = Cardinality(batch')
        /\ UNCHANGED <<waiting, active, ended, handles, finished, dest, executed,
                       late, satisfied, log, how>>
    BY <1>4 DEF GetAllReadyResponses
  <2>2. batch' \in SUBSET Requests
    BY <1>1, <2>1 DEF TypeOK
  <2>3. Cardinality(batch') \in Nat /\ Cardinality(active) \in Nat
    BY <1>1, <2>2, FiniteRequests DEF TypeOK
  <2>4. TypeOK'
    BY <1>1, <2>1, <2>2, <2>3 DEF TypeOK
  <2>5. Apart' /\ BatchEnded' /\ AtStart'
    BY <1>1, <2>1 DEF Apart, BatchEnded, AtStart, Answered
  <2>6. Counted'
    BY <1>1, <2>1, <2>3 DEF Counted, TypeOK
  <2> QED
    BY <1>2, <2>1, <2>4, <2>5, <2>6 DEF LoopInv
<1>5. ASSUME NEW r \in Requests, Yield(r), UNCHANGED how
      PROVE  LoopInv' /\ [Promise!Next]_(Promise!cvars)
  <2>1. CASE NextDest(r) /\ TriesNextDest(r)
    <3>1. LoopInv' /\ active' = active /\ log' = log
      BY <1>5, <2>1, NextDestStep
    <3> QED
      BY <1>2, <1>5, <3>1 DEF Yield
  <2>2. CASE \E new \in SUBSET waiting :
                 /\ AddRequests(active \ {r}, new)
                 /\ log' = Append(log, [request |-> r, result |-> ended[r]])
                 /\ waiting' = waiting \ new
                 /\ UNCHANGED <<ended, dest>>
                 /\ satisfied' \in BOOLEAN
                 /\ how.one => /\ \A s, t \in new : s = t
                               /\ satisfied' => new = {} \/ satisfied
    <3>1. PICK new \in SUBSET waiting :
                 /\ AddRequests(active \ {r}, new)
                 /\ log' = Append(log, [request |-> r, result |-> ended[r]])
                 /\ waiting' = waiting \ new
                 /\ UNCHANGED <<ended, dest>>
                 /\ satisfied' \in BOOLEAN
      BY <2>2
    <3>2. /\ r \in batch /\ pc = "batch" /\ batch' = batch \ {r}
          /\ UNCHANGED <<pc, ended, dest, finished, size, executed, late, how>>
      BY <1>5, <3>1 DEF Yield
    <3> DEFINE a == [request |-> r, result |-> ended[r]]
    <3>3. /\ LoopInv'
          /\ active' = (active \ {r}) \cup new
          /\ Answered' = Answered \cup {r}
          /\ a \in Answers
          /\ r \in active \ Answered
          /\ new \subseteq Requests \ (active \cup Answered)
      BY <3>1, <3>2, AnswerStep
    <3>4. Promise!Answered = Answered /\ Promise!Answers = Answers
      BY DEF Promise!Answered, Answered, Promise!Answers, Answers, Promise!Results, Results
    <3>5. Promise!Answer(a, new)
      BY <3>1, <3>2, <3>3, <3>4 DEF Promise!Answer, Promise!Ask
    <3>6. new \in SUBSET Requests /\ a \in Promise!Answers
      BY <3>3, <3>4
    <3> HIDE DEF a
    <3>7. Promise!Next
      BY <3>5, <3>6 DEF Promise!Next
    <3> QED
      BY <3>3, <3>7
  <2> QED
    BY <1>5, <2>1, <2>2, YieldSteps
<1>6. CASE EndBatch /\ UNCHANGED how
  <2>1. /\ pc = "batch" /\ pc' = "loop" /\ batch = {}
        /\ finished' = finished + size
        /\ UNCHANGED <<waiting, active, ended, handles, batch, size, dest, executed,
                       late, satisfied, log, how>>
    BY <1>6 DEF EndBatch
  <2>2. TypeOK'
    BY <1>1, <2>1 DEF TypeOK
  <2>3. Apart' /\ BatchEnded' /\ AtStart'
    BY <1>1, <2>1 DEF Apart, BatchEnded, AtStart, Answered
  <2>4. Cardinality(batch) = 0 /\ Cardinality(active) \in Nat
    BY <1>1, <2>1, FS_EmptySet, FiniteRequests DEF TypeOK
  <2>5. Counted'
    BY <1>1, <2>1, <2>4 DEF Counted, TypeOK
  <2> QED
    BY <1>2, <2>1, <2>2, <2>3, <2>5 DEF LoopInv
<1>7. CASE Stop /\ UNCHANGED how
  <2>1. /\ pc = "loop" /\ pc' = "done" /\ ~(finished < handles)
        /\ UNCHANGED <<waiting, active, ended, handles, finished, batch, size, dest,
                       executed, late, satisfied, log, how>>
    BY <1>7 DEF Stop
  <2>2. IsFiniteSet(active) /\ Cardinality(active) \in Nat
    BY <1>1, FiniteRequests DEF TypeOK
  <2>3. Cardinality(active) = 0
    BY <1>1, <2>1, <2>2 DEF Counted, TypeOK
  <2>4. active = {}
    BY <2>2, <2>3, FS_EmptySet
  <2>5. TypeOK'
    BY <1>1, <2>1 DEF TypeOK
  <2>6. Apart' /\ BatchEnded' /\ AtStart' /\ Counted'
    BY <1>1, <2>1 DEF Apart, BatchEnded, AtStart, Counted, Answered
  <2>7. Promise!Answered = Answered /\ Answered' = Answered
    BY <2>1 DEF Promise!Answered, Answered
  <2>8. Promise!Return
    BY <2>1, <2>4, <2>7 DEF Promise!Return
  <2> QED
    BY <2>5, <2>6, <2>8 DEF LoopInv, Promise!Next
<1>8. ASSUME NEW r \in Requests, Transfer(r) \/ ExecuteLate(r)
      PROVE  LoopInv' /\ [Promise!Next]_(Promise!cvars)
  <2>1. UNCHANGED lvars
    BY <1>8 DEF Transfer, TransferOk, TransferFails, TransferTimesOut, End, ExecuteLate
  <2>2. /\ ended' \in [Requests -> Results \cup {"none"}]
        /\ executed' \in [Requests -> Nat] /\ late' \in [Requests -> Nat]
    <3>1. /\ ended \in [Requests -> Results \cup {"none"}]
          /\ executed \in [Requests -> Nat] /\ late \in [Requests -> Nat]
      BY <1>1 DEF TypeOK
    <3>2. executed' \in [Requests -> Nat]
      BY <1>8, <3>1 DEF Transfer, TransferOk, TransferFails, TransferTimesOut,
                        ExecuteLate, Executes
    <3>3. late' \in [Requests -> Nat]
      BY <1>8, <3>1 DEF Transfer, TransferOk, TransferFails, TransferTimesOut,
                        ExecuteLate
    <3>4. ended' \in [Requests -> Results \cup {"none"}]
      BY <1>8, <3>1 DEF Transfer, TransferOk, TransferFails, TransferTimesOut, End,
                        ExecuteLate, Results
    <3> QED
      BY <3>2, <3>3, <3>4
  <2>3. \A s \in Requests : s # r => ended'[s] = ended[s]
    BY <1>1, <1>8 DEF Transfer, TransferOk, TransferFails, TransferTimesOut, End,
                      ExecuteLate, TypeOK
  <2>4. ended'[r] # ended[r] => r \in active /\ ended'[r] # "none"
    BY <1>1, <1>8 DEF Transfer, TransferOk, TransferFails, TransferTimesOut, End,
                      ExecuteLate, TypeOK
  <2>5. TypeOK'
    BY <1>1, <2>1, <2>2 DEF TypeOK, lvars
  <2>6. Apart' /\ BatchEnded' /\ AtStart' /\ Counted'
    BY <1>1, <2>1, <2>3, <2>4 DEF Apart, BatchEnded, AtStart, Counted, lvars, Answered,
                                  TypeOK
  <2>7. [Promise!Next]_(Promise!cvars)
    BY <1>2, <2>1 DEF lvars
  <2> QED
    BY <2>5, <2>6, <2>7 DEF LoopInv
<1>9. CASE UNCHANGED vars
  <2>1. TypeOK'
    BY <1>1, <1>9 DEF TypeOK, vars, lvars
  <2>2. Apart' /\ BatchEnded' /\ AtStart' /\ Counted'
    BY <1>1, <1>9 DEF Apart, BatchEnded, AtStart, Counted, vars, lvars, Answered
  <2>3. [Promise!Next]_(Promise!cvars)
    BY <1>2, <1>9 DEF vars, lvars
  <2> QED
    BY <2>1, <2>2, <2>3 DEF LoopInv
<1> QED
  BY <1>3, <1>4, <1>5, <1>6, <1>7, <1>8, <1>9 DEF Next, Loop

\* The variables of run and of the communicator keep their types.
THEOREM TypeCorrect == Spec => []TypeOK
<1>1. LoopInv => TypeOK
  BY DEF LoopInv
<1> QED
  BY <1>1, LoopInvInit, LoopInvStep, PTL DEF Spec

\* run implements Communication: it answers every request it sends exactly
\* once, with the node's answer or a failure, and returns only when all are
\* answered, whatever is added and retried on the way.
THEOREM RunKeepsPromise == Spec => KeepsPromise
<1>1. Init => Promise!Init
  BY DEF Init, Promise!Init, Answered
<1> QED
  BY <1>1, LoopInvInit, LoopInvStep, PTL DEF Spec, KeepsPromise, Promise!Spec

-----------------------------------------------------------------------------
(* Executions and the one-by-one strategy.                                 *)

\* Every step preserves the bound on the executions of a request.
LEMMA ExecutionsStep ==
    ASSUME LoopInv, LoopInv', Executions, [Next]_vars
    PROVE  Executions'
<1>1. /\ TypeOK /\ TypeOK' /\ BatchEnded
  BY DEF LoopInv
<1>2. ASSUME UNCHANGED <<how, ended, dest, executed, late, log>>
      PROVE  Executions'
  BY <1>2 DEF Executions
<1>3. CASE Run /\ UNCHANGED how
  BY <1>2, <1>3 DEF Run
<1>4. CASE GetAllReadyResponses /\ UNCHANGED how
  BY <1>2, <1>4 DEF GetAllReadyResponses
<1>5. CASE EndBatch /\ UNCHANGED how
  BY <1>2, <1>5 DEF EndBatch
<1>6. CASE Stop /\ UNCHANGED how
  BY <1>2, <1>6 DEF Stop
<1>7. CASE UNCHANGED vars
  BY <1>2, <1>7 DEF vars, lvars
<1>8. ASSUME NEW r \in Requests, Yield(r), UNCHANGED how
      PROVE  Executions'
  <2>1. CASE NextDest(r) /\ TriesNextDest(r)
    <3>1. /\ dest' = [dest EXCEPT ![r] = @ + 1]
          /\ ended' = [ended EXCEPT ![r] = "none"]
          /\ UNCHANGED <<log, executed, late, how>>
          /\ how.multi
      BY <1>8, <2>1 DEF NextDest, TriesNextDest, Yield
    <3>2. \A s \in Requests : /\ executed[s] \in Nat /\ late[s] \in Nat
                              /\ dest[s] \in Nat /\ dest'[s] \in Nat
      BY <1>1 DEF TypeOK
    <3>3. \A s \in Requests : /\ dest'[s] = IF s = r THEN dest[s] + 1 ELSE dest[s]
                              /\ ended'[s] = IF s = r THEN "none" ELSE ended[s]
      BY <1>1, <3>1 DEF TypeOK
    <3> QED
      BY <3>1, <3>2, <3>3 DEF Executions
  <2>2. CASE /\ log' = Append(log, [request |-> r, result |-> ended[r]])
             /\ UNCHANGED <<ended, dest>>
    <3>1. UNCHANGED <<executed, late, how>>
      BY <1>8 DEF Yield
    <3>2. /\ log \in Seq(Answers)
          /\ DOMAIN log' = DOMAIN log \cup {Len(log) + 1}
          /\ \A i \in DOMAIN log : log'[i] = log[i]
          /\ log'[Len(log) + 1] = [request |-> r, result |-> ended[r]]
      BY <1>1, <2>2 DEF TypeOK
    <3>3. \A i \in DOMAIN log' : log'[i].result = "ok" => executed'[log'[i].request] > 0
      BY <3>1, <3>2 DEF Executions
    <3> QED
      BY <2>2, <3>1, <3>3 DEF Executions
  <2> QED
    BY <1>8, <2>1, <2>2, YieldSteps
<1>9. ASSUME NEW r \in Requests, Transfer(r) \/ ExecuteLate(r)
      PROVE  Executions'
  <2>1. UNCHANGED <<how, dest, log>>
    BY <1>9 DEF Transfer, TransferOk, TransferFails, TransferTimesOut, End, ExecuteLate,
                lvars
  <2>2. \A s \in Requests : /\ executed[s] \in Nat /\ late[s] \in Nat /\ dest[s] \in Nat
                            /\ executed'[s] \in Nat /\ late'[s] \in Nat
    BY <1>1 DEF TypeOK
  <2>3. \A s \in Requests \ {r} : /\ executed'[s] = executed[s] /\ late'[s] = late[s]
                                  /\ ended'[s] = ended[s]
    BY <1>1, <1>9 DEF Transfer, TransferOk, TransferFails, TransferTimesOut, End,
                      ExecuteLate, Executes, TypeOK
  <2>4. \/ /\ ended[r] = "none" /\ ended'[r] = "ok"
           /\ executed'[r] = executed[r] + 1 /\ late'[r] = late[r]
        \/ /\ ended[r] = "none" /\ ended'[r] = "failed"
           /\ executed'[r] + late'[r] <= executed[r] + late[r] + 1
           /\ executed'[r] >= executed[r]
        \/ /\ ended'[r] = ended[r]
           /\ executed'[r] = executed[r] + 1 /\ late'[r] = late[r] - 1
    <3>1. /\ DOMAIN ended = Requests /\ DOMAIN executed = Requests
          /\ DOMAIN late = Requests
      BY <1>1 DEF TypeOK
    <3>2. CASE TransferOk(r)
      BY <3>1, <3>2 DEF TransferOk, End, Executes
    <3>3. CASE TransferFails(r)
      <4>1. ended[r] = "none" /\ ended'[r] = "failed" /\ late' = late
        BY <3>1, <3>3 DEF TransferFails, End
      <4>2. executed'[r] = executed[r] \/ executed'[r] = executed[r] + 1
        BY <3>1, <3>3 DEF TransferFails, Executes
      <4> QED
        BY <2>2, <4>1, <4>2
    <3>4. CASE TransferTimesOut(r)
      <4>1. /\ ended[r] = "none" /\ ended'[r] = "failed" /\ executed' = executed
            /\ late'[r] = late[r] + 1
        BY <3>1, <3>4 DEF TransferTimesOut, End
      <4> QED
        BY <2>2, <4>1
    <3>5. CASE ExecuteLate(r)
      BY <3>1, <3>5 DEF ExecuteLate, Executes
    <3> QED
      BY <1>9, <3>2, <3>3, <3>4, <3>5 DEF Transfer
  <2>5. \A s \in Requests : executed[s] > 0 => executed'[s] > 0
    BY <2>2, <2>3, <2>4
  <2>6. \A i \in DOMAIN log : log[i].request \in Requests
    <3>1. log \in Seq(Answers)
      BY <1>1 DEF TypeOK
    <3>2. \A i \in DOMAIN log : log[i] \in Answers
      BY <3>1
    <3> QED
      BY <3>2 DEF Answers
  <2>7. \A i \in DOMAIN log' : log'[i].result = "ok" => executed'[log'[i].request] > 0
    BY <2>1, <2>5, <2>6 DEF Executions
  <2>8. /\ executed'[r] + late'[r] <= dest[r]
        /\ ended'[r] = "none" => executed'[r] + late'[r] < dest[r]
        /\ ended'[r] = "ok" => executed'[r] > 0
    BY <2>2, <2>4 DEF Executions
  <2>9. \A s \in Requests :
          /\ executed'[s] + late'[s] <= dest'[s]
          /\ ended'[s] = "none" => executed'[s] + late'[s] < dest'[s]
          /\ ended'[s] = "ok" => executed'[s] > 0
    BY <2>1, <2>3, <2>8 DEF Executions
  <2> QED
    BY <2>1, <2>7, <2>9 DEF Executions
<1> QED
  BY <1>3, <1>4, <1>5, <1>6, <1>7, <1>8, <1>9 DEF Next, Loop

\* A node executes a request at most once for each address tried, and has
\* executed it when it is answered with success.
THEOREM ExecutionsBounded == Spec => []ExecutedOncePerAddress
<1>1. Init => Executions
  <2> SUFFICES ASSUME Init
               PROVE  Executions
    OBVIOUS
  <2>1. DOMAIN log = {}
    BY DEF Init
  <2> QED
    BY <2>1 DEF Init, Executions
<1>2. Executions => ExecutedOncePerAddress
  BY DEF Executions, ExecutedOncePerAddress
<1> QED
  BY <1>1, <1>2, LoopInvInit, LoopInvStep, ExecutionsStep, PTL DEF Spec

\* Every step preserves that at most one request is under way.
LEMMA SingleStep ==
    ASSUME LoopInv, Single, [Next]_vars
    PROVE  Single'
<1>1. BatchEnded /\ AtStart
  BY DEF LoopInv
<1>2. ASSUME UNCHANGED <<how, active, satisfied>>
      PROVE  Single'
  BY <1>2 DEF Single
<1>3. CASE Run /\ UNCHANGED how
  <2>1. CASE how.one
    <3>1. PICK new \in GetNextList : active' = new
      BY <1>3, <2>1 DEF Run, GetInitialRequestList
    <3>2. \A r, s \in new : r = s
      BY <3>1, NextListSingle
    <3>3. ~satisfied'
      BY <1>1, <1>3 DEF Run, AtStart
    <3> QED
      BY <3>1, <3>2, <3>3 DEF Single
  <2>2. CASE ~how.one
    BY <1>3, <2>2 DEF Single
  <2> QED
    BY <2>1, <2>2
<1>4. CASE GetAllReadyResponses /\ UNCHANGED how
  BY <1>2, <1>4 DEF GetAllReadyResponses
<1>5. CASE EndBatch /\ UNCHANGED how
  BY <1>2, <1>5 DEF EndBatch
<1>6. CASE Stop /\ UNCHANGED how
  BY <1>2, <1>6 DEF Stop
<1>7. CASE UNCHANGED vars
  BY <1>2, <1>7 DEF vars, lvars
<1>8. ASSUME NEW r \in Requests, Transfer(r) \/ ExecuteLate(r)
      PROVE  Single'
  BY <1>2, <1>8 DEF Transfer, TransferOk, TransferFails, TransferTimesOut, End,
                    ExecuteLate, lvars
<1>9. ASSUME NEW r \in Requests, Yield(r), UNCHANGED how
      PROVE  Single'
  <2>1. r \in active
    BY <1>1, <1>9 DEF Yield, BatchEnded
  <2>2. CASE NextDest(r) /\ TriesNextDest(r)
    BY <1>2, <1>9, <2>1, <2>2 DEF NextDest, AddRequests
  <2>3. CASE \E new \in SUBSET waiting :
                 /\ AddRequests(active \ {r}, new)
                 /\ how.one => /\ \A s, t \in new : s = t
                               /\ satisfied' => new = {} \/ satisfied
    BY <1>9, <2>1, <2>3 DEF Single, AddRequests
  <2> QED
    BY <1>9, <2>2, <2>3, YieldSteps
<1> QED
  BY <1>3, <1>4, <1>5, <1>6, <1>7, <1>8, <1>9 DEF Next, Loop

\* With the one-by-one strategy at most one request is under way, and none
\* after the wanted answer.
THEOREM OneByOne == Spec => []OneAtATime
<1>1. Init => Single
  BY DEF Init, Single
<1>2. LoopInv /\ Single => OneAtATime
  <2> SUFFICES ASSUME LoopInv, Single, how.one
               PROVE  Cardinality(active) <= 1 /\ (satisfied => active = {})
    BY DEF OneAtATime
  <2>1. CASE active = {}
    BY <2>1, FS_EmptySet
  <2>2. CASE active # {}
    <3>1. PICK r \in active : active = {r}
      BY <2>2 DEF Single
    <3>2. Cardinality(active) = 1
      BY <3>1, FS_Singleton
    <3> QED
      BY <3>2 DEF Single
  <2> QED
    BY <2>1, <2>2
<1> QED
  BY <1>1, <1>2, LoopInvInit, LoopInvStep, SingleStep, PTL DEF Spec

=============================================================================
