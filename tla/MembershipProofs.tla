-------------------------- MODULE MembershipProofs --------------------------
(***************************************************************************)
(* Proofs about adding and removing nodes, for any number of hosts and      *)
(* commands.  SelfListed holds even when commands run together and requests *)
(* are executed late; the two promises about the order of the steps hold    *)
(* while commands do not overlap.                                          *)
(***************************************************************************)
EXTENDS MembershipProperties, SequenceTheorems, TLAPS

-----------------------------------------------------------------------------
(* The parts of the inductive invariants.                                  *)

\* A running command has something to do, and its new corosync.conf lists all
\* the nodes it is for.
CommandShape ==
    \A c \in Commands :
       Running(c) =>
          /\ cmd[c].plan # <<>>
          /\ cmd[c].online \subseteq cmd[c].conf
          /\ cmd[c].kind = "add" => cmd[c].targets \subseteq cmd[c].conf
          /\ Phase(c) = "distribute" => cmd[c].todo \subseteq cmd[c].conf

\* A file still on its way goes to a node that it lists.
LateListed == \A r \in late : r.what = "distribute" => r.host \in r.conf

ListInv == TypeOK /\ CommandShape /\ LateListed /\ SelfListed

-----------------------------------------------------------------------------
(* Lemmas about plans and commands.                                        *)

\* Both parts of a concatenation keep their elements.
LEMMA ConcatShape ==
    ASSUME NEW S, NEW T \in SUBSET S, NEW s \in Seq(S), NEW t \in Seq(T)
    PROVE  /\ s \o t \in Seq(S)
           /\ Len(s) \in Nat /\ Len(t) \in Nat
           /\ Len(s \o t) = Len(s) + Len(t)
           /\ \A i \in 1 .. Len(s) : (s \o t)[i] = s[i]
           /\ \A i \in Len(s) + 1 .. Len(s) + Len(t) : (s \o t)[i] \in T
OBVIOUS

\* The batches of every add_nodes; booth and files may miss a file.
Send(step, skipped) == IF step \in skipped THEN "partial" ELSE step
AddBase(skipped) ==
    <<"destroy", "known_hosts", "qdevice", "sbd", Send("booth", skipped),
      Send("files", skipped), "ssl", "distribute", "reload">>

\* The plan of add_nodes: the base, then what the options ask for.
LEMMA AddPlanShape ==
    ASSUME NEW options \in Options, NEW skipped
    PROVE  /\ AddPlan(options, skipped) \in Seq(Phases)
           /\ Len(AddPlan(options, skipped)) >= 9
           /\ \A i \in 1 .. 9 : AddPlan(options, skipped)[i] = AddBase(skipped)[i]
           /\ \A i \in 10 .. Len(AddPlan(options, skipped)) :
                 AddPlan(options, skipped)[i] \in {"enable", "start"}
<1> DEFINE more == {"enable", "start"}
           enable == IF options.enable THEN <<"enable">> ELSE <<>>
           start == IF options.start THEN <<"start">> ELSE <<>>
           base == AddBase(skipped)
<1>1. base \in Seq(Phases) /\ Len(base) = 9
  <2>1. Send("booth", skipped) \in Phases /\ Send("files", skipped) \in Phases
    BY DEF Send, Phases, PrepSteps
  <2> QED
    BY <2>1 DEF AddBase, Phases, PrepSteps
<1>2. <<"enable">> \in Seq(more) /\ <<"start">> \in Seq(more) /\ <<>> \in Seq(more)
  OBVIOUS
<1>3. AddPlan(options, skipped) = (base \o enable) \o start
  BY DEF AddPlan, AddBase, Send
<1>4. enable \in Seq(more) /\ start \in Seq(more)
  <2>1. CASE options.enable
    BY <1>2, <2>1, Zenon
  <2>2. CASE ~options.enable
    BY <1>2, <2>2, Zenon
  <2>3. enable \in Seq(more)
    BY <2>1, <2>2
  <2>4. start \in Seq(more)
    <3>1. CASE options.start
      BY <1>2, <3>1
    <3>2. CASE ~options.start
      BY <1>2, <3>2
    <3> QED
      BY <3>1, <3>2
  <2> QED
    BY <2>3, <2>4
<1>5. more \subseteq Phases
  BY DEF Phases
<1> HIDE DEF enable, start
<1> HIDE DEF more, base
<1> DEFINE front == base \o enable
<1>6. /\ front \in Seq(Phases)
      /\ Len(base) \in Nat /\ Len(enable) \in Nat
      /\ Len(front) = Len(base) + Len(enable)
      /\ \A i \in 1 .. Len(base) : front[i] = base[i]
      /\ \A i \in Len(base) + 1 .. Len(base) + Len(enable) : front[i] \in more
  <2>1. base \in Seq(Phases)
    BY <1>1
  <2> QED
    BY <1>4, <1>5, <2>1, ConcatShape
<1> HIDE DEF front
<1>9. /\ front \o start \in Seq(Phases)
      /\ Len(front) \in Nat /\ Len(start) \in Nat
      /\ Len(front \o start) = Len(front) + Len(start)
      /\ \A i \in 1 .. Len(front) : (front \o start)[i] = front[i]
      /\ \A i \in Len(front) + 1 .. Len(front) + Len(start) : (front \o start)[i] \in more
  <2>1. front \in Seq(Phases)
    BY <1>6
  <2> QED
    BY <1>4, <1>5, <2>1, ConcatShape
<1>10. /\ \A i \in 1 .. 9 : (front \o start)[i] = base[i]
       /\ \A i \in 10 .. Len(front \o start) : (front \o start)[i] \in more
       /\ Len(front \o start) >= 9
  BY <1>1, <1>6, <1>9
<1> QED
  BY <1>3, <1>9, <1>10 DEF front, more, base

\* The plan of remove_nodes.
LEMMA RemovePlanShape ==
    /\ RemovePlan \in Seq(Phases)
    /\ Len(RemovePlan) = 4
    /\ RemovePlan[1] = "destroy" /\ RemovePlan[2] = "distribute"
    /\ RemovePlan[3] = "reload" /\ RemovePlan[4] = "cib"
BY DEF RemovePlan, Phases, PrepSteps

\* Dropping the first of several steps.
LEMMA TailPlan ==
    ASSUME NEW plan \in Seq(Phases), plan # <<>>
    PROVE  /\ Head(plan) \in Phases
           /\ Tail(plan) \in Seq(Phases)
           /\ Tail(plan) # <<>> => Head(Tail(plan)) \in Phases
OBVIOUS

-----------------------------------------------------------------------------
(* What a step does to the commands.                                       *)

\* A request of command c is answered: its batch gets smaller, and it may note
\* a failure, a reload or an unreachable host.
Narrows(c) ==
    /\ cmd' \in [Commands -> Command]
    /\ \A d \in Commands \ {c} : cmd'[d] = cmd[d]
    /\ cmd'[c].kind = cmd[c].kind
    /\ cmd'[c].plan = cmd[c].plan
    /\ cmd'[c].targets = cmd[c].targets
    /\ cmd'[c].online = cmd[c].online
    /\ cmd'[c].conf = cmd[c].conf
    /\ cmd'[c].skipped = cmd[c].skipped
    /\ cmd'[c].agreed = cmd[c].agreed
    /\ cmd'[c].result = cmd[c].result
    /\ cmd'[c].todo \subseteq cmd[c].todo

\* Fail answers a request.
LEMMA FailNarrows ==
    ASSUME TypeOK, NEW c \in Commands, NEW h \in cmd[c].todo, Fail(c, h)
    PROVE  /\ Narrows(c)
           /\ cmd'[c].todo = cmd[c].todo \ {h}
           /\ cmd'[c].failures = (cmd[c].failures \/ Fatal(c))
           /\ cmd'[c].reloaded = cmd[c].reloaded
<1>1. cmd \in [Commands -> Command] /\ cmd[c] \in Command /\ h \in Hosts
  BY DEF TypeOK, Command
<1> DEFINE w == IF Fatal(c) THEN cmd[c].warned ELSE cmd[c].warned \cup {h}
           f == cmd[c].failures \/ Fatal(c)
           new == [cmd[c] EXCEPT !.todo = @ \ {h}, !.failures = f, !.warned = w]
<1>2. w \in SUBSET Hosts /\ f \in BOOLEAN
  BY <1>1 DEF Command, Fatal
<1>3. cmd' = [cmd EXCEPT ![c] = new]
  BY <1>1 DEF Fail
<1> HIDE DEF w, f
<1>4. /\ new \in Command
      /\ new.kind = cmd[c].kind /\ new.plan = cmd[c].plan
      /\ new.targets = cmd[c].targets /\ new.online = cmd[c].online
      /\ new.conf = cmd[c].conf /\ new.agreed = cmd[c].agreed
      /\ new.skipped = cmd[c].skipped
      /\ new.result = cmd[c].result /\ new.todo = cmd[c].todo \ {h}
      /\ new.failures = f /\ new.reloaded = cmd[c].reloaded
  BY <1>1, <1>2 DEF Command
<1> HIDE DEF new
<1>5. /\ cmd' \in [Commands -> Command] /\ cmd'[c] = new
      /\ \A d \in Commands \ {c} : cmd'[d] = cmd[d]
  BY <1>1, <1>3, <1>4
<1> QED
  BY <1>4, <1>5 DEF Narrows, f

\* An answer takes the host out of the batch, with what a reload notes.
LEMMA AnswerNarrows ==
    ASSUME TypeOK, NEW c \in Commands, NEW todo \in SUBSET cmd[c].todo,
           NEW reloaded \in BOOLEAN,
           cmd' = [cmd EXCEPT ![c].todo = todo, ![c].reloaded = reloaded]
    PROVE  /\ Narrows(c)
           /\ cmd'[c].todo = todo
           /\ cmd'[c].failures = cmd[c].failures
           /\ cmd'[c].reloaded = reloaded
<1>1. cmd \in [Commands -> Command] /\ cmd[c] \in Command /\ todo \in SUBSET Hosts
  BY DEF TypeOK, Command
<1> DEFINE new == [cmd[c] EXCEPT !.todo = todo, !.reloaded = reloaded]
<1>3. cmd' = [cmd EXCEPT ![c] = new]
  BY <1>1
<1>4. /\ new \in Command
      /\ new.kind = cmd[c].kind /\ new.plan = cmd[c].plan
      /\ new.targets = cmd[c].targets /\ new.online = cmd[c].online
      /\ new.conf = cmd[c].conf /\ new.agreed = cmd[c].agreed
      /\ new.skipped = cmd[c].skipped
      /\ new.result = cmd[c].result /\ new.todo = todo
      /\ new.failures = cmd[c].failures /\ new.reloaded = reloaded
  BY <1>1 DEF Command
<1> HIDE DEF new
<1>5. /\ cmd' \in [Commands -> Command] /\ cmd'[c] = new
      /\ \A d \in Commands \ {c} : cmd'[d] = cmd[d]
  BY <1>1, <1>3, <1>4
<1> QED
  BY <1>4, <1>5 DEF Narrows

\* The same without a reload.
LEMMA PlainAnswerNarrows ==
    ASSUME TypeOK, NEW c \in Commands, NEW h \in Hosts,
           cmd' = [cmd EXCEPT ![c].todo = @ \ {h}]
    PROVE  /\ Narrows(c)
           /\ cmd'[c].todo = cmd[c].todo \ {h}
           /\ cmd'[c].failures = cmd[c].failures
           /\ cmd'[c].reloaded = cmd[c].reloaded
<1>1. cmd \in [Commands -> Command] /\ cmd[c] \in Command
  BY DEF TypeOK, Command
<1> DEFINE new == [cmd[c] EXCEPT !.todo = @ \ {h}]
<1>3. cmd' = [cmd EXCEPT ![c] = new]
  BY <1>1
<1>4. /\ new \in Command
      /\ new.kind = cmd[c].kind /\ new.plan = cmd[c].plan
      /\ new.targets = cmd[c].targets /\ new.online = cmd[c].online
      /\ new.conf = cmd[c].conf /\ new.agreed = cmd[c].agreed
      /\ new.skipped = cmd[c].skipped
      /\ new.result = cmd[c].result /\ new.todo = cmd[c].todo \ {h}
      /\ new.failures = cmd[c].failures /\ new.reloaded = cmd[c].reloaded
  BY <1>1 DEF Command
<1> HIDE DEF new
<1>5. /\ cmd' \in [Commands -> Command] /\ cmd'[c] = new
      /\ \A d \in Commands \ {c} : cmd'[d] = cmd[d]
  BY <1>1, <1>3, <1>4
<1> QED
  BY <1>4, <1>5 DEF Narrows

\* Every request of a command narrows it, and does to the hosts either nothing
\* or what the phase asks for.
LEMMA RequestStep ==
    ASSUME TypeOK, NEW c \in Commands, NEW h \in Hosts, Request(c, h)
    PROVE  /\ Running(c) /\ h \in cmd[c].todo
           /\ Narrows(c)
           /\ Execute(Phase(c), h, cmd[c].conf) \/ UNCHANGED hosts
           /\ \/ late' = late
              \/ late' = late \cup
                    {[what |-> Phase(c), host |-> h, conf |-> cmd[c].conf]}
           /\ UNCHANGED <<belated, overlapped>>
<1>0. Running(c) /\ h \in cmd[c].todo
  BY DEF Request, Answer, AnswerReload, Refuse, LoseAnswer, TimeOut, Asked
<1>1. CASE Answer(c, h)
  BY <1>0, <1>1, PlainAnswerNarrows DEF Answer
<1>2. CASE AnswerReload(c, h)
  <2>1. CASE cmd' = [cmd EXCEPT ![c].todo = {}, ![c].reloaded = TRUE]
    BY <1>0, <1>2, <2>1, AnswerNarrows DEF AnswerReload, Execute
  <2>2. CASE cmd' = [cmd EXCEPT ![c].todo = @ \ {h}] /\ UNCHANGED hosts
    BY <1>0, <1>2, <2>2, PlainAnswerNarrows DEF AnswerReload
  <2> QED
    BY <1>2, <2>1, <2>2 DEF AnswerReload
<1>3. CASE Refuse(c, h)
  BY <1>0, <1>3, FailNarrows DEF Refuse
<1>4. CASE LoseAnswer(c, h)
  BY <1>0, <1>4, FailNarrows DEF LoseAnswer
<1>5. CASE TimeOut(c, h)
  BY <1>0, <1>5, FailNarrows DEF TimeOut
<1> QED
  BY <1>1, <1>2, <1>3, <1>4, <1>5 DEF Request

\* What is left of a command that has ended.
LEMMA IdleCommand ==
    ASSUME NEW result \in {"free", "ended"}
    PROVE  Idle(result) \in Command /\ Idle(result).result = result
<1>1. <<>> \in Seq(Phases)
  OBVIOUS
<1> QED
  BY <1>1 DEF Idle, Command

\* The next batch, or the end of the command.
LEMMA EndPhaseStep ==
    ASSUME TypeOK, CommandShape, NEW c \in Commands, EndPhase(c)
    PROVE  /\ cmd' \in [Commands -> Command]
           /\ \A d \in Commands \ {c} : cmd'[d] = cmd[d]
           /\ cmd'[c].result = "running" =>
                 /\ cmd'[c].kind = cmd[c].kind
                 /\ cmd'[c].targets = cmd[c].targets
                 /\ cmd'[c].online = cmd[c].online
                 /\ cmd'[c].conf = cmd[c].conf
                 /\ cmd'[c].skipped = cmd[c].skipped
                 /\ cmd'[c].agreed = cmd[c].agreed
                 /\ cmd'[c].reloaded = cmd[c].reloaded
                 /\ cmd'[c].failures = FALSE
                 /\ ~HasErrors(c)
                 /\ cmd'[c].plan = Tail(cmd[c].plan)
                 /\ cmd'[c].plan # <<>>
                 /\ cmd'[c].todo = Receivers(c, Head(cmd'[c].plan))
<1>1. cmd \in [Commands -> Command] /\ cmd[c] \in Command
  BY DEF TypeOK
<1>2. ASSUME NEW result \in {"free", "ended"},
             cmd' = [cmd EXCEPT ![c] = Idle(result)]
      PROVE  /\ cmd' \in [Commands -> Command]
             /\ \A d \in Commands \ {c} : cmd'[d] = cmd[d]
             /\ cmd'[c].result # "running"
  <2>1. Idle(result) \in Command /\ Idle(result).result = result
    BY IdleCommand
  <2> QED
    BY <1>1, <1>2, <2>1
<1> DEFINE rest == Tail(cmd[c].plan)
           todo == Receivers(c, Head(rest))
           new == [cmd[c] EXCEPT !.plan = rest, !.failures = FALSE, !.todo = todo]
<1>3. CASE ~HasErrors(c) /\ rest # <<>> /\ cmd' = [cmd EXCEPT ![c] = new]
  <2>1. cmd[c].plan \in Seq(Phases) /\ cmd[c].plan # <<>>
    BY <1>1 DEF EndPhase, CommandShape, Command
  <2>2. rest \in Seq(Phases)
    BY <2>1
  <2>3. todo \in SUBSET Hosts
    BY <1>1 DEF Receivers, Command
  <2> HIDE DEF rest, todo
  <2>4. /\ new \in Command
        /\ new.kind = cmd[c].kind /\ new.plan = rest
        /\ new.targets = cmd[c].targets /\ new.online = cmd[c].online
        /\ new.conf = cmd[c].conf /\ new.agreed = cmd[c].agreed
        /\ new.skipped = cmd[c].skipped /\ new.todo = todo
        /\ new.failures = FALSE /\ new.reloaded = cmd[c].reloaded
    BY <1>1, <2>2, <2>3 DEF Command
  <2> HIDE DEF new
  <2>5. /\ cmd' \in [Commands -> Command] /\ cmd'[c] = new
        /\ \A d \in Commands \ {c} : cmd'[d] = cmd[d]
    BY <1>1, <1>3, <2>4
  <2> QED
    BY <1>3, <2>4, <2>5 DEF rest, todo
<1>4. \/ cmd' = [cmd EXCEPT ![c] = Idle("ended")]
      \/ ~HasErrors(c) /\ rest # <<>> /\ cmd' = [cmd EXCEPT ![c] = new]
  BY <1>1 DEF EndPhase
<1> HIDE DEF new
<1> QED
  BY <1>2, <1>3, <1>4

\* A killed command does not run any more.
LEMMA KillStep ==
    ASSUME TypeOK, NEW c \in Commands, Kill(c)
    PROVE  /\ cmd' \in [Commands -> Command]
           /\ \A d \in Commands \ {c} : cmd'[d] = cmd[d]
           /\ cmd'[c].result = "ended"
<1>1. cmd \in [Commands -> Command]
  BY DEF TypeOK
<1>2. cmd' = [cmd EXCEPT ![c] = Idle("ended")]
  BY DEF Kill
<1>3. Idle("ended") \in Command /\ Idle("ended").result = "ended"
  BY IdleCommand
<1> QED
  BY <1>1, <1>2, <1>3

\* The corosync.conf a command began with.
OldConf(c) ==
    IF cmd[c].kind = "add" THEN cmd[c].conf \ cmd[c].targets
                           ELSE cmd[c].conf \cup cmd[c].targets

\* A command that begins has read the file of a host.
LEMMA BeginStep ==
    ASSUME TypeOK, NEW c \in Commands, BeginCommand(c)
    PROVE  /\ cmd' \in [Commands -> Command]
           /\ \A d \in Commands \ {c} : cmd'[d] = cmd[d]
           /\ cmd'[c].result = "running"
           /\ cmd'[c].plan # <<>> /\ cmd'[c].plan[1] = "destroy"
           /\ \/ /\ cmd'[c].kind = "add"
                 /\ \E options \in Options :
                       cmd'[c].plan = AddPlan(options, cmd'[c].skipped)
                 /\ cmd'[c].targets \subseteq cmd'[c].conf
              \/ /\ cmd'[c].kind = "remove"
                 /\ cmd'[c].plan = RemovePlan
                 /\ cmd'[c].targets \cap cmd'[c].conf = {}
           /\ cmd'[c].online \subseteq cmd'[c].conf \ cmd'[c].targets
           /\ cmd'[c].todo = cmd'[c].targets
           /\ ~cmd'[c].failures /\ ~cmd'[c].reloaded
           /\ overlapped' = (overlapped \/ \E d \in Commands : Running(d))
           /\ UNCHANGED <<hosts, late, belated>>
           /\ cmd'[c].agreed =>
                 \A h \in cmd'[c].online :
                    file[h] = OldConf(c)' /\ loaded[h] \in {{}, OldConf(c)'}
<1>1. PICK at \in Hosts, nodes \in SUBSET Hosts, skip \in BOOLEAN :
         \/ \E force \in BOOLEAN, options \in Options, skipped \in Missing :
               StartAdd(c, at, nodes, skip, force, options, skipped)
         \/ StartRemove(c, at, nodes, skip)
  BY DEF BeginCommand
<1>2. cmd \in [Commands -> Command] /\ file[at] \in SUBSET Hosts
  BY DEF TypeOK
<1>3. ASSUME NEW kind \in {"add", "remove"}, NEW plan \in Seq(Phases),
             NEW online \in SUBSET Hosts, NEW conf \in SUBSET Hosts,
             NEW missing \in SUBSET FileSteps,
             Start(c, at, kind, plan, nodes, online, conf, missing)
      PROVE  /\ cmd' \in [Commands -> Command]
             /\ \A d \in Commands \ {c} : cmd'[d] = cmd[d]
             /\ cmd'[c] = [kind |-> kind, plan |-> plan, targets |-> nodes,
                  online |-> online, conf |-> conf, todo |-> nodes,
                  failures |-> FALSE, reloaded |-> FALSE, warned |-> {},
                  skipped |-> missing, agreed |-> Agree(online, at), result |-> "running"]
             /\ overlapped' = (overlapped \/ \E d \in Commands : Running(d))
             /\ UNCHANGED <<hosts, late, belated>>
  <2> DEFINE agreed == Agree(online, at)
             new == [kind |-> kind, plan |-> plan, targets |-> nodes,
                  online |-> online, conf |-> conf, todo |-> nodes,
                  failures |-> FALSE, reloaded |-> FALSE, warned |-> {},
                  skipped |-> missing, agreed |-> agreed, result |-> "running"]
  <2>1. agreed \in BOOLEAN
    BY DEF Agree
  <2>2. cmd' = [cmd EXCEPT ![c] = new]
    BY <1>3 DEF Start
  <2> HIDE DEF agreed
  <2>3. new \in Command
    BY <2>1 DEF Command
  <2>4. cmd'[c] = new
    BY <1>2, <2>2
  <2>5. cmd' \in [Commands -> Command] /\ \A d \in Commands \ {c} : cmd'[d] = cmd[d]
    <3> HIDE DEF new
    <3> QED
      BY <1>2, <2>2, <2>3
  <2> QED
    BY <1>3, <2>4, <2>5 DEF Start, agreed
<1>4. CASE StartRemove(c, at, nodes, skip)
  <2>1. PICK online \in Online(at, skip) :
           Start(c, at, "remove", RemovePlan, nodes, online \ nodes, file[at] \ nodes, {})
    BY <1>4 DEF StartRemove
  <2>2. nodes \subseteq file[at] /\ online \subseteq file[at]
    BY <1>4, <2>1 DEF StartRemove, Online
  <2>3. /\ cmd' \in [Commands -> Command]
        /\ \A d \in Commands \ {c} : cmd'[d] = cmd[d]
        /\ cmd'[c] = [kind |-> "remove", plan |-> RemovePlan, targets |-> nodes,
             online |-> online \ nodes, conf |-> file[at] \ nodes, todo |-> nodes,
             failures |-> FALSE, reloaded |-> FALSE, warned |-> {},
             skipped |-> {}, agreed |-> Agree(online \ nodes, at), result |-> "running"]
        /\ overlapped' = (overlapped \/ \E d \in Commands : Running(d))
        /\ UNCHANGED <<hosts, late, belated>>
    <3>1. /\ RemovePlan \in Seq(Phases)
          /\ online \ nodes \in SUBSET Hosts /\ file[at] \ nodes \in SUBSET Hosts
      BY <1>2, <2>2, RemovePlanShape
    <3>2. "remove" \in {"add", "remove"} /\ {} \in SUBSET FileSteps
      OBVIOUS
    <3> QED
      BY <1>3, <2>1, <3>1, <3>2, Zenon
  <2>4. RemovePlan # <<>> /\ RemovePlan[1] = "destroy"
    BY RemovePlanShape
  <2>5. (file[at] \ nodes) \cup nodes = file[at]
    BY <2>2
  <2>6. cmd'[c].agreed => \A h \in cmd'[c].online :
                             file[h] = file[at] /\ loaded[h] \in {{}, file[at]}
    BY <2>3 DEF Agree
  <2>7. /\ cmd'[c].kind = "remove" /\ cmd'[c].plan = RemovePlan
        /\ cmd'[c].targets = nodes /\ cmd'[c].todo = nodes
        /\ cmd'[c].online = online \ nodes /\ cmd'[c].conf = file[at] \ nodes
        /\ ~cmd'[c].failures /\ ~cmd'[c].reloaded /\ cmd'[c].result = "running"
    BY <2>3
  <2>8. OldConf(c)' = file[at]
    BY <2>5, <2>7 DEF OldConf
  <2>9. /\ cmd' \in [Commands -> Command]
        /\ \A d \in Commands \ {c} : cmd'[d] = cmd[d]
        /\ overlapped' = (overlapped \/ \E d \in Commands : Running(d))
        /\ UNCHANGED <<hosts, late, belated>>
    BY <2>3
  <2>10. /\ cmd'[c].online \subseteq cmd'[c].conf \ cmd'[c].targets
         /\ cmd'[c].kind = "add" => cmd'[c].targets \subseteq cmd'[c].conf
         /\ cmd'[c].kind = "remove" => cmd'[c].targets \cap cmd'[c].conf = {}
    BY <2>2, <2>7
  <2>11. cmd'[c].agreed => \A h \in cmd'[c].online :
                             file[h] = OldConf(c)' /\ loaded[h] \in {{}, OldConf(c)'}
    BY <2>6, <2>8
  <2>12. cmd'[c].plan # <<>> /\ cmd'[c].plan[1] = "destroy"
    BY <2>4, <2>7
  <2> QED
    BY <2>7, <2>9, <2>10, <2>11, <2>12, Zenon
<1>5. CASE \E force \in BOOLEAN, options \in Options, skipped \in Missing :
            StartAdd(c, at, nodes, skip, force, options, skipped)
  <2>0. PICK force \in BOOLEAN, options \in Options, skipped \in Missing :
           StartAdd(c, at, nodes, skip, force, options, skipped)
    BY <1>5
  <2>1. PICK online \in Online(at, skip) :
           Start(c, at, "add", AddPlan(options, skipped), nodes, online,
                 file[at] \cup nodes, skipped)
    BY <2>0 DEF StartAdd
  <2>2. nodes \cap file[at] = {} /\ online \subseteq file[at]
    BY <2>0, <2>1 DEF StartAdd, Online
  <2>3. /\ cmd' \in [Commands -> Command]
        /\ \A d \in Commands \ {c} : cmd'[d] = cmd[d]
        /\ cmd'[c] = [kind |-> "add", plan |-> AddPlan(options, skipped), targets |-> nodes,
             online |-> online, conf |-> file[at] \cup nodes, todo |-> nodes,
             failures |-> FALSE, reloaded |-> FALSE, warned |-> {},
             skipped |-> skipped, agreed |-> Agree(online, at), result |-> "running"]
        /\ overlapped' = (overlapped \/ \E d \in Commands : Running(d))
        /\ UNCHANGED <<hosts, late, belated>>
    <3>1. /\ AddPlan(options, skipped) \in Seq(Phases)
          /\ online \in SUBSET Hosts /\ file[at] \cup nodes \in SUBSET Hosts
      BY <1>2, <2>2, AddPlanShape
    <3>2. "add" \in {"add", "remove"} /\ skipped \in SUBSET FileSteps
      BY MembershipAssumption DEF FileSteps
    <3> QED
      BY <1>3, <2>1, <3>1, <3>2, Zenon
  <2>4. AddPlan(options, skipped) # <<>> /\ AddPlan(options, skipped)[1] = "destroy"
    BY AddPlanShape DEF AddBase
  <2>5. (file[at] \cup nodes) \ nodes = file[at]
    BY <2>2
  <2>6. cmd'[c].agreed => \A h \in cmd'[c].online :
                             file[h] = file[at] /\ loaded[h] \in {{}, file[at]}
    BY <2>3 DEF Agree
  <2>7. /\ cmd'[c].kind = "add" /\ cmd'[c].plan = AddPlan(options, skipped)
        /\ cmd'[c].skipped = skipped /\ cmd'[c].targets = nodes /\ cmd'[c].todo = nodes
        /\ cmd'[c].online = online /\ cmd'[c].conf = file[at] \cup nodes
        /\ ~cmd'[c].failures /\ ~cmd'[c].reloaded /\ cmd'[c].result = "running"
    BY <2>3
  <2>8. OldConf(c)' = file[at]
    BY <2>5, <2>7 DEF OldConf
  <2>9. /\ cmd' \in [Commands -> Command]
        /\ \A d \in Commands \ {c} : cmd'[d] = cmd[d]
        /\ overlapped' = (overlapped \/ \E d \in Commands : Running(d))
        /\ UNCHANGED <<hosts, late, belated>>
    BY <2>3
  <2>10. /\ cmd'[c].online \subseteq cmd'[c].conf \ cmd'[c].targets
         /\ cmd'[c].kind = "add" => cmd'[c].targets \subseteq cmd'[c].conf
         /\ cmd'[c].kind = "remove" => cmd'[c].targets \cap cmd'[c].conf = {}
    BY <2>2, <2>7
  <2>11. cmd'[c].agreed => \A h \in cmd'[c].online :
                             file[h] = OldConf(c)' /\ loaded[h] \in {{}, OldConf(c)'}
    BY <2>6, <2>8
  <2>12. cmd'[c].plan # <<>> /\ cmd'[c].plan[1] = "destroy"
    BY <2>4, <2>7
  <2>13. \E o \in Options : cmd'[c].plan = AddPlan(o, cmd'[c].skipped)
    BY <2>7
  <2> QED
    BY <2>7, <2>9, <2>10, <2>11, <2>12, <2>13, Zenon
<1> QED
  BY <1>1, <1>4, <1>5

-----------------------------------------------------------------------------
(* Every host is listed in its own file.                                   *)

\* What a host does on a request keeps the types, and SelfListed if the file it
\* is sent lists it.
LEMMA ExecuteListed ==
    ASSUME TypeOK, SelfListed, NEW what \in Phases, NEW h \in Hosts,
           NEW conf \in SUBSET Hosts, Execute(what, h, conf) \/ UNCHANGED hosts,
           what = "distribute" => h \in conf
    PROVE  /\ file' \in [Hosts -> SUBSET Hosts]
           /\ loaded' \in [Hosts -> SUBSET Hosts]
           /\ prep' \in [Hosts -> SUBSET Phases]
           /\ unreloaded' \in SUBSET Hosts
           /\ SelfListed'
<1>1. /\ file \in [Hosts -> SUBSET Hosts]
      /\ loaded \in [Hosts -> SUBSET Hosts]
      /\ prep \in [Hosts -> SUBSET Phases]
      /\ unreloaded \in SUBSET Hosts
  BY DEF TypeOK
<1>2. CASE UNCHANGED hosts
  BY <1>1, <1>2 DEF SelfListed, hosts
<1>3. CASE what = "destroy" /\ Destroy(h)
  <2>1. /\ file' = [file EXCEPT ![h] = {}] /\ loaded' = [loaded EXCEPT ![h] = {}]
        /\ prep' = [prep EXCEPT ![h] = prep[h] \ Undone]
        /\ unreloaded' = unreloaded \ {h}
    BY <1>1, <1>3 DEF Destroy
  <2> QED
    BY <1>1, <2>1 DEF SelfListed
<1>4. CASE what = "distribute" /\ SetCorosyncConf(h, conf)
  <2>1. /\ file' = [file EXCEPT ![h] = conf] /\ loaded' = loaded /\ prep' = prep
        /\ unreloaded' = unreloaded /\ h \in conf
    BY <1>4 DEF SetCorosyncConf
  <2> QED
    BY <1>1, <2>1 DEF SelfListed
<1>5. CASE \E failed \in SUBSET Known(h) : ReloadCorosyncConf(h, failed)
  <2>0. PICK failed \in SUBSET Known(h) : ReloadCorosyncConf(h, failed)
    BY <1>5
  <2>1. /\ file' = file /\ prep' = prep
        /\ loaded' = [k \in Hosts |->
                        IF k \in Known(h) \ failed THEN file[k] ELSE loaded[k]]
        /\ unreloaded' = (unreloaded \ Known(h)) \cup failed
    BY <2>0 DEF ReloadCorosyncConf
  <2>2. Known(h) \subseteq Hosts
    BY <1>1 DEF Known
  <2> QED
    BY <1>1, <2>1, <2>2 DEF SelfListed
<1>6. CASE StartCluster(h)
  <2>1. /\ file' = file /\ prep' = prep
        /\ loaded' = [loaded EXCEPT ![h] = IF loaded[h] = {} THEN file[h] ELSE loaded[h]]
        /\ unreloaded' = unreloaded
    BY <1>1, <1>6 DEF StartCluster
  <2> QED
    BY <1>1, <2>1 DEF SelfListed
<1>7. CASE Prepare(h, what)
  <2>1. /\ file' = file /\ loaded' = loaded /\ unreloaded' = unreloaded
        /\ prep' = [prep EXCEPT ![h] = prep[h] \cup {what}]
    BY <1>1, <1>7 DEF Prepare
  <2> QED
    BY <1>1, <2>1 DEF SelfListed
<1> QED
  BY <1>2, <1>3, <1>4, <1>5, <1>6, <1>7 DEF Execute

\* The cluster that pcs has set up is such a state.
LEMMA ListInvInit == Init => ListInv
<1> SUFFICES ASSUME Init
             PROVE  ListInv
  OBVIOUS
<1>1. Members \subseteq Hosts
  BY MembershipAssumption
<1>2. /\ file \in [Hosts -> SUBSET Hosts] /\ loaded \in [Hosts -> SUBSET Hosts]
      /\ prep \in [Hosts -> SUBSET Phases]
  BY <1>1 DEF Init, Phases
<1>3. cmd \in [Commands -> Command]
  BY IdleCommand DEF Init
<1>4. TypeOK
  BY <1>2, <1>3 DEF TypeOK, Init
<1>5. CommandShape /\ LateListed
  <2>1. \A c \in Commands : ~Running(c)
    BY IdleCommand DEF Init, Running
  <2> QED
    BY <2>1 DEF Init, CommandShape, LateListed
<1>6. SelfListed
  BY <1>1 DEF Init, SelfListed
<1> QED
  BY <1>4, <1>5, <1>6 DEF ListInv

\* Every step preserves it.
LEMMA ListInvStep == ListInv /\ [Next]_vars => ListInv'
<1> SUFFICES ASSUME ListInv, [Next]_vars
             PROVE  ListInv'
  OBVIOUS
<1>0. TypeOK /\ CommandShape /\ LateListed /\ SelfListed
  BY DEF ListInv
<1>1. ASSUME NEW c \in Commands, BeginCommand(c)
      PROVE  ListInv'
  <2>1. /\ cmd' \in [Commands -> Command]
        /\ \A d \in Commands \ {c} : cmd'[d] = cmd[d]
        /\ cmd'[c].plan # <<>> /\ cmd'[c].plan[1] = "destroy"
        /\ cmd'[c].kind = "add" => cmd'[c].targets \subseteq cmd'[c].conf
        /\ cmd'[c].online \subseteq cmd'[c].conf
        /\ overlapped' = (overlapped \/ \E d \in Commands : Running(d))
        /\ UNCHANGED <<hosts, late, belated>>
    BY <1>0, <1>1, BeginStep
  <2>2. TypeOK'
    <3>1. overlapped' \in BOOLEAN
      BY <1>0, <2>1 DEF TypeOK
    <3> QED
      BY <1>0, <2>1, <3>1 DEF TypeOK, hosts
  <2>3. LateListed' /\ SelfListed'
    BY <1>0, <2>1 DEF LateListed, SelfListed, hosts
  <2>4. CommandShape'
    <3>1. cmd'[c].plan \in Seq(Phases)
      BY <2>1 DEF Command
    <3>2. Head(cmd'[c].plan) = "destroy"
      BY <2>1, <3>1
    <3> QED
      BY <1>0, <2>1, <3>2 DEF CommandShape, Running, Phase
  <2> QED
    BY <2>2, <2>3, <2>4 DEF ListInv
<1>2. ASSUME NEW c \in Commands, EndPhase(c)
      PROVE  ListInv'
  <2>1. UNCHANGED <<hosts, late, belated, overlapped>> /\ cmd' \in [Commands -> Command]
    BY <1>0, <1>2, EndPhaseStep DEF EndPhase
  <2>2. TypeOK' /\ LateListed' /\ SelfListed'
    BY <1>0, <2>1 DEF TypeOK, LateListed, SelfListed, hosts
  <2>3. /\ \A d \in Commands \ {c} : cmd'[d] = cmd[d]
        /\ cmd'[c].result = "running" =>
              /\ cmd'[c].kind = cmd[c].kind /\ cmd'[c].targets = cmd[c].targets
              /\ cmd'[c].online = cmd[c].online /\ cmd'[c].conf = cmd[c].conf
              /\ cmd'[c].plan # <<>>
              /\ cmd'[c].todo = Receivers(c, Head(cmd'[c].plan))
    BY <1>0, <1>2, EndPhaseStep
  <2>4. /\ cmd[c].online \subseteq cmd[c].conf
        /\ cmd[c].kind = "add" => cmd[c].targets \subseteq cmd[c].conf
    BY <1>0, <1>2 DEF CommandShape, EndPhase
  <2>5. Receivers(c, "distribute") \subseteq cmd[c].conf
    BY <2>4 DEF Receivers
  <2>6. CommandShape'
    BY <1>0, <2>3, <2>4, <2>5 DEF CommandShape, Running, Phase
  <2> QED
    BY <2>2, <2>6 DEF ListInv
<1>3. ASSUME NEW c \in Commands, Kill(c)
      PROVE  ListInv'
  <2>1. /\ UNCHANGED <<hosts, late, belated, overlapped>>
        /\ cmd' \in [Commands -> Command]
        /\ \A d \in Commands \ {c} : cmd'[d] = cmd[d]
        /\ cmd'[c].result = "ended"
    BY <1>0, <1>3, KillStep DEF Kill
  <2>2. TypeOK' /\ LateListed' /\ SelfListed'
    BY <1>0, <2>1 DEF TypeOK, LateListed, SelfListed, hosts
  <2>3. CommandShape'
    BY <1>0, <2>1 DEF CommandShape, Running, Phase
  <2> QED
    BY <2>2, <2>3 DEF ListInv
<1>4. ASSUME NEW c \in Commands, NEW h \in Hosts, Request(c, h)
      PROVE  ListInv'
  <2>1. /\ Running(c) /\ h \in cmd[c].todo
        /\ Narrows(c)
        /\ Execute(Phase(c), h, cmd[c].conf) \/ UNCHANGED hosts
        /\ \/ late' = late
           \/ late' = late \cup {[what |-> Phase(c), host |-> h, conf |-> cmd[c].conf]}
        /\ UNCHANGED <<belated, overlapped>>
    BY <1>0, <1>4, RequestStep
  <2>2. /\ Phase(c) \in Phases /\ cmd[c].conf \in SUBSET Hosts
        /\ Phase(c) = "distribute" => h \in cmd[c].conf
    <3>1. cmd[c].plan \in Seq(Phases) /\ cmd[c].plan # <<>> /\ cmd[c].conf \in SUBSET Hosts
      BY <1>0, <2>1 DEF TypeOK, Command, CommandShape
    <3> QED
      BY <1>0, <2>1, <3>1, TailPlan DEF CommandShape, Phase
  <2>3. /\ file' \in [Hosts -> SUBSET Hosts] /\ loaded' \in [Hosts -> SUBSET Hosts]
        /\ prep' \in [Hosts -> SUBSET Phases] /\ unreloaded' \in SUBSET Hosts
        /\ SelfListed'
    BY <1>0, <2>1, <2>2, ExecuteListed
  <2>4. late' \in SUBSET Late /\ LateListed'
    BY <1>0, <2>1, <2>2 DEF TypeOK, Late, LateListed
  <2>5. TypeOK'
    BY <1>0, <2>1, <2>3, <2>4 DEF TypeOK, Narrows
  <2>6. CommandShape'
    BY <1>0, <2>1 DEF CommandShape, Running, Phase, Narrows
  <2> QED
    BY <2>3, <2>4, <2>5, <2>6 DEF ListInv
<1>5. ASSUME NEW r \in late, ExecuteLate(r)
      PROVE  ListInv'
  <2>1. /\ r.what \in Phases /\ r.host \in Hosts /\ r.conf \in SUBSET Hosts
        /\ r.what = "distribute" => r.host \in r.conf
    BY <1>0, <1>5 DEF TypeOK, Late, LateListed
  <2>2. /\ Execute(r.what, r.host, r.conf) /\ late' = late \ {r}
        /\ belated' = belated \cup {r.host} /\ cmd' = cmd /\ overlapped' = overlapped
    BY <1>5 DEF ExecuteLate
  <2>3. /\ file' \in [Hosts -> SUBSET Hosts] /\ loaded' \in [Hosts -> SUBSET Hosts]
        /\ prep' \in [Hosts -> SUBSET Phases] /\ unreloaded' \in SUBSET Hosts
        /\ SelfListed'
    BY <1>0, <2>1, <2>2, ExecuteListed
  <2>4. TypeOK'
    BY <1>0, <2>1, <2>2, <2>3 DEF TypeOK
  <2>5. CommandShape' /\ LateListed'
    BY <1>0, <2>2 DEF CommandShape, LateListed, Running, Phase
  <2> QED
    BY <2>3, <2>4, <2>5 DEF ListInv
<1>6. ASSUME NEW h \in Hosts, StartHost(h) \/ StopHost(h)
      PROVE  ListInv'
  <2>1. UNCHANGED <<file, prep, cmd, late, belated, overlapped>>
    BY <1>6 DEF StartHost, StopHost, StartCluster
  <2>2. loaded' = [loaded EXCEPT ![h] = file[h]] \/ loaded' = [loaded EXCEPT ![h] = {}]
    BY <1>0, <1>6 DEF StartHost, StopHost, StartCluster, TypeOK
  <2>3. unreloaded' \in {unreloaded, unreloaded \ {h}}
    BY <1>6 DEF StartHost, StopHost, StartCluster
  <2>4. TypeOK' /\ SelfListed'
    BY <1>0, <2>1, <2>2, <2>3 DEF TypeOK, SelfListed
  <2>5. CommandShape' /\ LateListed'
    BY <1>0, <2>1 DEF CommandShape, LateListed, Running, Phase
  <2> QED
    BY <2>4, <2>5 DEF ListInv
<1>7. CASE UNCHANGED vars
  BY <1>0, <1>7 DEF vars, hosts, ListInv, TypeOK, CommandShape, LateListed, SelfListed,
                    Running, Phase
<1> QED
  BY <1>1, <1>2, <1>3, <1>4, <1>5, <1>6, <1>7 DEF Next

\* The state of the hosts, of the commands and of the requests on their way is
\* well formed whatever fails or is late.
THEOREM TypeCorrect == Spec => []TypeOK
<1>1. ListInv => TypeOK
  BY DEF ListInv
<1> QED
  BY <1>1, ListInvInit, ListInvStep, PTL DEF Spec

\* No host ever holds or runs with a corosync.conf that does not list it, for
\* any number of hosts, also when commands run together and requests are late.
THEOREM HostsListThemselves == Spec => []SelfListed
<1>1. ListInv => SelfListed
  BY DEF ListInv
<1> QED
  BY <1>1, ListInvInit, ListInvStep, PTL DEF Spec

-----------------------------------------------------------------------------
(* The order of the steps, while commands do not overlap.                  *)

\* The phases before the new file is sent, and those after the reload.
Early == PrepSteps \cup {"destroy", "partial"}
Final == {"enable", "start", "cib"}

\* The phases of a plan that are still to begin.
Ahead(plan) == {plan[i] : i \in 2 .. Len(plan)}

\* How the phases of a plan follow each other.
PlanOk(plan) ==
    /\ \A i \in 1 .. Len(plan) : \A j \in i + 1 .. Len(plan) :
          plan[j] \in PrepSteps => plan[i] \in Early
    /\ \A i \in 1 .. Len(plan) - 1 :
          /\ plan[i] \in Early => plan[i + 1] \in PrepSteps \cup {"partial", "distribute"}
          /\ plan[i] = "distribute" => plan[i + 1] = "reload"
          /\ plan[i] \in Final \cup {"reload"} => plan[i + 1] \in Final

\* Every command follows such a plan and asks only the hosts that it is for.
PlanInv ==
    \A c \in Commands :
       Running(c) =>
          /\ PlanOk(cmd[c].plan)
          /\ cmd[c].kind = "add" /\ Phase(c) = "destroy"
                => PrepSteps \ cmd[c].skipped \subseteq Ahead(cmd[c].plan)
          /\ cmd[c].todo \subseteq Receivers(c, Phase(c))
          /\ cmd[c].online \subseteq cmd[c].conf \ cmd[c].targets

\* One command at a time.
Alone ==
    ~overlapped => \A c, d \in Commands : Running(c) /\ Running(d) => c = d

\* A step that is not ahead any more has been done on every new node, if it
\* missed no file.
PrepInv ==
    ~overlapped =>
       \A c \in Commands :
          Running(c) /\ cmd[c].kind = "add" =>
             \A h \in cmd[c].targets \ belated,
                s \in (PrepSteps \ cmd[c].skipped) \ Ahead(cmd[c].plan) :
                (Phase(c) = s => h \notin cmd[c].todo /\ ~cmd[c].failures)
                   => s \in prep[h]

\* The corosync of a node runs with the new file, or failed to.
Taken(c, h) == loaded[h] \in {{}, cmd[c].conf} \/ h \in unreloaded

\* How far the new file has got on a node that agreed at the beginning.
SpreadTo(c, h) ==
    /\ file[h] \in {OldConf(c), cmd[c].conf}
    /\ loaded[h] \in {{}, OldConf(c), cmd[c].conf}
    /\ Phase(c) \in Final \cup {"reload"} => file[h] = cmd[c].conf
    /\ Phase(c) = "distribute" /\ h \notin cmd[c].todo /\ ~cmd[c].failures
          => file[h] = cmd[c].conf
    /\ Phase(c) \in Final => Taken(c, h)
    /\ Phase(c) = "reload" /\ (cmd[c].reloaded \/ (h \notin cmd[c].todo /\ ~cmd[c].failures))
          => Taken(c, h)

Spread(c) ==
    /\ \A h \in cmd[c].online : SpreadTo(c, h)
    /\ Phase(c) \in Early \cup {"distribute"} => ~cmd[c].reloaded

SpreadInv ==
    ~overlapped /\ belated = {} =>
       \A c \in Commands : Running(c) /\ cmd[c].agreed => Spread(c)

OrderInv == PlanInv /\ Alone /\ PrepInv /\ SpreadInv

\* The plans of both commands follow this order.
LEMMA PlansOk ==
    /\ PlanOk(RemovePlan)
    /\ \A options \in Options, skipped \in SUBSET FileSteps :
          /\ PlanOk(AddPlan(options, skipped))
          /\ PrepSteps \ skipped \subseteq Ahead(AddPlan(options, skipped))
<1>1. PlanOk(RemovePlan)
  <2>1. \A i \in 1 .. 4 : RemovePlan[i] \notin PrepSteps
    BY DEF RemovePlan, PrepSteps
  <2>2. \A i \in 1 .. 3 :
          /\ RemovePlan[i] \in Early => RemovePlan[i + 1] \in PrepSteps \cup {"partial", "distribute"}
          /\ RemovePlan[i] = "distribute" => RemovePlan[i + 1] = "reload"
          /\ RemovePlan[i] \in Final \cup {"reload"} => RemovePlan[i + 1] \in Final
    BY RemovePlanShape DEF Early, Final, PrepSteps
  <2> QED
    BY <2>1, <2>2, RemovePlanShape DEF PlanOk
<1>2. ASSUME NEW options \in Options, NEW skipped \in SUBSET FileSteps
      PROVE  /\ PlanOk(AddPlan(options, skipped))
             /\ PrepSteps \ skipped \subseteq Ahead(AddPlan(options, skipped))
  <2> DEFINE plan == AddPlan(options, skipped)
  <2>1. /\ plan \in Seq(Phases) /\ Len(plan) \in Nat /\ Len(plan) >= 9
        /\ plan[1] = "destroy" /\ plan[2] = "known_hosts" /\ plan[3] = "qdevice"
        /\ plan[4] = "sbd" /\ plan[5] = Send("booth", skipped)
        /\ plan[6] = Send("files", skipped) /\ plan[7] = "ssl"
        /\ plan[8] = "distribute" /\ plan[9] = "reload"
        /\ \A i \in 10 .. Len(plan) : plan[i] \in {"enable", "start"}
    BY AddPlanShape DEF AddBase
  <2> HIDE DEF plan
  <2>2. /\ \A i \in 1 .. 7 : plan[i] \in Early
        /\ \A i \in 2 .. 7 : plan[i] \in PrepSteps \cup {"partial"}
        /\ \A i \in 8 .. Len(plan) : plan[i] \notin PrepSteps /\ plan[i] \notin Early
    <3>1. /\ Send("booth", skipped) \in {"booth", "partial"}
          /\ Send("files", skipped) \in {"files", "partial"}
      BY DEF Send
    <3> QED
      BY <2>1, <3>1 DEF Early, PrepSteps
  <2>3. \A i \in 1 .. Len(plan) : \A j \in i + 1 .. Len(plan) :
          plan[j] \in PrepSteps => plan[i] \in Early
    BY <2>1, <2>2
  <2>4. \A i \in 1 .. Len(plan) - 1 :
          plan[i] \in Early => plan[i + 1] \in PrepSteps \cup {"partial", "distribute"}
    BY <2>1, <2>2
  <2>5. \A i \in 1 .. Len(plan) - 1 : plan[i] = "distribute" => plan[i + 1] = "reload"
    <3>1. \A i \in 1 .. 7 : plan[i] # "distribute"
      BY <2>2 DEF Early, PrepSteps
    <3>2. \A i \in 1 .. Len(plan) - 1 : i \in 1 .. 7 \/ i = 8 \/ i = 9 \/ i \in 10 .. Len(plan)
      BY <2>1
    <3>3. 8 + 1 = 9
      OBVIOUS
    <3> QED
      BY <2>1, <3>1, <3>2, <3>3
  <2>6. \A i \in 1 .. Len(plan) - 1 :
          plan[i] \in Final \cup {"reload"} => plan[i + 1] \in Final
    <3>1. \A i \in 1 .. 8 : plan[i] \notin Final \cup {"reload"}
      BY <2>1, <2>2 DEF Early, PrepSteps, Final
    <3>2. \A i \in 1 .. Len(plan) - 1 : i \in 1 .. 8 \/ i + 1 \in 10 .. Len(plan)
      BY <2>1
    <3> QED
      BY <2>1, <3>1, <3>2 DEF Final
  <2>7. PrepSteps \ skipped \subseteq Ahead(plan)
    <3>1. {plan[i] : i \in 2 .. 7} \subseteq Ahead(plan)
      BY <2>1 DEF Ahead
    <3>2. /\ "booth" \notin skipped => plan[5] = "booth"
          /\ "files" \notin skipped => plan[6] = "files"
      BY <2>1 DEF Send
    <3> QED
      BY <2>1, <3>1, <3>2 DEF PrepSteps
  <2> QED
    BY <2>3, <2>4, <2>5, <2>6, <2>7 DEF PlanOk, plan
<1> QED
  BY <1>1, <1>2

\* The order is kept when the first phase is over.
LEMMA PlanOkTail ==
    ASSUME NEW plan \in Seq(Phases), PlanOk(plan), plan # <<>>, Tail(plan) # <<>>
    PROVE  /\ PlanOk(Tail(plan))
           /\ Ahead(plan) = Ahead(Tail(plan)) \cup {Head(Tail(plan))}
           /\ Head(plan) \in Early => Head(Tail(plan)) \in PrepSteps \cup {"partial", "distribute"}
           /\ Head(plan) = "distribute" => Head(Tail(plan)) = "reload"
           /\ Head(plan) \in Final \cup {"reload"} => Head(Tail(plan)) \in Final
<1> DEFINE n == Len(plan)
           rest == Tail(plan)
<1>1. /\ n \in Nat /\ n >= 2 /\ rest \in Seq(Phases) /\ Len(rest) = n - 1
      /\ \A i \in 1 .. n - 1 : rest[i] = plan[i + 1]
      /\ Head(plan) = plan[1] /\ Head(rest) = plan[2]
  OBVIOUS
<1> HIDE DEF n, rest
<1>2. /\ \A i \in 1 .. n : \A j \in i + 1 .. n : plan[j] \in PrepSteps => plan[i] \in Early
      /\ \A i \in 1 .. n - 1 :
          /\ plan[i] \in Early => plan[i + 1] \in PrepSteps \cup {"partial", "distribute"}
          /\ plan[i] = "distribute" => plan[i + 1] = "reload"
          /\ plan[i] \in Final \cup {"reload"} => plan[i + 1] \in Final
  BY DEF PlanOk, n
<1>3. \A i \in 1 .. n - 1 : \A j \in i + 1 .. n - 1 :
         rest[j] \in PrepSteps => rest[i] \in Early
  <2>1. \A i \in 1 .. n - 1 : \A j \in i + 1 .. n - 1 :
           /\ i + 1 \in 1 .. n /\ j + 1 \in (i + 1) + 1 .. n
           /\ j \in 1 .. n - 1
    BY <1>1
  <2> QED
    BY <1>1, <1>2, <2>1
<1>4. \A i \in 1 .. n - 2 :
         /\ rest[i] \in Early => rest[i + 1] \in PrepSteps \cup {"partial", "distribute"}
         /\ rest[i] = "distribute" => rest[i + 1] = "reload"
         /\ rest[i] \in Final \cup {"reload"} => rest[i + 1] \in Final
  <2>1. \A i \in 1 .. n - 2 : i \in 1 .. n - 1 /\ i + 1 \in 1 .. n - 1
    BY <1>1
  <2> QED
    BY <1>1, <1>2, <2>1
<1>5. PlanOk(rest)
  <2>1. (n - 1) - 1 = n - 2
    BY <1>1
  <2> QED
    BY <1>1, <1>3, <1>4, <2>1 DEF PlanOk
<1>6. Ahead(plan) = Ahead(rest) \cup {Head(rest)}
  <2>1. Ahead(plan) = {plan[i] : i \in 2 .. n} /\ Ahead(rest) = {rest[i] : i \in 2 .. n - 1}
    BY <1>1 DEF Ahead, n
  <2>2. \A i \in 2 .. n : i = 2 \/ (i - 1 \in 2 .. n - 1 /\ plan[i] = rest[i - 1])
    BY <1>1
  <2>3. \A i \in 2 .. n - 1 : i + 1 \in 2 .. n /\ rest[i] = plan[i + 1]
    BY <1>1
  <2>4. 2 \in 2 .. n
    BY <1>1
  <2>5. Ahead(plan) \subseteq Ahead(rest) \cup {Head(rest)}
    BY <1>1, <2>1, <2>2
  <2>6. Ahead(rest) \subseteq Ahead(plan)
    BY <2>1, <2>3
  <2>7. Head(rest) \in Ahead(plan)
    BY <1>1, <2>1, <2>4
  <2> QED
    BY <2>5, <2>6, <2>7
<1>7. 1 \in 1 .. n - 1 /\ 1 + 1 = 2
  BY <1>1
<1> QED
  BY <1>1, <1>2, <1>5, <1>6, <1>7 DEF rest

\* The ways a request of a command can end.
LEMMA RequestKinds ==
    ASSUME TypeOK, NEW c \in Commands, NEW h \in Hosts, Request(c, h)
    PROVE  \/ /\ Phase(c) # "reload"
              /\ Execute(Phase(c), h, cmd[c].conf)
              /\ cmd'[c].failures = cmd[c].failures
              /\ cmd'[c].reloaded = cmd[c].reloaded
              /\ cmd'[c].todo = cmd[c].todo \ {h}
           \/ /\ Phase(c) = "reload" /\ loaded[h] # {}
              /\ \E failed \in SUBSET Known(h) : ReloadCorosyncConf(h, failed)
              /\ cmd'[c].failures = cmd[c].failures
              /\ cmd'[c].reloaded
              /\ cmd'[c].todo = {}
           \/ /\ Phase(c) = "reload" /\ loaded[h] = {}
              /\ UNCHANGED hosts
              /\ cmd'[c].failures = cmd[c].failures
              /\ cmd'[c].reloaded = cmd[c].reloaded
              /\ cmd'[c].todo = cmd[c].todo \ {h}
           \/ /\ Execute(Phase(c), h, cmd[c].conf) \/ UNCHANGED hosts
              /\ Fatal(c) => cmd'[c].failures
              /\ cmd'[c].reloaded = cmd[c].reloaded
              /\ cmd'[c].todo = cmd[c].todo \ {h}
<1>0. Running(c) /\ h \in cmd[c].todo
  BY DEF Request, Answer, AnswerReload, Refuse, LoseAnswer, TimeOut, Asked
<1>1. CASE Answer(c, h)
  BY <1>0, <1>1, PlainAnswerNarrows DEF Answer
<1>2. CASE AnswerReload(c, h)
  <2>1. CASE /\ loaded[h] # {}
             /\ \E failed \in SUBSET (Known(h) \ {h}) : ReloadCorosyncConf(h, failed)
             /\ cmd' = [cmd EXCEPT ![c].todo = {}, ![c].reloaded = TRUE]
    BY <1>0, <1>2, <2>1, AnswerNarrows DEF AnswerReload
  <2>2. CASE /\ loaded[h] = {} /\ cmd' = [cmd EXCEPT ![c].todo = @ \ {h}]
             /\ UNCHANGED hosts
    BY <1>0, <1>2, <2>2, PlainAnswerNarrows DEF AnswerReload
  <2> QED
    BY <1>2, <2>1, <2>2 DEF AnswerReload
<1>3. CASE Refuse(c, h)
  BY <1>0, <1>3, FailNarrows DEF Refuse
<1>4. CASE LoseAnswer(c, h)
  BY <1>0, <1>4, FailNarrows DEF LoseAnswer
<1>5. CASE TimeOut(c, h)
  BY <1>0, <1>5, FailNarrows DEF TimeOut
<1> QED
  BY <1>1, <1>2, <1>3, <1>4, <1>5 DEF Request

\* What becomes of the commands in a step, and of what the order depends on.
LEMMA StepKinds ==
    ASSUME ListInv, [Next]_vars
    PROVE  \/ \E c \in Commands : BeginCommand(c)
           \/ \E c \in Commands : EndPhase(c)
           \/ \E c \in Commands : Kill(c)
           \/ \E c \in Commands, h \in Hosts : Request(c, h)
           \/ \E r \in late : ExecuteLate(r)
           \/ \E h \in Hosts : StartHost(h) \/ StopHost(h)
           \/ UNCHANGED vars
BY DEF Next

\* Every step preserves the plans.
LEMMA PlanInvStep ==
    ASSUME ListInv, PlanInv, [Next]_vars
    PROVE  PlanInv'
<1>0. TypeOK /\ CommandShape
  BY DEF ListInv
<1>1. ASSUME NEW c \in Commands, BeginCommand(c)
      PROVE  PlanInv'
  <2>1. /\ cmd' \in [Commands -> Command]
        /\ \A d \in Commands \ {c} : cmd'[d] = cmd[d]
        /\ cmd'[c].plan # <<>> /\ cmd'[c].plan[1] = "destroy"
        /\ \/ /\ cmd'[c].kind = "add"
              /\ \E options \in Options : cmd'[c].plan = AddPlan(options, cmd'[c].skipped)
           \/ cmd'[c].kind = "remove" /\ cmd'[c].plan = RemovePlan
        /\ cmd'[c].online \subseteq cmd'[c].conf \ cmd'[c].targets
        /\ cmd'[c].todo = cmd'[c].targets
    BY <1>0, <1>1, BeginStep
  <2>2. /\ PlanOk(cmd'[c].plan)
        /\ cmd'[c].kind = "add" => PrepSteps \ cmd'[c].skipped \subseteq Ahead(cmd'[c].plan)
    <3>1. cmd'[c].skipped \in SUBSET FileSteps
      BY <2>1 DEF Command
    <3> QED
      BY <2>1, <3>1, PlansOk
  <2>3. Head(cmd'[c].plan) = "destroy"
    <3>1. cmd'[c].plan \in Seq(Phases)
      BY <2>1 DEF Command
    <3> QED
      BY <2>1, <3>1
  <2>4. cmd'[c].todo \subseteq Receivers(c, "destroy")'
    BY <2>1 DEF Receivers
  <2>5. ASSUME NEW d \in Commands, d # c, Running(d)'
        PROVE  /\ PlanOk(cmd'[d].plan)
               /\ cmd'[d].kind = "add" /\ Phase(d)' = "destroy"
                     => PrepSteps \ cmd'[d].skipped \subseteq Ahead(cmd'[d].plan)
               /\ cmd'[d].todo \subseteq Receivers(d, Phase(d))'
               /\ cmd'[d].online \subseteq cmd'[d].conf \ cmd'[d].targets
    BY <2>1, <2>5 DEF PlanInv, Running, Phase, Receivers
  <2> QED
    BY <2>1, <2>2, <2>3, <2>4, <2>5 DEF PlanInv, Running, Phase
<1>2. ASSUME NEW c \in Commands, EndPhase(c)
      PROVE  PlanInv'
  <2>1. /\ \A d \in Commands \ {c} : cmd'[d] = cmd[d]
        /\ cmd'[c].result = "running" =>
              /\ cmd'[c].kind = cmd[c].kind /\ cmd'[c].targets = cmd[c].targets
              /\ cmd'[c].online = cmd[c].online /\ cmd'[c].conf = cmd[c].conf
              /\ cmd'[c].plan = Tail(cmd[c].plan)
              /\ cmd'[c].plan # <<>>
              /\ cmd'[c].todo = Receivers(c, Head(cmd'[c].plan))
    BY <1>0, <1>2, EndPhaseStep
  <2>2. /\ PlanOk(cmd[c].plan) /\ cmd[c].online \subseteq cmd[c].conf \ cmd[c].targets
        /\ cmd[c].plan \in Seq(Phases) /\ cmd[c].plan # <<>>
    BY <1>0, <1>2 DEF PlanInv, EndPhase, CommandShape, TypeOK, Command
  <2>3. ASSUME Running(c)'
        PROVE  /\ PlanOk(cmd'[c].plan)
               /\ Head(cmd'[c].plan) # "destroy"
               /\ cmd'[c].todo \subseteq Receivers(c, Phase(c))'
               /\ cmd'[c].online \subseteq cmd'[c].conf \ cmd'[c].targets
    <3>1. cmd'[c].plan = Tail(cmd[c].plan) /\ Tail(cmd[c].plan) # <<>>
      BY <2>1, <2>3 DEF Running
    <3>2. /\ PlanOk(Tail(cmd[c].plan)) /\ Head(cmd[c].plan) \in Phases
          /\ Head(cmd[c].plan) \in Early
                => Head(Tail(cmd[c].plan)) \in PrepSteps \cup {"partial", "distribute"}
          /\ Head(cmd[c].plan) = "distribute" => Head(Tail(cmd[c].plan)) = "reload"
          /\ Head(cmd[c].plan) \in Final \cup {"reload"} => Head(Tail(cmd[c].plan)) \in Final
      BY <2>2, <3>1, PlanOkTail, TailPlan
    <3>3. Head(Tail(cmd[c].plan)) # "destroy"
      BY <3>2 DEF Phases, Early, Final, PrepSteps
    <3>4. cmd'[c].todo = Receivers(c, Phase(c))'
      BY <2>1, <2>3 DEF Running, Phase, Receivers
    <3> QED
      BY <2>1, <2>2, <2>3, <3>1, <3>2, <3>3, <3>4 DEF Running
  <2>4. ASSUME NEW d \in Commands, d # c, Running(d)'
        PROVE  /\ PlanOk(cmd'[d].plan)
               /\ cmd'[d].kind = "add" /\ Phase(d)' = "destroy"
                     => PrepSteps \ cmd'[d].skipped \subseteq Ahead(cmd'[d].plan)
               /\ cmd'[d].todo \subseteq Receivers(d, Phase(d))'
               /\ cmd'[d].online \subseteq cmd'[d].conf \ cmd'[d].targets
    BY <2>1, <2>4 DEF PlanInv, Running, Phase, Receivers
  <2> QED
    BY <2>1, <2>2, <2>3, <2>4 DEF PlanInv, Phase
<1>3. ASSUME NEW c \in Commands, Kill(c)
      PROVE  PlanInv'
  <2>1. \A d \in Commands : Running(d)' => d # c /\ cmd'[d] = cmd[d]
    BY <1>0, <1>3, KillStep DEF Running
  <2> QED
    BY <2>1 DEF PlanInv, Running, Phase, Receivers
<1>4. ASSUME NEW c \in Commands, NEW h \in Hosts, Request(c, h)
      PROVE  PlanInv'
  <2>1. Narrows(c)
    BY <1>0, <1>4, RequestStep
  <2>2. \A d \in Commands :
           /\ cmd'[d].kind = cmd[d].kind /\ cmd'[d].plan = cmd[d].plan
           /\ cmd'[d].targets = cmd[d].targets /\ cmd'[d].online = cmd[d].online
           /\ cmd'[d].conf = cmd[d].conf /\ cmd'[d].result = cmd[d].result
           /\ cmd'[d].skipped = cmd[d].skipped
           /\ cmd'[d].todo \subseteq cmd[d].todo
    BY <2>1 DEF Narrows
  <2> QED
    BY <2>2 DEF PlanInv, Running, Phase, Receivers
<1>5. ASSUME cmd' = cmd
      PROVE  PlanInv'
  BY <1>5 DEF PlanInv, Running, Phase, Receivers
<1> QED
  <2>1. (\E r \in late : ExecuteLate(r)) => cmd' = cmd
    BY DEF ExecuteLate
  <2>2. (\E h \in Hosts : StartHost(h) \/ StopHost(h)) => cmd' = cmd
    BY DEF StartHost, StopHost
  <2> QED
    BY <1>1, <1>2, <1>3, <1>4, <1>5, <2>1, <2>2, StepKinds DEF vars

\* Without an overlap there is one command at a time.
LEMMA AloneStep ==
    ASSUME ListInv, Alone, [Next]_vars
    PROVE  Alone'
<1>0. TypeOK /\ CommandShape
  BY DEF ListInv
<1>1. ASSUME NEW c \in Commands, BeginCommand(c)
      PROVE  Alone'
  <2>1. /\ \A d \in Commands \ {c} : cmd'[d] = cmd[d]
        /\ overlapped' = (overlapped \/ \E d \in Commands : Running(d))
    BY <1>0, <1>1, BeginStep
  <2> QED
    BY <2>1 DEF Alone, Running
<1>2. ASSUME overlapped' = overlapped, \A d \in Commands : Running(d)' => Running(d)
      PROVE  Alone'
  BY <1>2 DEF Alone
<1>3. ASSUME NEW c \in Commands, EndPhase(c)
      PROVE  Alone'
  <2>1. \A d \in Commands \ {c} : cmd'[d] = cmd[d]
    BY <1>0, <1>3, EndPhaseStep
  <2> QED
    BY <1>2, <1>3, <2>1 DEF EndPhase, Running
<1>4. ASSUME NEW c \in Commands, Kill(c)
      PROVE  Alone'
  <2>1. \A d \in Commands \ {c} : cmd'[d] = cmd[d]
    BY <1>0, <1>4, KillStep
  <2> QED
    BY <1>2, <1>4, <2>1 DEF Kill, Running
<1>5. ASSUME NEW c \in Commands, NEW h \in Hosts, Request(c, h)
      PROVE  Alone'
  <2>1. overlapped' = overlapped /\ Narrows(c)
    BY <1>0, <1>5, RequestStep
  <2> QED
    BY <1>2, <2>1 DEF Narrows, Running
<1>6. ASSUME cmd' = cmd, overlapped' = overlapped
      PROVE  Alone'
  BY <1>2, <1>6 DEF Running
<1> QED
  <2>1. (\E r \in late : ExecuteLate(r)) => cmd' = cmd /\ overlapped' = overlapped
    BY DEF ExecuteLate
  <2>2. (\E h \in Hosts : StartHost(h) \/ StopHost(h))
           => cmd' = cmd /\ overlapped' = overlapped
    BY DEF StartHost, StopHost
  <2> QED
    BY <1>1, <1>3, <1>4, <1>5, <1>6, <2>1, <2>2, StepKinds DEF vars

\* What a request changes on the host that executes it, and elsewhere.
LEMMA ExecuteEffects ==
    ASSUME TypeOK, NEW what \in Phases, NEW h \in Hosts, NEW conf \in SUBSET Hosts,
           Execute(what, h, conf)
    PROVE  /\ \A k \in Hosts \ {h} : file'[k] = file[k] /\ prep'[k] = prep[k]
           /\ what # "reload" => \A k \in Hosts \ {h} :
                 loaded'[k] = loaded[k] /\ (k \in unreloaded' <=> k \in unreloaded)
           /\ what = "distribute" =>
                 file'[h] = conf /\ loaded' = loaded /\ unreloaded' = unreloaded
           /\ what = "reload" =>
                 \E failed \in SUBSET Known(h) : ReloadCorosyncConf(h, failed)
           /\ what # "destroy" => prep[h] \subseteq prep'[h]
           /\ what \in PrepSteps => what \in prep'[h]
<1>1. /\ file \in [Hosts -> SUBSET Hosts] /\ loaded \in [Hosts -> SUBSET Hosts]
      /\ prep \in [Hosts -> SUBSET Phases]
  BY DEF TypeOK
<1>2. CASE what = "destroy"
  <2>1. Destroy(h)
    BY <1>2 DEF Execute
  <2> QED
    BY <1>1, <1>2, <2>1 DEF Destroy, PrepSteps
<1>3. CASE what = "distribute"
  <2>1. SetCorosyncConf(h, conf)
    BY <1>3 DEF Execute
  <2> QED
    BY <1>1, <1>3, <2>1 DEF SetCorosyncConf, PrepSteps
<1>4. CASE what = "reload"
  <2>1. \E failed \in SUBSET Known(h) : ReloadCorosyncConf(h, failed)
    BY <1>4 DEF Execute
  <2>2. file' = file /\ prep' = prep
    BY <2>1 DEF ReloadCorosyncConf
  <2> QED
    BY <1>4, <2>1, <2>2 DEF PrepSteps
<1>5. CASE what = "start"
  <2>1. StartCluster(h)
    BY <1>5 DEF Execute
  <2> QED
    BY <1>1, <1>5, <2>1 DEF StartCluster, PrepSteps
<1>6. CASE what \in {"cib", "partial"}
  BY <1>6 DEF Execute, hosts, PrepSteps
<1>7. CASE what \notin {"destroy", "distribute", "reload", "start", "cib", "partial"}
  <2>1. Prepare(h, what)
    BY <1>7 DEF Execute
  <2> QED
    BY <1>1, <1>7, <2>1 DEF Prepare
<1> QED
  BY <1>2, <1>3, <1>4, <1>5, <1>6, <1>7

\* Every step preserves what has been prepared.
LEMMA PrepInvStep ==
    ASSUME ListInv, PlanInv, Alone, PrepInv, [Next]_vars
    PROVE  PrepInv'
<1>0. TypeOK /\ CommandShape
  BY DEF ListInv
<1>1. ASSUME NEW c \in Commands, BeginCommand(c)
      PROVE  PrepInv'
  <2>1. /\ \A d \in Commands \ {c} : cmd'[d] = cmd[d]
        /\ cmd' \in [Commands -> Command]
        /\ cmd'[c].kind = "add" =>
              \E options \in Options : cmd'[c].plan = AddPlan(options, cmd'[c].skipped)
        /\ overlapped' = (overlapped \/ \E d \in Commands : Running(d))
        /\ prep' = prep /\ belated' = belated
    BY <1>0, <1>1, BeginStep DEF hosts
  <2>2. cmd'[c].kind = "add" => PrepSteps \ cmd'[c].skipped \subseteq Ahead(cmd'[c].plan)
    <3>1. cmd'[c].skipped \in SUBSET FileSteps
      BY <2>1 DEF Command
    <3> QED
      BY <2>1, <3>1, PlansOk
  <2> QED
    BY <2>1, <2>2 DEF PrepInv, Running, Phase
<1>2. ASSUME NEW c \in Commands, EndPhase(c)
      PROVE  PrepInv'
  <2>1. /\ \A d \in Commands \ {c} : cmd'[d] = cmd[d]
        /\ cmd'[c].result = "running" =>
              /\ cmd'[c].kind = cmd[c].kind /\ cmd'[c].targets = cmd[c].targets
              /\ cmd'[c].skipped = cmd[c].skipped
              /\ ~HasErrors(c)
              /\ cmd'[c].plan = Tail(cmd[c].plan)
              /\ cmd'[c].plan # <<>>
              /\ cmd'[c].todo = Receivers(c, Head(cmd'[c].plan))
    BY <1>0, <1>2, EndPhaseStep
  <2>2. /\ prep' = prep /\ belated' = belated /\ overlapped' = overlapped
        /\ Running(c) /\ cmd[c].todo = {}
    BY <1>2 DEF EndPhase, hosts
  <2>3. /\ PlanOk(cmd[c].plan) /\ cmd[c].plan \in Seq(Phases) /\ cmd[c].plan # <<>>
    BY <1>0, <2>2 DEF PlanInv, CommandShape, TypeOK, Command
  <2>4. ASSUME ~overlapped, Running(c)', cmd[c].kind = "add",
               NEW h \in cmd[c].targets \ belated,
               NEW s \in (PrepSteps \ cmd[c].skipped) \ Ahead(cmd'[c].plan),
               Phase(c)' = s => h \notin cmd'[c].todo
        PROVE  s \in prep[h]
    <3>1. /\ ~HasErrors(c) /\ cmd'[c].plan = Tail(cmd[c].plan) /\ Tail(cmd[c].plan) # <<>>
          /\ cmd'[c].todo = Receivers(c, Head(Tail(cmd[c].plan)))
      BY <2>1, <2>4 DEF Running
    <3>2. s # Head(Tail(cmd[c].plan))
      BY <2>4, <3>1 DEF Phase, Receivers, PrepSteps
    <3>3. s \notin Ahead(cmd[c].plan)
      BY <2>3, <2>4, <3>1, <3>2, PlanOkTail
    <3>4. Phase(c) = s => ~cmd[c].failures
      BY <3>1 DEF HasErrors, PrepSteps
    <3> QED
      BY <2>2, <2>4, <3>3, <3>4 DEF PrepInv
  <2>5. ASSUME NEW d \in Commands, d # c, ~overlapped, Running(d)', cmd'[d].kind = "add",
               NEW h \in cmd'[d].targets \ belated,
               NEW s \in (PrepSteps \ cmd'[d].skipped) \ Ahead(cmd'[d].plan),
               Phase(d)' = s => h \notin cmd'[d].todo /\ ~cmd'[d].failures
        PROVE  s \in prep[h]
    BY <2>1, <2>5 DEF PrepInv, Running, Phase
  <2> QED
    BY <2>1, <2>2, <2>4, <2>5 DEF PrepInv, Running
<1>3. ASSUME NEW c \in Commands, Kill(c)
      PROVE  PrepInv'
  <2>1. /\ \A d \in Commands : Running(d)' => cmd'[d] = cmd[d]
        /\ prep' = prep /\ belated' = belated /\ overlapped' = overlapped
    BY <1>0, <1>3, KillStep DEF Running, Kill, hosts
  <2> QED
    BY <2>1 DEF PrepInv, Running, Phase
<1>4. ASSUME NEW c \in Commands, NEW g \in Hosts, Request(c, g)
      PROVE  PrepInv'
  <2>1. /\ Running(c) /\ Narrows(c) /\ belated' = belated /\ overlapped' = overlapped
        /\ Execute(Phase(c), g, cmd[c].conf) \/ UNCHANGED hosts
    BY <1>0, <1>4, RequestStep
  <2>2. /\ Phase(c) \in Phases /\ cmd[c].conf \in SUBSET Hosts
        /\ cmd[c].targets \in SUBSET Hosts
    <3>1. /\ cmd[c].plan \in Seq(Phases) /\ cmd[c].plan # <<>>
          /\ cmd[c].conf \in SUBSET Hosts /\ cmd[c].targets \in SUBSET Hosts
      BY <1>0, <2>1 DEF TypeOK, Command, CommandShape
    <3> QED
      BY <3>1, TailPlan DEF Phase
  <2>3. ASSUME ~overlapped, cmd[c].kind = "add",
               NEW h \in cmd[c].targets \ belated,
               NEW s \in (PrepSteps \ cmd[c].skipped) \ Ahead(cmd[c].plan),
               Phase(c) = s => h \notin cmd'[c].todo /\ ~cmd'[c].failures
        PROVE  s \in prep'[h]
    <3>1. Phase(c) # "destroy"
      BY <2>1, <2>3 DEF PlanInv
    <3>2. prep[h] \subseteq prep'[h]
      <4>1. CASE UNCHANGED hosts
        BY <4>1 DEF hosts
      <4>2. CASE Execute(Phase(c), g, cmd[c].conf)
        BY <1>0, <2>2, <2>3, <3>1, <4>2, ExecuteEffects
      <4> QED
        BY <2>1, <4>1, <4>2
    <3>3. CASE Phase(c) # s
      BY <2>1, <2>3, <3>2, <3>3 DEF PrepInv
    <3>4. CASE Phase(c) = s
      <4>1. s # "reload" /\ Fatal(c)
        BY <2>3, <3>4 DEF PrepSteps, Fatal
      <4>2. /\ Execute(Phase(c), g, cmd[c].conf) /\ ~cmd[c].failures
            /\ cmd'[c].todo = cmd[c].todo \ {g}
        BY <1>0, <1>4, <2>3, <3>4, <4>1, RequestKinds
      <4>3. CASE h = g
        BY <1>0, <1>4, <2>2, <2>3, <3>4, <4>2, <4>3, ExecuteEffects
      <4>4. CASE h # g
        BY <2>1, <2>3, <3>2, <3>4, <4>2, <4>4 DEF PrepInv
      <4> QED
        BY <4>3, <4>4
    <3> QED
      BY <3>3, <3>4
  <2>4. ~overlapped => \A d \in Commands : Running(d)' => d = c
    BY <2>1 DEF Alone, Running, Narrows
  <2> QED
    BY <2>1, <2>3, <2>4 DEF PrepInv, Narrows, Phase
<1>5. ASSUME NEW r \in late, ExecuteLate(r)
      PROVE  PrepInv'
  <2>1. /\ cmd' = cmd /\ overlapped' = overlapped /\ belated' = belated \cup {r.host}
        /\ Execute(r.what, r.host, r.conf)
    BY <1>5 DEF ExecuteLate
  <2>2. r.what \in Phases /\ r.host \in Hosts /\ r.conf \in SUBSET Hosts
    BY <1>0, <1>5 DEF TypeOK, Late
  <2>3. \A k \in Hosts \ {r.host} : prep'[k] = prep[k]
    BY <1>0, <2>1, <2>2, ExecuteEffects
  <2>4. \A c \in Commands : cmd[c].targets \subseteq Hosts
    BY <1>0 DEF TypeOK, Command
  <2>5. ASSUME ~overlapped, NEW c \in Commands, Running(c), cmd[c].kind = "add",
               NEW h \in cmd[c].targets \ belated',
               NEW s \in (PrepSteps \ cmd[c].skipped) \ Ahead(cmd[c].plan),
               Phase(c) = s => h \notin cmd[c].todo /\ ~cmd[c].failures
        PROVE  s \in prep'[h]
    <3>1. h \in cmd[c].targets \ belated /\ h \in Hosts \ {r.host}
      BY <2>1, <2>4, <2>5
    <3>2. s \in prep[h]
      BY <2>5, <3>1 DEF PrepInv
    <3> QED
      BY <2>3, <3>1, <3>2
  <2> QED
    BY <2>1, <2>5 DEF PrepInv, Running, Phase
<1>6. ASSUME UNCHANGED <<prep, cmd, belated, overlapped>>
      PROVE  PrepInv'
  BY <1>6 DEF PrepInv, Running, Phase
<1> QED
  <2>1. (\E h \in Hosts : StartHost(h) \/ StopHost(h))
           => UNCHANGED <<prep, cmd, belated, overlapped>>
    BY DEF StartHost, StopHost, StartCluster
  <2> QED
    BY <1>1, <1>2, <1>3, <1>4, <1>5, <1>6, <2>1, StepKinds DEF vars, hosts

\* A request does not undo the spreading of the new file.
LEMMA SpreadRequest ==
    ASSUME ListInv, PlanInv, NEW c \in Commands, NEW g \in Hosts, Request(c, g),
           Running(c), cmd[c].agreed, Spread(c)
    PROVE  Spread(c)'
<1>0. TypeOK /\ CommandShape
  BY DEF ListInv
<1>1. /\ g \in cmd[c].todo /\ Narrows(c)
      /\ Execute(Phase(c), g, cmd[c].conf) \/ UNCHANGED hosts
  BY <1>0, RequestStep
<1>2. /\ cmd'[c].online = cmd[c].online /\ cmd'[c].conf = cmd[c].conf
      /\ Phase(c)' = Phase(c) /\ OldConf(c)' = OldConf(c)
  BY <1>1 DEF Narrows, Phase, OldConf
<1>3. /\ Phase(c) \in Phases /\ cmd[c].conf \in SUBSET Hosts
      /\ cmd[c].online \in SUBSET Hosts
  <2>1. /\ cmd[c].plan \in Seq(Phases) /\ cmd[c].plan # <<>>
        /\ cmd[c].conf \in SUBSET Hosts /\ cmd[c].online \in SUBSET Hosts
    BY <1>0 DEF TypeOK, Command, CommandShape
  <2> QED
    BY <2>1, TailPlan DEF Phase
<1>4. /\ cmd[c].todo \subseteq Receivers(c, Phase(c))
      /\ cmd[c].online \subseteq cmd[c].conf \ cmd[c].targets
  BY DEF PlanInv
<1>5. Phase(c) \in Early \/ Phase(c) = "distribute" \/ Phase(c) = "reload" \/ Phase(c) \in Final
  BY <1>3 DEF Phases, Early, Final
<1>6. ASSUME NEW h \in cmd[c].online
      PROVE  SpreadTo(c, h)
  BY DEF Spread
<1>7. Phase(c) \in Early \cup {"distribute"} => ~cmd[c].reloaded
  BY DEF Spread
<1>8. CASE Phase(c) \in Early \cup Final
  <2>0. Phase(c) \notin {"reload", "distribute"}
    BY <1>8 DEF Early, Final, PrepSteps
  <2>1. ASSUME NEW h \in cmd[c].online
        PROVE  /\ file'[h] = file[h] /\ loaded'[h] = loaded[h]
               /\ h \in unreloaded => h \in unreloaded'
    <3>1. CASE UNCHANGED hosts
      BY <3>1 DEF hosts
    <3>2. CASE Execute(Phase(c), g, cmd[c].conf) /\ Phase(c) = "cib"
      BY <3>2 DEF Execute, hosts
    <3>3. CASE Execute(Phase(c), g, cmd[c].conf) /\ Phase(c) # "cib"
      <4>1. Receivers(c, Phase(c)) = cmd[c].targets
        BY <2>0, <3>3 DEF Receivers
      <4>2. h \in Hosts \ {g}
        BY <1>1, <1>3, <1>4, <4>1
      <4> QED
        BY <1>0, <1>3, <2>0, <3>3, <4>2, ExecuteEffects
    <3> QED
      BY <1>1, <3>1, <3>2, <3>3
  <2>2. ASSUME NEW h \in cmd[c].online
        PROVE  SpreadTo(c, h)'
    BY <1>2, <1>6, <2>0, <2>1 DEF SpreadTo, Taken
  <2>3. Phase(c) \in Early => cmd'[c].reloaded = cmd[c].reloaded
    BY <1>0, <2>0, RequestKinds
  <2>4. Phase(c)' \in Early \cup {"distribute"} => ~cmd'[c].reloaded
    BY <1>2, <1>7, <2>0, <2>3
  <2> QED
    BY <1>2, <2>2, <2>4 DEF Spread
<1>9. CASE Phase(c) = "distribute"
  <2>1. Fatal(c)
    BY <1>9 DEF Fatal
  <2>2. cmd'[c].reloaded = cmd[c].reloaded /\ cmd'[c].todo = cmd[c].todo \ {g}
    BY <1>0, <1>9, RequestKinds
  <2>3. \/ cmd'[c].failures
        \/ /\ Execute("distribute", g, cmd[c].conf)
           /\ cmd'[c].failures = cmd[c].failures
    BY <1>0, <1>9, <2>1, RequestKinds
  <2>4. ASSUME NEW h \in cmd[c].online
        PROVE  SpreadTo(c, h)'
    <3>1. loaded'[h] = loaded[h] /\ file'[h] \in {file[h], cmd[c].conf}
      <4>1. CASE UNCHANGED hosts
        BY <4>1 DEF hosts
      <4>2. CASE Execute(Phase(c), g, cmd[c].conf)
        <5>1. /\ \A k \in Hosts \ {g} : file'[k] = file[k]
              /\ file'[g] = cmd[c].conf /\ loaded' = loaded
          BY <1>0, <1>3, <1>9, <4>2, ExecuteEffects
        <5> QED
          BY <1>3, <5>1
      <4> QED
        BY <1>1, <4>1, <4>2
    <3>2. h \notin cmd'[c].todo /\ ~cmd'[c].failures => file'[h] = cmd[c].conf
      <4> SUFFICES ASSUME h \notin cmd'[c].todo, ~cmd'[c].failures
                   PROVE  file'[h] = cmd[c].conf
        OBVIOUS
      <4>1. Execute("distribute", g, cmd[c].conf) /\ ~cmd[c].failures
        BY <2>3
      <4>2. CASE h = g
        BY <1>0, <1>3, <1>9, <4>1, <4>2, ExecuteEffects
      <4>3. CASE h # g
        BY <1>6, <1>9, <2>2, <3>1, <4>1, <4>3 DEF SpreadTo
      <4> QED
        BY <4>2, <4>3
    <3> QED
      BY <1>2, <1>6, <1>9, <3>1, <3>2 DEF SpreadTo, Final
  <2> QED
    BY <1>2, <1>7, <1>9, <2>2, <2>4 DEF Spread
<1>10. CASE Phase(c) = "reload"
  <2>0. Fatal(c) /\ Phase(c) \notin Early /\ Phase(c) \notin Final
    BY <1>10 DEF Fatal, Early, Final, PrepSteps
  <2>1. \A h \in cmd[c].online : file[h] = cmd[c].conf
    BY <1>6, <1>10 DEF SpreadTo
  <2>2. (\E failed \in SUBSET Known(g) : ReloadCorosyncConf(g, failed)) \/ UNCHANGED hosts
    BY <1>0, <1>1, <1>3, <1>10, ExecuteEffects
  <2>3. file' = file
    BY <2>2 DEF ReloadCorosyncConf, hosts
  <2>4. \A h \in cmd[c].online :
           \/ loaded'[h] = cmd[c].conf
           \/ loaded'[h] = loaded[h] /\ (h \in unreloaded => h \in unreloaded')
    BY <1>3, <2>1, <2>2 DEF ReloadCorosyncConf, hosts
  <2>5. ASSUME NEW h \in cmd[c].online,
               \/ cmd'[c].reloaded
               \/ h \notin cmd'[c].todo /\ ~cmd'[c].failures
        PROVE  loaded'[h] \in {{}, cmd[c].conf} \/ h \in unreloaded'
    <3>1. CASE /\ loaded[g] # {}
               /\ \E failed \in SUBSET Known(g) : ReloadCorosyncConf(g, failed)
      <4>1. g \in cmd[c].online
        BY <1>1, <1>4, <1>10 DEF Receivers
      <4>2. loaded[g] \in {OldConf(c), cmd[c].conf}
        BY <1>6, <3>1, <4>1 DEF SpreadTo
      <4>3. h \in loaded[g] /\ h \in Hosts /\ h \in cmd[c].conf
        BY <1>3, <1>4, <4>2 DEF OldConf
      <4>4. PICK failed \in SUBSET Known(g) : ReloadCorosyncConf(g, failed)
        BY <3>1
      <4>5. /\ h \in failed => h \in unreloaded'
            /\ loaded'[h] = IF h \in Known(g) \ failed THEN file[h] ELSE loaded[h]
        BY <4>3, <4>4 DEF ReloadCorosyncConf
      <4>6. loaded[h] # {} /\ file[h] # {} => h \in Known(g)
        BY <4>3 DEF Known
      <4> QED
        BY <2>1, <4>3, <4>5, <4>6
    <3>2. CASE /\ loaded[g] = {} /\ UNCHANGED hosts
               /\ cmd'[c].failures = cmd[c].failures
               /\ cmd'[c].reloaded = cmd[c].reloaded
               /\ cmd'[c].todo = cmd[c].todo \ {g}
      <4>1. loaded'[h] = loaded[h] /\ unreloaded' = unreloaded
        BY <3>2 DEF hosts
      <4>2. CASE h = g
        BY <3>2, <4>1, <4>2
      <4>3. CASE h # g
        <5>1. cmd[c].reloaded \/ (h \notin cmd[c].todo /\ ~cmd[c].failures)
          BY <2>5, <3>2, <4>3, Zenon
        <5> QED
          BY <1>6, <1>10, <4>1, <5>1 DEF SpreadTo, Taken
      <4> QED
        BY <4>2, <4>3
    <3>3. CASE cmd'[c].failures /\ cmd'[c].reloaded = cmd[c].reloaded
      <4>1. cmd[c].reloaded
        BY <2>5, <3>3, Zenon
      <4> QED
        BY <1>6, <1>10, <2>4, <4>1 DEF SpreadTo, Taken
    <3> QED
      BY <1>0, <1>10, <2>0, <3>1, <3>2, <3>3, RequestKinds
  <2>6. ASSUME NEW h \in cmd[c].online
        PROVE  SpreadTo(c, h)'
    <3>1. /\ file[h] = cmd[c].conf
          /\ loaded'[h] \in {{}, OldConf(c), cmd[c].conf}
      BY <1>6, <2>1, <2>4 DEF SpreadTo
    <3> QED
      BY <1>2, <1>10, <2>0, <2>3, <2>5, <3>1 DEF SpreadTo, Taken
  <2> QED
    BY <1>2, <1>10, <2>0, <2>6 DEF Spread
<1> QED
  BY <1>5, <1>8, <1>9, <1>10

\* Nor does the end of a phase.
LEMMA SpreadEndPhase ==
    ASSUME ListInv, PlanInv, NEW c \in Commands, EndPhase(c), Spread(c), Running(c)'
    PROVE  Spread(c)'
<1>0. TypeOK /\ CommandShape
  BY DEF ListInv
<1>1. /\ cmd'[c].kind = cmd[c].kind /\ cmd'[c].targets = cmd[c].targets
      /\ cmd'[c].online = cmd[c].online /\ cmd'[c].conf = cmd[c].conf
      /\ cmd'[c].reloaded = cmd[c].reloaded
      /\ ~HasErrors(c)
      /\ cmd'[c].plan = Tail(cmd[c].plan) /\ Tail(cmd[c].plan) # <<>>
      /\ cmd'[c].todo = Receivers(c, Head(Tail(cmd[c].plan)))
  BY <1>0, EndPhaseStep DEF Running
<1>2. /\ file' = file /\ loaded' = loaded /\ unreloaded' = unreloaded
      /\ Running(c) /\ cmd[c].todo = {}
  BY DEF EndPhase, hosts
<1>3. /\ PlanOk(cmd[c].plan) /\ cmd[c].plan \in Seq(Phases) /\ cmd[c].plan # <<>>
  BY <1>0, <1>2 DEF PlanInv, CommandShape, TypeOK, Command
<1>4. OldConf(c)' = OldConf(c) /\ Phase(c)' = Head(Tail(cmd[c].plan))
  BY <1>1 DEF OldConf, Phase
<1>5. /\ Phase(c) \in Phases
      /\ Phase(c) \in Early => Phase(c)' \in PrepSteps \cup {"partial", "distribute"}
      /\ Phase(c) = "distribute" => Phase(c)' = "reload"
      /\ Phase(c) \in Final \cup {"reload"} => Phase(c)' \in Final
  BY <1>1, <1>3, <1>4, PlanOkTail, TailPlan DEF Phase
<1>6. Phase(c) \in Early \/ Phase(c) = "distribute" \/ Phase(c) = "reload" \/ Phase(c) \in Final
  BY <1>5 DEF Phases, Early, Final
<1>7. \A h \in cmd[c].online : SpreadTo(c, h)
  BY DEF Spread
<1>8. cmd[c].failures => Phase(c) = "reload" /\ cmd[c].reloaded
  BY <1>1 DEF HasErrors
<1>9. CASE Phase(c) \in Early
  <2>1. Phase(c)' \notin Final /\ Phase(c)' # "reload"
    BY <1>5, <1>9 DEF Final, PrepSteps
  <2>2. ASSUME NEW h \in cmd[c].online, Phase(c)' = "distribute"
        PROVE  h \in cmd'[c].todo
    BY <1>1, <1>4, <2>2 DEF Receivers
  <2>3. ~cmd'[c].reloaded
    BY <1>1, <1>9 DEF Spread
  <2>4. \A h \in cmd[c].online : SpreadTo(c, h)'
    BY <1>1, <1>2, <1>4, <1>7, <2>1, <2>2 DEF SpreadTo
  <2> QED
    BY <1>1, <2>3, <2>4 DEF Spread
<1>10. CASE Phase(c) = "distribute"
  <2>1. Phase(c)' = "reload" /\ Phase(c)' \notin Final /\ Phase(c)' \notin Early \cup {"distribute"}
    BY <1>5, <1>10 DEF Final, Early, PrepSteps
  <2>2. \A h \in cmd[c].online : file[h] = cmd[c].conf
    BY <1>2, <1>7, <1>8, <1>10 DEF SpreadTo
  <2>3. cmd'[c].todo = cmd[c].online /\ ~cmd'[c].reloaded
    BY <1>1, <1>4, <1>10, <2>1 DEF Receivers, Spread
  <2>4. \A h \in cmd[c].online : SpreadTo(c, h)'
    BY <1>1, <1>2, <1>4, <1>7, <2>1, <2>2, <2>3 DEF SpreadTo
  <2> QED
    BY <1>1, <2>1, <2>4 DEF Spread
<1>11. CASE Phase(c) = "reload" \/ Phase(c) \in Final
  <2>1. Phase(c)' \in Final /\ Phase(c)' # "reload" /\ Phase(c)' \notin Early \cup {"distribute"}
    BY <1>5, <1>11 DEF Final, Early, PrepSteps
  <2>2. \A h \in cmd[c].online : file[h] = cmd[c].conf /\ Taken(c, h)
    BY <1>2, <1>7, <1>8, <1>11 DEF SpreadTo
  <2>3. \A h \in cmd[c].online : SpreadTo(c, h)'
    BY <1>1, <1>2, <1>4, <1>7, <2>1, <2>2 DEF SpreadTo, Taken
  <2> QED
    BY <1>1, <2>1, <2>3 DEF Spread
<1> QED
  BY <1>6, <1>9, <1>10, <1>11

\* Every step preserves it.
LEMMA SpreadInvStep ==
    ASSUME ListInv, PlanInv, Alone, SpreadInv, [Next]_vars
    PROVE  SpreadInv'
<1>0. TypeOK /\ CommandShape
  BY DEF ListInv
<1>1. ASSUME NEW d \in Commands, Spread(d), cmd'[d] = cmd[d],
             file' = file, loaded' = loaded, unreloaded' = unreloaded
      PROVE  Spread(d)'
  BY <1>1 DEF Spread, SpreadTo, Taken, OldConf, Phase
<1>2. ASSUME NEW c \in Commands, BeginCommand(c)
      PROVE  SpreadInv'
  <2>1. /\ \A d \in Commands \ {c} : cmd'[d] = cmd[d]
        /\ cmd' \in [Commands -> Command]
        /\ cmd'[c].plan # <<>> /\ cmd'[c].plan[1] = "destroy"
        /\ ~cmd'[c].reloaded
        /\ overlapped' = (overlapped \/ \E d \in Commands : Running(d))
        /\ UNCHANGED <<file, loaded, unreloaded, belated>>
        /\ cmd'[c].agreed =>
              \A h \in cmd'[c].online :
                 file[h] = OldConf(c)' /\ loaded[h] \in {{}, OldConf(c)'}
    BY <1>0, <1>2, BeginStep DEF hosts
  <2>2. Phase(c)' = "destroy"
    <3>1. cmd'[c].plan \in Seq(Phases)
      BY <2>1 DEF Command
    <3> QED
      BY <2>1, <3>1 DEF Phase
  <2>3. cmd'[c].agreed => Spread(c)'
    BY <2>1, <2>2 DEF Spread, SpreadTo, Final
  <2>4. ASSUME NEW d \in Commands, d # c, ~overlapped', belated' = {}, Running(d)',
               cmd'[d].agreed
        PROVE  Spread(d)'
    <3>1. Spread(d)
      BY <2>1, <2>4 DEF SpreadInv, Running
    <3> QED
      BY <1>1, <2>1, <2>4, <3>1
  <2> QED
    BY <2>3, <2>4 DEF SpreadInv
<1>3. ASSUME NEW c \in Commands, EndPhase(c)
      PROVE  SpreadInv'
  <2>1. /\ \A d \in Commands \ {c} : cmd'[d] = cmd[d]
        /\ Running(c) /\ (Running(c)' => cmd'[c].agreed = cmd[c].agreed)
        /\ UNCHANGED <<file, loaded, unreloaded, belated, overlapped>>
    BY <1>0, <1>3, EndPhaseStep DEF EndPhase, hosts, Running
  <2>2. ASSUME ~overlapped', belated' = {}, Running(c)', cmd'[c].agreed
        PROVE  Spread(c)'
    <3>1. Spread(c)
      BY <2>1, <2>2 DEF SpreadInv
    <3> QED
      BY <1>3, <2>2, <3>1, SpreadEndPhase
  <2>3. ASSUME NEW d \in Commands, d # c, ~overlapped', belated' = {}, Running(d)',
               cmd'[d].agreed
        PROVE  Spread(d)'
    <3>1. Spread(d)
      BY <2>1, <2>3 DEF SpreadInv, Running
    <3> QED
      BY <1>1, <2>1, <2>3, <3>1
  <2> QED
    BY <2>2, <2>3 DEF SpreadInv
<1>4. ASSUME NEW c \in Commands, Kill(c)
      PROVE  SpreadInv'
  <2>1. /\ \A d \in Commands : Running(d)' => cmd'[d] = cmd[d]
        /\ UNCHANGED <<file, loaded, unreloaded, belated, overlapped>>
    BY <1>0, <1>4, KillStep DEF Kill, hosts, Running
  <2> QED
    BY <1>1, <2>1 DEF SpreadInv, Running
<1>5. ASSUME NEW c \in Commands, NEW g \in Hosts, Request(c, g)
      PROVE  SpreadInv'
  <2>1. /\ Running(c) /\ Narrows(c) /\ belated' = belated /\ overlapped' = overlapped
    BY <1>0, <1>5, RequestStep
  <2>2. ~overlapped => \A d \in Commands : Running(d)' => d = c
    BY <2>1 DEF Alone, Running, Narrows
  <2>3. ASSUME ~overlapped', belated' = {}, Running(c)', cmd'[c].agreed
        PROVE  Spread(c)'
    <3>1. Spread(c) /\ cmd[c].agreed
      BY <2>1, <2>3 DEF SpreadInv, Narrows
    <3> QED
      BY <1>5, <2>1, <3>1, SpreadRequest
  <2> QED
    BY <2>1, <2>2, <2>3 DEF SpreadInv
<1>6. ASSUME NEW r \in late, ExecuteLate(r)
      PROVE  SpreadInv'
  <2>1. belated' # {}
    BY <1>6 DEF ExecuteLate
  <2> QED
    BY <2>1 DEF SpreadInv
<1>7. ASSUME NEW g \in Hosts, StartHost(g) \/ StopHost(g)
      PROVE  SpreadInv'
  <2>1. UNCHANGED <<file, cmd, belated, overlapped>>
    BY <1>7 DEF StartHost, StopHost, StartCluster
  <2>2. \A h \in Hosts :
           \/ loaded'[h] \in {{}, file[h]}
           \/ loaded'[h] = loaded[h] /\ (h \in unreloaded => h \in unreloaded')
    BY <1>0, <1>7 DEF StartHost, StopHost, StartCluster, TypeOK
  <2>3. ASSUME NEW c \in Commands, Spread(c)
        PROVE  Spread(c)'
    <3>1. \A h \in cmd[c].online :
             \/ loaded'[h] \in {{}, file[h]}
             \/ loaded'[h] = loaded[h] /\ (h \in unreloaded => h \in unreloaded')
      BY <1>0, <2>2 DEF TypeOK, Command
    <3>2. Phase(c)' = Phase(c) /\ OldConf(c)' = OldConf(c)
      BY <2>1 DEF Phase, OldConf
    <3>3. \A h \in cmd[c].online : SpreadTo(c, h)
      BY <2>3 DEF Spread
    <3>4. \A h \in cmd[c].online : SpreadTo(c, h)'
      BY <2>1, <3>1, <3>2, <3>3 DEF SpreadTo, Taken
    <3> QED
      BY <2>1, <2>3, <3>2, <3>4 DEF Spread
  <2> QED
    BY <2>1, <2>3 DEF SpreadInv, Running
<1>8. CASE UNCHANGED vars
  <2>1. UNCHANGED <<file, loaded, unreloaded, cmd, belated, overlapped>>
    BY <1>8 DEF vars, hosts
  <2> QED
    BY <1>1, <2>1 DEF SpreadInv, Running
<1> QED
  BY <1>2, <1>3, <1>4, <1>5, <1>6, <1>7, <1>8, StepKinds

\* No command runs at the beginning.
LEMMA OrderInvInit == Init => OrderInv
<1> SUFFICES ASSUME Init
             PROVE  OrderInv
  OBVIOUS
<1>1. \A c \in Commands : ~Running(c)
  BY IdleCommand DEF Init, Running
<1> QED
  BY <1>1 DEF OrderInv, PlanInv, Alone, PrepInv, SpreadInv

\* Every step preserves the whole.
LEMMA OrderInvStep == ListInv /\ OrderInv /\ [Next]_vars => OrderInv'
BY PlanInvStep, AloneStep, PrepInvStep, SpreadInvStep DEF OrderInv

\* Without overlapping commands every new node has all that add_nodes prepares
\* by the time corosync.conf is sent out, whatever failed before, but for the
\* steps that --force let go on without a file.
THEOREM NewNodesPrepared == Spec => []PreparedBeforeListed
<1>1. ListInv /\ OrderInv => PreparedBeforeListed
  <2> SUFFICES ASSUME ListInv, OrderInv, ~overlapped, NEW c \in Commands, Running(c),
                      cmd[c].kind = "add",
                      Phase(c) \in {"distribute", "reload", "enable", "start"},
                      NEW h \in cmd[c].targets \ belated,
                      NEW s \in PrepSteps \ cmd[c].skipped
               PROVE  s \in prep[h]
    BY DEF PreparedBeforeListed
  <2>1. /\ cmd[c].plan \in Seq(Phases) /\ cmd[c].plan # <<>> /\ PlanOk(cmd[c].plan)
    BY DEF ListInv, TypeOK, Command, CommandShape, OrderInv, PlanInv
  <2>2. Phase(c) = cmd[c].plan[1] /\ 1 \in 1 .. Len(cmd[c].plan)
    BY <2>1 DEF Phase
  <2>3. Phase(c) \notin Early
    BY DEF Early, PrepSteps
  <2>4. \A j \in 1 + 1 .. Len(cmd[c].plan) : cmd[c].plan[j] \notin PrepSteps
    BY <2>1, <2>2, <2>3 DEF PlanOk
  <2>5. s \notin Ahead(cmd[c].plan)
    <3>1. 1 + 1 = 2
      OBVIOUS
    <3> QED
      BY <2>4, <3>1 DEF Ahead
  <2>6. Phase(c) # s
    BY <2>3 DEF Early
  <2> QED
    BY <2>5, <2>6 DEF OrderInv, PrepInv
<1> QED
  BY <1>1, ListInvInit, ListInvStep, OrderInvInit, OrderInvStep, PTL DEF Spec

\* A command that goes on to start the new nodes or to clean the CIB has its
\* new corosync.conf on all nodes that take part and in the corosync they run,
\* unless that corosync failed to take it over, if these nodes agreed at its
\* beginning.
THEOREM ReloadReachesAll == Spec => []ReloadedBeforeStart
<1>1. OrderInv => ReloadedBeforeStart
  BY DEF OrderInv, SpreadInv, Spread, SpreadTo, Taken, ReloadedBeforeStart, Final
<1> QED
  BY <1>1, ListInvInit, ListInvStep, OrderInvInit, OrderInvStep, PTL DEF Spec

=============================================================================
