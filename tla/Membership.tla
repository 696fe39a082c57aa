----------------------------- MODULE Membership -----------------------------
(***************************************************************************)
(* Adding nodes to a cluster and removing them, host by host: add_nodes in  *)
(* pcs/lib/commands/cluster/setup_node.py and remove_nodes in node.py.  A   *)
(* command is a sequence of batches of requests, one request per target.    *)
(* Any of them may fail, time out after the host did what was asked, or     *)
(* time out before the host does it; the command itself may be killed.      *)
(* Nothing locks the cluster: commands run from any host, also together.    *)
(*                                                                         *)
(* A corosync.conf is the set of nodes it lists, {} when there is none.     *)
(* CorosyncConf models what else is in it and which changes are refused.    *)
(***************************************************************************)
EXTENDS Naturals, Sequences, FiniteSets

CONSTANTS
    Hosts,    \* hosts that may be in the cluster
    Commands, \* bound: commands that may be run, each once
    Members,  \* the nodes of the cluster at the start
    MaxLate,  \* bound: requests a host gets to after pcs gave up on them
    Together, \* may commands run together?
    Options,  \* the --enable and --start options users combine
    Missing   \* bound: the steps of an add that may miss files, together

ASSUME MembershipAssumption ==
    /\ Members \subseteq Hosts
    /\ Members # {}
    /\ MaxLate \in Nat
    /\ Together \in BOOLEAN
    /\ Options \subseteq [enable : BOOLEAN, start : BOOLEAN]
    /\ Missing \subseteq SUBSET {"booth", "files"}

\* What add_nodes puts on a new node before corosync.conf.
PrepSteps == {"known_hosts", "qdevice", "sbd", "booth", "files", "ssl"}

\* The steps that send files add_nodes has to read first.  With --force it
\* only warns of a file it cannot read, or a booth configuration it cannot
\* parse, and sends the others ("partial").
FileSteps == {"booth", "files"}

Phases ==
    PrepSteps \cup {"partial", "destroy", "distribute", "reload", "enable", "start", "cib"}

\* The batches of add_nodes, --enable and --start being optional; skipped are
\* the steps that miss a file ...
AddPlan(options, skipped) ==
    LET send(step) == IF step \in skipped THEN "partial" ELSE step
    IN <<"destroy", "known_hosts", "qdevice", "sbd", send("booth"), send("files"),
         "ssl", "distribute", "reload">>
         \o (IF options.enable THEN <<"enable">> ELSE <<>>)
         \o (IF options.start THEN <<"start">> ELSE <<>>)

\* ... and of remove_nodes.
RemovePlan == <<"destroy", "distribute", "reload", "cib">>

\* What pcs cluster destroy undoes on a host.
Undone == {"qdevice", "sbd", "files", "enable"}

VARIABLES
    file,       \* corosync.conf on each host
    loaded,     \* what the corosync of each host runs with, {} if stopped
    prep,       \* what add_nodes has put on each host, "enable" too
    cmd,        \* the commands
    unreloaded, \* hosts whose corosync failed to take its file over
    late,       \* requests given up by their command and not yet executed
    belated,    \* history: hosts that executed such a request
    overlapped  \* history: were two commands ever run together?

hosts == <<file, loaded, prep, unreloaded>>
vars == <<hosts, cmd, late, belated, overlapped>>

Command ==
    [kind : {"add", "remove"},
     plan : Seq(Phases),        \* the phases still to do, the current one first
     targets : SUBSET Hosts,    \* the nodes to add or to remove
     online : SUBSET Hosts,     \* the members that take part and stay
     conf : SUBSET Hosts,       \* the new corosync.conf
     todo : SUBSET Hosts,       \* targets of the phase that have not answered
     failures : BOOLEAN,        \* did a request of this phase fail?
     reloaded : BOOLEAN,        \* did a node say "reloaded"?
     warned : SUBSET Hosts,     \* hosts reported as unreachable
     skipped : SUBSET FileSteps, \* steps of an add that miss a file
     agreed : BOOLEAN,          \* history: did online agree at the start?
     result : {"free", "running", "ended"}]

Late == [what : Phases, host : Hosts, conf : SUBSET Hosts]

TypeOK ==
    /\ file \in [Hosts -> SUBSET Hosts]
    /\ loaded \in [Hosts -> SUBSET Hosts]
    /\ prep \in [Hosts -> SUBSET Phases]
    /\ unreloaded \in SUBSET Hosts
    /\ cmd \in [Commands -> Command]
    /\ late \in SUBSET Late
    /\ belated \in SUBSET Hosts
    /\ overlapped \in BOOLEAN

\* A command that does not run; nothing is left of one that has ended, well or
\* not: neither the hosts nor later commands know which.
Idle(result) ==
    [kind |-> "add", plan |-> <<>>, targets |-> {}, online |-> {}, conf |-> {},
     todo |-> {}, failures |-> FALSE, reloaded |-> FALSE, warned |-> {},
     skipped |-> {}, agreed |-> FALSE, result |-> result]

\* A cluster set up by pcs, some of its nodes started.
Init ==
    /\ file = [h \in Hosts |-> IF h \in Members THEN Members ELSE {}]
    /\ \E on \in SUBSET Members :
          loaded = [h \in Hosts |-> IF h \in on THEN Members ELSE {}]
    /\ prep = [h \in Hosts |-> IF h \in Members THEN PrepSteps ELSE {}]
    /\ cmd = [c \in Commands |-> Idle("free")]
    /\ unreloaded = {}
    /\ late = {}
    /\ belated = {}
    /\ overlapped = FALSE

Running(c) == cmd[c].result = "running"
Phase(c) == Head(cmd[c].plan)

(***************************************************************************)
(* Starting a command on a host: it reads the corosync.conf of that host,   *)
(* asks the nodes listed there who is online (GetOnlineTargets) and makes   *)
(* its checks.  All nodes have to be online unless skip_offline is given.   *)
(***************************************************************************)
Online(at, skip) ==
    {on \in SUBSET file[at] : on # {} /\ (skip \/ on = file[at])}

\* The nodes have the file of host at, and what runs has loaded it.
Agree(online, at) ==
    \A h \in online : file[h] = file[at] /\ loaded[h] \in {{}, file[at]}

Start(c, at, kind, plan, nodes, online, conf, skipped) ==
    /\ cmd[c].result = "free"
    /\ cmd' = [cmd EXCEPT ![c] =
                 [kind |-> kind, plan |-> plan, targets |-> nodes,
                  online |-> online, conf |-> conf, todo |-> nodes,
                  failures |-> FALSE, reloaded |-> FALSE, warned |-> {},
                  skipped |-> skipped, agreed |-> Agree(online, at), result |-> "running"]]
    /\ overlapped' = (overlapped \/ \E d \in Commands : Running(d))
    /\ UNCHANGED <<hosts, late, belated>>

\* host_check_cluster_setup: a host that runs a cluster or has a corosync.conf
\* is taken only with --force.
HostCheckClusterSetup(n, force) == force \/ (file[n] = {} /\ loaded[n] = {})

\* A file that cannot be read ends a command without --force, as Kill does.
StartAdd(c, at, nodes, skip, force, options, skipped) ==
    /\ skipped # {} => force
    /\ file[at] # {}
    /\ nodes # {}
    /\ nodes \cap file[at] = {}
    /\ \A n \in nodes : HostCheckClusterSetup(n, force)
    /\ \E online \in Online(at, skip) :
          Start(c, at, "add", AddPlan(options, skipped), nodes, online,
                file[at] \cup nodes, skipped)

\* Faulty variant of StartRemove: the new file is sent to the removed nodes too.
StartRemoveSendsToAll(c, at, nodes, skip) ==
    /\ nodes # {}
    /\ nodes \subseteq file[at]
    /\ \E online \in Online(at, skip) :
          /\ online \ nodes # {}
          /\ Start(c, at, "remove", RemovePlan, nodes, online, file[at] \ nodes, {})

\* At least one node that stays has to be online.
StartRemove(c, at, nodes, skip) ==
    /\ nodes # {}
    /\ nodes \subseteq file[at]
    /\ \E online \in Online(at, skip) :
          /\ online \ nodes # {}
          /\ Start(c, at, "remove", RemovePlan, nodes, online \ nodes,
                   file[at] \ nodes, {})

(***************************************************************************)
(* What a host does when it gets a request.                                *)
(***************************************************************************)
\* pcs cluster destroy stops the cluster and deletes its configuration.
Destroy(h) ==
    /\ file' = [file EXCEPT ![h] = {}]
    /\ loaded' = [loaded EXCEPT ![h] = {}]
    /\ prep' = [prep EXCEPT ![h] = @ \ Undone]
    /\ unreloaded' = unreloaded \ {h}

SetCorosyncConf(h, conf) ==
    /\ file' = [file EXCEPT ![h] = conf]
    /\ UNCHANGED <<loaded, prep, unreloaded>>

\* The running nodes that the corosync of host h knows of.
Known(h) == {k \in loaded[h] : loaded[k] # {} /\ file[k] # {}}

\* corosync-cfgtool -R: the corosync of every node this one knows of reads its
\* own file again.  Some of them may fail to take it over and go on as before.
ReloadCorosyncConf(h, failed) ==
    /\ loaded' = [k \in Hosts |->
                    IF k \in Known(h) \ failed THEN file[k] ELSE loaded[k]]
    /\ unreloaded' = (unreloaded \ Known(h)) \cup failed
    /\ UNCHANGED <<file, prep>>

StartCluster(h) ==
    /\ loaded' = [loaded EXCEPT ![h] = IF @ = {} THEN file[h] ELSE @]
    /\ UNCHANGED <<file, prep, unreloaded>>

Prepare(h, step) ==
    /\ prep' = [prep EXCEPT ![h] = @ \cup {step}]
    /\ UNCHANGED <<file, loaded, unreloaded>>

\* remove_nodes_from_cib changes only the CIB.
Execute(what, h, conf) ==
    CASE what = "destroy" -> Destroy(h)
      [] what = "distribute" -> SetCorosyncConf(h, conf)
      [] what = "reload" -> \E failed \in SUBSET Known(h) : ReloadCorosyncConf(h, failed)
      [] what = "start" -> StartCluster(h)
      [] what \in {"cib", "partial"} -> UNCHANGED hosts
      [] OTHER -> Prepare(h, what)

(***************************************************************************)
(* The answers to one batch.  Requests to all targets are sent at once,     *)
(* except reload, which asks one node after another until one says          *)
(* "reloaded".                                                             *)
(***************************************************************************)
\* DestroyWarnOnFailure of remove_nodes only warns of a failure.
Fatal(c) == ~(cmd[c].kind = "remove" /\ Phase(c) = "destroy")

Fail(c, h) ==
    cmd' = [cmd EXCEPT ![c].todo = @ \ {h},
                       ![c].failures = @ \/ Fatal(c),
                       ![c].warned = IF Fatal(c) THEN @ ELSE @ \cup {h}]

Asked(c, h) == Running(c) /\ h \in cmd[c].todo

\* The host executes the request and pcs gets its answer.
Answer(c, h) ==
    /\ Asked(c, h)
    /\ Phase(c) # "reload"
    /\ Execute(Phase(c), h, cmd[c].conf)
    /\ cmd' = [cmd EXCEPT ![c].todo = @ \ {h}]
    /\ UNCHANGED <<late, belated, overlapped>>

\* Faulty variant of AnswerReload: a node where corosync does not run ends the search.
AnswerReloadStopsAtFirst(c, h) ==
    /\ Asked(c, h)
    /\ Phase(c) = "reload"
    /\ ReloadCorosyncConf(h, {})
    /\ cmd' = [cmd EXCEPT ![c].todo = {}, ![c].reloaded = TRUE]
    /\ UNCHANGED <<late, belated, overlapped>>

\* reload_corosync_conf on a node where corosync runs, and where it does not.
\* A failure of the node itself is an answer like Refuse or LoseAnswer, one of
\* the other nodes is not reported.
AnswerReload(c, h) ==
    /\ Asked(c, h)
    /\ Phase(c) = "reload"
    /\ \/ /\ loaded[h] # {}
          /\ \E failed \in SUBSET (Known(h) \ {h}) : ReloadCorosyncConf(h, failed)
          /\ cmd' = [cmd EXCEPT ![c].todo = {}, ![c].reloaded = TRUE]
       \/ /\ loaded[h] = {}
          /\ cmd' = [cmd EXCEPT ![c].todo = @ \ {h}]
          /\ UNCHANGED hosts
    /\ UNCHANGED <<late, belated, overlapped>>

\* The host does not execute the request: it is down, or refuses.
Refuse(c, h) ==
    /\ Asked(c, h)
    /\ Fail(c, h)
    /\ UNCHANGED <<hosts, late, belated, overlapped>>

\* The host executes the request and the answer is lost.
LoseAnswer(c, h) ==
    /\ Asked(c, h)
    /\ Execute(Phase(c), h, cmd[c].conf)
    /\ Fail(c, h)
    /\ UNCHANGED <<late, belated, overlapped>>

\* The request times out and the host will still get to it.
TimeOut(c, h) ==
    /\ Asked(c, h)
    /\ Cardinality(late) + Cardinality(belated) < MaxLate
    /\ Fail(c, h)
    /\ late' = late \cup {[what |-> Phase(c), host |-> h, conf |-> cmd[c].conf]}
    /\ UNCHANGED <<hosts, belated, overlapped>>

ExecuteLate(r) ==
    /\ r \in late
    /\ Execute(r.what, r.host, r.conf)
    /\ late' = late \ {r}
    /\ belated' = belated \cup {r.host}
    /\ UNCHANGED <<cmd, overlapped>>

\* Faulty variant of HasErrors: run instead of run_and_raise while preparing.
HasErrorsIgnoresPreparation(c) ==
    cmd[c].failures /\ Phase(c) \notin PrepSteps /\ ~cmd[c].reloaded

\* has_errors of the batch; ReloadCorosyncConf fails only if no node reloaded.
HasErrors(c) == cmd[c].failures /\ ~(Phase(c) = "reload" /\ cmd[c].reloaded)

Receivers(c, phase) ==
    CASE phase = "distribute" /\ cmd[c].kind = "add"
            -> cmd[c].online \cup cmd[c].targets
      [] phase \in {"distribute", "reload", "cib"} -> cmd[c].online
      [] OTHER -> cmd[c].targets

\* run_and_raise: the next batch, or the end of the command.
EndPhase(c) ==
    /\ Running(c)
    /\ cmd[c].todo = {}
    /\ LET rest == Tail(cmd[c].plan)
       IN \/ /\ HasErrors(c) \/ rest = <<>>
             /\ cmd' = [cmd EXCEPT ![c] = Idle("ended")]
          \/ /\ ~HasErrors(c)
             /\ rest # <<>>
             /\ cmd' = [cmd EXCEPT ![c].plan = rest, ![c].failures = FALSE,
                                   ![c].todo = Receivers(c, Head(rest))]
    /\ UNCHANGED <<hosts, late, belated, overlapped>>

\* Faulty variant of Kill: a result that nothing knows.
KillLeavesNoResult(c) ==
    /\ Running(c)
    /\ cmd' = [cmd EXCEPT ![c] = Idle("killed")]
    /\ UNCHANGED <<hosts, late, belated, overlapped>>

\* The command is killed.
Kill(c) ==
    /\ Running(c)
    /\ cmd' = [cmd EXCEPT ![c] = Idle("ended")]
    /\ UNCHANGED <<hosts, late, belated, overlapped>>

(***************************************************************************)
(* The administrator starts or stops the cluster on a host.                *)
(***************************************************************************)
StartHost(h) ==
    /\ file[h] # {}
    /\ loaded[h] = {}
    /\ StartCluster(h)
    /\ UNCHANGED <<cmd, late, belated, overlapped>>

StopHost(h) ==
    /\ loaded[h] # {}
    /\ loaded' = [loaded EXCEPT ![h] = {}]
    /\ unreloaded' = unreloaded \ {h}
    /\ UNCHANGED <<file, prep, cmd, late, belated, overlapped>>

BeginCommand(c) ==
    /\ Together \/ \A d \in Commands : ~Running(d)
    /\ \E at \in Hosts, nodes \in SUBSET Hosts, skip \in BOOLEAN :
          \/ \E force \in BOOLEAN, options \in Options, skipped \in Missing :
                StartAdd(c, at, nodes, skip, force, options, skipped)
          \/ StartRemove(c, at, nodes, skip)

Request(c, h) ==
    \/ Answer(c, h)
    \/ AnswerReload(c, h)
    \/ Refuse(c, h)
    \/ LoseAnswer(c, h)
    \/ TimeOut(c, h)

Next ==
    \/ \E c \in Commands : BeginCommand(c) \/ EndPhase(c) \/ Kill(c)
    \/ \E c \in Commands, h \in Hosts : Request(c, h)
    \/ \E r \in late : ExecuteLate(r)
    \/ \E h \in Hosts : StartHost(h) \/ StopHost(h)

Spec == Init /\ [][Next]_vars
=============================================================================
