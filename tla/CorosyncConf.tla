---------------------------- MODULE CorosyncConf ----------------------------
(***************************************************************************)
(* The commands that change the corosync.conf of a cluster, each with the   *)
(* checks it makes first: quorum.py, sbd.py, cluster/link.py, cluster/      *)
(* node.py and cluster/setup_node.py under pcs/lib/commands.  All nodes     *)
(* hold the same file here, and a command either distributes it or fails;   *)
(* Membership models the distribution itself.  The requests that set up and *)
(* tear down the client of a quorum device may fail on some nodes.          *)
(*                                                                         *)
(* push_corosync_conf refuses a change that needs a stopped cluster while   *)
(* the cluster runs, and makes a running cluster reload any other change,   *)
(* so a running cluster uses conf itself.                                  *)
(***************************************************************************)
EXTENDS ConfigValidators

CONSTANTS
    InitialConfigs, \* what cluster setup may have written
    MaxNewNodes,    \* bound: nodes added by one command
    InputDevices,   \* quorum devices the user may ask for
    MaxRepeats,     \* bound: names given twice to one remove_nodes command
    Forces          \* BOOLEAN where the user may override checks

ASSUME CommandsAssumption ==
    /\ InputDevices \subseteq Devices
    /\ MaxNewNodes \in Nat
    /\ MaxRepeats \in Nat
    /\ Forces \subseteq BOOLEAN

VARIABLES
    conf,    \* corosync.conf of the cluster
    running, \* does corosync run?
    sbd,     \* SBD: "off", "watchdog" (enabled, no devices) or "devices"
    client   \* the nodes that corosync-qdevice is set up on: "none", "some"
             \* or "all"

vars == <<conf, running, sbd, client>>

TypeOK ==
    /\ conf \in Configs
    /\ running \in BOOLEAN
    /\ sbd \in {"off", "watchdog", "devices"}
    /\ client \in {"none", "some", "all"}

Init ==
    /\ conf \in InitialConfigs
    /\ running \in BOOLEAN
    /\ sbd = "off"
    /\ client = "none"

(***************************************************************************)
(* push_corosync_conf in env.py: the change is refused when it needs a      *)
(* stopped cluster and corosync runs.                                      *)
(***************************************************************************)
Accepted(needStopped) == needStopped => ~running

Push(c, needStopped) ==
    /\ Accepted(needStopped)
    /\ conf' = c

(***************************************************************************)
(* pcs/lib/sbd.py.  modifier is added to the number of nodes.               *)
(***************************************************************************)
EvenNumberOfNodesAndNoQdevice(c, modifier) ==
    /\ c.device = NoDevice
    /\ (Cardinality(Nodes(c)) + modifier) % 2 = 0

AutoTieBreakerNeeded(c, modifier) ==
    EvenNumberOfNodesAndNoQdevice(c, modifier) /\ sbd = "watchdog"

AtbHasToBeEnabled(c, modifier) == ~c.atb /\ AutoTieBreakerNeeded(c, modifier)

EnableAtb(c) == SetQuorumOptions(c, TRUE, c.lms)

(***************************************************************************)
(* quorum.py                                                               *)
(***************************************************************************)

\* set_options
SetOptions(atb, lms, force) ==
    /\ ValidQuorumOptions(conf, atb # conf.atb \/ lms # conf.lms)
    /\ LET c == SetQuorumOptions(conf, atb, lms)
       IN /\ conf.atb /\ AtbHasToBeEnabled(c, 0) => force
          /\ Push(c, TRUE)
    /\ UNCHANGED <<running, sbd, client>>

\* Requests that are to bring the client to a level on every node.  One that
\* fails may have been carried out by any of them; skip_offline goes on as if
\* it had not failed.
Attempted(level) == client' \in {client, "some", level}
Reached(level, skip) == IF skip THEN Attempted(level) ELSE client' = level

\* Faulty variant of AddDevice: the file is pushed although the client could
\* not be set up.
AddDeviceAnyway(d, force, skip) ==
    /\ conf.device = NoDevice
    /\ d.model = "net" => ValidTieBreaker(conf, d.tie_breaker, force)
    /\ Attempted("all")
    /\ \/ Push(AddQuorumDevice(conf, d), AddDeviceNeedsStopped(conf))
       \/ UNCHANGED conf
    /\ UNCHANGED <<running, sbd>>

\* add_device: certificates (model net) and service are set up on all nodes
\* before the file is pushed.  When one of the requests fails, or the push
\* does or is refused, what has been set up stays.  Starting the service comes
\* last; it also starts with the cluster.
AddDevice(d, force, skip) ==
    /\ conf.device = NoDevice
    /\ d.model = "net" => ValidTieBreaker(conf, d.tie_breaker, force)
    /\ \/ /\ Reached("all", skip)
          /\ Push(AddQuorumDevice(conf, d), AddDeviceNeedsStopped(conf))
       \/ Attempted("all") /\ UNCHANGED conf
    /\ UNCHANGED <<running, sbd>>

\* update_device: a tie breaker that is not given stays and is not checked.
UpdateDevice(d, force) ==
    /\ conf.device # NoDevice
    /\ d.model = conf.device.model
    /\ d.model = "net" /\ d.tie_breaker # conf.device.tie_breaker =>
          ValidTieBreaker(conf, d.tie_breaker, force)
    /\ Push(UpdateQuorumDevice(conf, d), FALSE)
    /\ UNCHANGED <<running, sbd, client>>

\* remove_device: the service is disabled and stopped and the certificates are
\* destroyed before the file is pushed.  When one of the requests fails, or
\* the push does or is refused, the device stays in corosync.conf.
RemoveDevice(skip) ==
    /\ conf.device # NoDevice
    /\ LET c == RemoveQuorumDevice(conf)
           atb == AtbHasToBeEnabled(c, 0)
       IN \/ /\ Reached("none", skip)
             /\ Push(IF atb THEN EnableAtb(c) ELSE c, atb)
          \/ Attempted("none") /\ UNCHANGED conf
    /\ UNCHANGED <<running, sbd>>

(***************************************************************************)
(* cluster/link.py and rename_node_corosync of cluster/node.py              *)
(***************************************************************************)
AddLinkCommand(l, map, options) ==
    /\ ValidAddLink(conf, l, map)
    /\ Push(AddLink(conf, l, map, options), FALSE)

RemoveLinksCommand(L) ==
    /\ ValidRemoveLinks(conf, L)
    /\ Push(RemoveLinks(conf, L), FALSE)

UpdateLinkCommand(l, map, interface) ==
    /\ ValidUpdateLink(conf, l, map)
    /\ Push(UpdateLink(conf, l, map, interface), TRUE)

RenameNodeCommand(old, new) ==
    /\ old # new
    /\ old \in Nodes(conf)
    /\ new \notin Nodes(conf)
    /\ Push(RenameNode(conf, old, new), TRUE)

(***************************************************************************)
(* add_nodes of cluster/setup_node.py and remove_nodes of cluster/node.py   *)
(* distribute the file themselves; auto_tie_breaker is only enabled where   *)
(* corosync does not run.                                                  *)
(***************************************************************************)
\* New nodes get the client of a configured device.
AddNodesCommand(new, ids) ==
    /\ ValidAddNodes(conf, new)
    /\ LET c == AddNodes(conf, new, ids)
           atb == AtbHasToBeEnabled(conf, Cardinality(DOMAIN new))
           level == IF conf.device = NoDevice THEN "none" ELSE "all"
       IN /\ atb => ~running
          /\ conf' = IF atb THEN EnableAtb(c) ELSE c
          /\ client' = IF client = level THEN level ELSE "some"
    /\ UNCHANGED <<running, sbd>>

\* The nodes that have the client may be the ones that go, or that stay.
ClientOfRemaining == client' \in IF client = "some" THEN {"none", "some", "all"} ELSE {client}

\* Faulty variant of RemoveNodesCommand: SBD is forgotten.
RemoveNodesForgetsSbd(S, repeats) ==
    /\ ValidRemoveNodes(conf, S)
    /\ conf' = RemoveNodes(conf, S)
    /\ ClientOfRemaining
    /\ UNCHANGED <<running, sbd>>

\* node_list holds the names S, repeats of them twice: the names are removed
\* once, len(node_list) counts them all.
RemoveNodesCommand(S, repeats) ==
    /\ ValidRemoveNodes(conf, S)
    /\ LET c == RemoveNodes(conf, S)
           atb == AtbHasToBeEnabled(conf, -(Cardinality(S) + repeats))
       IN /\ atb => ~running
          /\ conf' = IF atb THEN EnableAtb(c) ELSE c
    /\ ClientOfRemaining
    /\ UNCHANGED <<running, sbd>>

(***************************************************************************)
(* sbd.py                                                                  *)
(***************************************************************************)

\* enable_sbd: a refused push ends the command before SBD is set up.
EnableSbd(devices) ==
    /\ LET atb == /\ ~devices
                  /\ ~conf.atb
                  /\ EvenNumberOfNodesAndNoQdevice(conf, 0)
       IN Push(IF atb THEN EnableAtb(conf) ELSE conf, atb)
    /\ sbd' = IF devices THEN "devices" ELSE "watchdog"
    /\ UNCHANGED <<running, client>>

DisableSbd ==
    /\ sbd' = "off"
    /\ UNCHANGED <<conf, running, client>>

\* cluster start and stop
StartCluster == ~running /\ running' = TRUE /\ UNCHANGED <<conf, sbd, client>>
StopCluster == running /\ running' = FALSE /\ UNCHANGED <<conf, sbd, client>>

(***************************************************************************)
(* Addresses the user may give: one for every used link of every new node,  *)
(* or one for some nodes on one link.                                      *)
(***************************************************************************)
NewNodeMaps ==
    UNION {[S -> [UsedLinks(conf) -> Addrs]] :
              S \in {T \in SUBSET (Names \ Nodes(conf)) :
                        T # {} /\ Cardinality(T) <= MaxNewNodes}}

AddrMaps(subsets) == UNION {[S -> Addrs] : S \in subsets}

\* A command on links or names changes nothing but the file.
LinkCommand ==
    /\ UNCHANGED <<running, sbd, client>>
    /\ \/ \E l \in Links, map \in AddrMaps({Nodes(conf)}), options \in BOOLEAN :
             AddLinkCommand(l, map, options)
       \/ \E L \in SUBSET Links : RemoveLinksCommand(L)
       \/ \E l \in Links, map \in AddrMaps(SUBSET Nodes(conf)) :
             \E interface \in {conf.interface, conf.interface \cup {l},
                               conf.interface \ {l}} :
                UpdateLinkCommand(l, map, interface)
       \/ \E old, new \in Names : RenameNodeCommand(old, new)

(***************************************************************************)
(* A command that overrides checks as one of forces says, skips offline     *)
(* nodes as one of skips says, and gives remove_nodes up to maxRepeats      *)
(* names twice.                                                            *)
(***************************************************************************)
Command(forces, skips, maxRepeats) ==
    \/ \E atb, lms \in BOOLEAN, force \in forces : SetOptions(atb, lms, force)
    \/ \E d \in InputDevices, force \in forces :
          UpdateDevice(d, force) \/ \E skip \in skips : AddDevice(d, force, skip)
    \/ \E skip \in skips : RemoveDevice(skip)
    \/ LinkCommand
    \/ \E new \in NewNodeMaps : \E ids \in NewIds(conf, new) :
          AddNodesCommand(new, ids)
    \/ \E S \in SUBSET Names, repeats \in 0 .. maxRepeats :
          S # {} /\ repeats <= Cardinality(S) /\ RemoveNodesCommand(S, repeats)
    \/ \E devices \in BOOLEAN : EnableSbd(devices)
    \/ DisableSbd
    \/ StartCluster
    \/ StopCluster

Next == Command(Forces, BOOLEAN, MaxRepeats)

Spec == Init /\ [][Next]_vars
=============================================================================
