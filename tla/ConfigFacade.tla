---------------------------- MODULE ConfigFacade ----------------------------
(***************************************************************************)
(* corosync.conf as pcs reads and edits it: pcs/lib/corosync/               *)
(* config_facade.py.  A configuration is a value; every method of the       *)
(* facade that changes it is an operator from a configuration to the        *)
(* changed one.                                                            *)
(*                                                                         *)
(* Kept of the file: the nodelist (addresses and ids of the nodes), which   *)
(* links have an interface section, the quorum options that pcs itself      *)
(* reads again (auto_tie_breaker, two_node), last_man_standing with its     *)
(* window as one flag, and the quorum device.  Options that no operation    *)
(* reads again (totem, crypto, heuristics, time-outs) are left out.         *)
(***************************************************************************)
EXTENDS Integers, FiniteSets

CONSTANTS
    Names,    \* names a node may have
    Addrs,    \* addresses a node may have
    LinksMax, \* constants.LINKS_KNET_MAX
    NoDevice  \* the file has no quorum device

Links == 0 .. LinksMax - 1

\* The smallest unused ids are at most as many as there are names.
NodeIds == 1 .. Cardinality(Names)

\* The device section: generic option votes, model options algorithm and
\* tie_breaker, a node id or 0 for one of the rules lowest and highest.
\* "other": a model pcs does not know, added by force.
Devices ==
    [model : {"net", "other"}, algorithm : {"ffsplit", "lms"},
     votes : BOOLEAN, tie_breaker : Nat]

ASSUME FacadeAssumption ==
    /\ IsFiniteSet(Names)
    /\ LinksMax \in Nat \ {0}
    /\ NoDevice \notin Devices

\* The addresses of one node: ring0_addr, ring1_addr, ...
LinkAddrs == UNION {[L -> Addrs] : L \in SUBSET Links}

Configs ==
    [addrs : UNION {[S -> LinkAddrs] : S \in SUBSET Names},
     nodeid : UNION {[S -> NodeIds] : S \in SUBSET Names},
     interface : SUBSET Links,
     atb : BOOLEAN, lms : BOOLEAN, two_node : BOOLEAN,
     device : Devices \cup {NoDevice}]

\* get_nodes: only nodes with a name are modelled.
Nodes(c) == DOMAIN c.addrs

\* get_used_linknumber_list reads the first node only; Uniform, below, is
\* what makes that right.
UsedLinks(c) == LET first == CHOOSE n \in Nodes(c) : TRUE
                IN DOMAIN c.addrs[first]

RangeOf(f) == {f[x] : x \in DOMAIN f}

\* Every address in the nodelist.
AddrsOf(c) == UNION {RangeOf(c.addrs[n]) : n \in Nodes(c)}

UsedIds(c) == {c.nodeid[n] : n \in Nodes(c)}

\* __update_two_node
UpdateTwoNode(c) ==
    [c EXCEPT !.two_node = /\ Cardinality(Nodes(c)) = 2
                           /\ ~c.atb
                           /\ c.device = NoDevice]

\* Faulty variant of NewIds: the generator starts at 0.
NewIdsFromZero(c, new) ==
    {f \in [DOMAIN new -> 0 .. Cardinality(Nodes(c))] :
        \A n \in DOMAIN new : f[n] \notin UsedIds(c)}

\* _get_nodeid_generator gives the smallest unused ids in the order of the
\* new nodes: the smallest ids, handed out in some order.
NewIds(c, new) ==
    {f \in [DOMAIN new -> 1 .. Cardinality(Nodes(c)) + Cardinality(DOMAIN new)] :
        /\ \A n, m \in DOMAIN new : f[n] = f[m] => n = m
        /\ \A n \in DOMAIN new : f[n] \notin UsedIds(c)
        /\ \A n \in DOMAIN new : \A i \in 1 .. f[n] - 1 :
              i \in UsedIds(c) \/ \E m \in DOMAIN new : f[m] = i}

\* add_nodes: new maps a name to its addresses on the used links.
AddNodes(c, new, ids) ==
    UpdateTwoNode(
        [c EXCEPT !.addrs = [n \in Nodes(c) \cup DOMAIN new |->
                                IF n \in DOMAIN new THEN new[n] ELSE c.addrs[n]],
                  !.nodeid = [n \in Nodes(c) \cup DOMAIN new |->
                                IF n \in DOMAIN new THEN ids[n] ELSE c.nodeid[n]]])

\* remove_nodes
RemoveNodes(c, S) ==
    UpdateTwoNode(
        [c EXCEPT !.addrs = [n \in Nodes(c) \ S |-> c.addrs[n]],
                  !.nodeid = [n \in Nodes(c) \ S |-> c.nodeid[n]]])

\* rename_node; needs a stopped cluster.
RenameNode(c, old, new) ==
    LET Source(n) == IF n = new THEN old ELSE n
        S == (Nodes(c) \ {old}) \cup {new}
    IN [c EXCEPT !.addrs = [n \in S |-> c.addrs[Source(n)]],
                 !.nodeid = [n \in S |-> c.nodeid[Source(n)]]]

\* add_link: map has the address of every node, options says whether an
\* interface section is written (_set_link_options).  Without a given number
\* the code takes the lowest free one; here l may be any free one.
AddLink(c, l, map, options) ==
    [c EXCEPT !.addrs = [n \in Nodes(c) |->
                            IF n \in DOMAIN map
                            THEN [k \in DOMAIN c.addrs[n] \cup {l} |->
                                    IF k = l THEN map[n] ELSE c.addrs[n][k]]
                            ELSE c.addrs[n]],
              !.interface = IF options THEN @ \cup {l} ELSE @]

\* remove_links
RemoveLinks(c, L) ==
    [c EXCEPT !.addrs = [n \in Nodes(c) |->
                            [k \in DOMAIN c.addrs[n] \ L |-> c.addrs[n][k]]],
              !.interface = @ \ L]

\* update_link changes the addresses of some nodes, then the options: the
\* interface section is kept, written, or removed because it became empty.
\* Needs a stopped cluster.
UpdateLink(c, l, map, interface) ==
    [c EXCEPT !.addrs = [n \in Nodes(c) |->
                            [k \in DOMAIN c.addrs[n] |->
                                IF k = l /\ n \in DOMAIN map
                                THEN map[n] ELSE c.addrs[n][k]]],
              !.interface = interface]

\* set_quorum_options with the two options that are kept; needs a stopped
\* cluster.
SetQuorumOptions(c, atb, lms) ==
    UpdateTwoNode([c EXCEPT !.atb = atb, !.lms = lms])

\* __update_qdevice_votes: ffsplit has one vote, other algorithms none; an
\* unknown model keeps what was set.
UpdateQdeviceVotes(d) ==
    IF d.model = "net" THEN [d EXCEPT !.votes = d.algorithm = "ffsplit"] ELSE d

\* add_quorum_device drops the options that do not go with a device.
AddQuorumDevice(c, d) ==
    UpdateTwoNode([c EXCEPT !.atb = FALSE, !.lms = FALSE,
                            !.device = UpdateQdeviceVotes(d)])

\* Faulty variant of AddDeviceNeedsStopped: last_man_standing is forgotten.
AddDeviceNeedsStoppedForAtb(c) == c.atb

\* _need_stopped_cluster after add_quorum_device: one of the dropped options
\* was in effect.
AddDeviceNeedsStopped(c) == c.atb \/ c.lms

\* Faulty variant of UpdateQuorumDevice: the votes stay those of the old algorithm.
UpdateQuorumDeviceKeepsVotes(c, d) ==
    UpdateTwoNode([c EXCEPT !.device = [d EXCEPT !.votes = c.device.votes]])

\* update_quorum_device
UpdateQuorumDevice(c, d) ==
    UpdateTwoNode([c EXCEPT !.device = UpdateQdeviceVotes(d)])

\* remove_quorum_device
RemoveQuorumDevice(c) == UpdateTwoNode([c EXCEPT !.device = NoDevice])
=============================================================================
