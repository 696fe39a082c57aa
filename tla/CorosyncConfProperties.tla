----------------------- MODULE CorosyncConfProperties -----------------------
(* What must hold of corosync.conf after any sequence of commands. *)
EXTENDS CorosyncConf

\* Links are uniform: every node has an address on every used link, there is
\* at least one link, and every interface section belongs to a used link.
\* get_used_linknumber_list relies on it when it reads the first node only.
Uniform(c) ==
    /\ \A n, m \in Nodes(c) : DOMAIN c.addrs[n] = DOMAIN c.addrs[m]
    /\ \A n \in Nodes(c) : /\ DOMAIN c.addrs[n] # {}
                           /\ c.interface \subseteq DOMAIN c.addrs[n]

\* No address is used twice, by two nodes or on two links.
UniqueAddrs(c) ==
    \A n, m \in Nodes(c) : \A l \in DOMAIN c.addrs[n], k \in DOMAIN c.addrs[m] :
        c.addrs[n][l] = c.addrs[m][k] => n = m /\ l = k

\* No two nodes have the same id, and addresses and ids are those of the
\* same nodes.
UniqueIds(c) ==
    /\ DOMAIN c.nodeid = Nodes(c)
    /\ \A n, m \in Nodes(c) : c.nodeid[n] = c.nodeid[m] => n = m

\* A link does not mix IPv4 and IPv6 addresses.
OneFamily(c) ==
    \A n, m \in Nodes(c) : \A l \in DOMAIN c.addrs[n] \cap DOMAIN c.addrs[m] :
        ~(Family[c.addrs[n][l]] = "IPv4" /\ Family[c.addrs[m][l]] = "IPv6")

NodelistOk(c) ==
    /\ Nodes(c) # {}
    /\ Uniform(c)
    /\ UniqueAddrs(c)
    /\ UniqueIds(c)
    /\ OneFamily(c)

\* A device and the quorum options go together.
DeviceOk(c) ==
    /\ c.device # NoDevice => ~c.atb /\ ~c.lms
    /\ c.device # NoDevice /\ c.device.model = "net" =>
          (c.device.votes <=> c.device.algorithm = "ffsplit")

TwoNodeOk(c) ==
    c.two_node <=> /\ Cardinality(Nodes(c)) = 2
                   /\ ~c.atb
                   /\ c.device = NoDevice

\* cluster setup writes such a file (create in config_validators.py and in
\* config_facade.py).
ASSUME SetupAssumption ==
    \A c \in InitialConfigs :
        c \in Configs /\ NodelistOk(c) /\ TwoNodeOk(c) /\ DeviceOk(c)

\* The nodelist stays usable by corosync whatever nodes and links are added,
\* changed, renamed and removed (validators against facade operations).
NodelistConsistent == NodelistOk(conf)

\* two_node is set exactly when votequorum may use it (__update_two_node is
\* called by every operation that changes what it depends on), a device
\* never meets the options it excludes, and a net device has the vote its
\* algorithm needs.
QuorumConsistent == TwoNodeOk(conf) /\ DeviceOk(conf)

\* The tie breaker of a net device is a rule or the id of a member.
TieBreakerIsMember ==
    conf.device # NoDevice /\ conf.device.model = "net" =>
        conf.device.tie_breaker \in {0} \cup UsedIds(conf)

\* SBD without devices fences a half of the cluster only if auto_tie_breaker
\* is set: it is set whenever SBD runs that way in a cluster of an even
\* number of nodes without a device.
AtbForSbd == ~AtbHasToBeEnabled(conf, 0)

\* Although nodes come and go and ids are reused, no command that is not
\* forced makes the tie breaker point at a node that is not a member.
TieBreakerLostByForce ==
    [][TieBreakerIsMember /\ ~TieBreakerIsMember' =>
          ~Command({FALSE}, BOOLEAN, MaxRepeats)]_vars

\* No command that is not forced leaves SBD without the auto_tie_breaker it
\* needs, whatever it does to nodes, options, device and SBD, as long as
\* remove_nodes is given every name once: it counts a node that it is given
\* twice two times (node.py:177-179) and then may lose the option.
AtbLostByForce ==
    [][AtbForSbd /\ ~AtbForSbd' => ~Command({FALSE}, BOOLEAN, 0)]_vars

\* Changes that corosync cannot take over by a reload: quorum options,
\* addresses of existing nodes on existing links, names and ids.
ReloadApplies(c, d) ==
    /\ c.atb = d.atb /\ c.lms = d.lms
    /\ \A n \in Nodes(c) \cap Nodes(d) :
          \A l \in DOMAIN c.addrs[n] \cap DOMAIN d.addrs[n] :
              c.addrs[n][l] = d.addrs[n][l]
    /\ \A n \in Nodes(c), m \in Nodes(d) : c.nodeid[n] = d.nodeid[m] <=> n = m

\* A running cluster is never given a file that a reload cannot apply: the
\* computation of need_stopped_cluster and the checks of add_nodes and
\* remove_nodes cover every command.
RunningOnlyReloads ==
    [][running /\ running' => ReloadApplies(conf, conf')]_vars

\* A configured device has its client on every node.
Served == conf.device # NoDevice => client = "all"

\* SBD without devices finds what breaks a tie in a cluster of an even number
\* of nodes: auto_tie_breaker, or a device with its client.
TieBreaking ==
    sbd = "watchdog" /\ Cardinality(Nodes(conf)) % 2 = 0 =>
        conf.atb \/ (conf.device # NoDevice /\ client = "all")

\* Changes of nodes, options, device and SBD in any order, failing half way or
\* not, keep what breaks a tie: add_device drops auto_tie_breaker only when
\* the client is there, remove_device brings it back with the client gone.
\* What may lose it: force, skipped nodes, a name given twice and a
\* remove_device that fails, or is refused by push_corosync_conf, after it has
\* begun to tear down the client (quorum.py:376-416).
TieBreakingKept ==
    [][Served /\ TieBreaking /\ ~TieBreaking' =>
          \/ UNCHANGED conf /\ RemoveDevice(FALSE)
          \/ ~Command({FALSE}, {FALSE}, 0)]_vars
=============================================================================
