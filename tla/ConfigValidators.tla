-------------------------- MODULE ConfigValidators --------------------------
(***************************************************************************)
(* The validators of pcs/lib/corosync/config_validators.py as predicates:   *)
(* TRUE where the code reports no error.  Errors that the user may turn     *)
(* into a warning by force take the flag as a parameter.  Checks of the     *)
(* form of a single value (numbers, names, empty strings) and of            *)
(* ip_version are left out: the inputs are well formed.                     *)
(***************************************************************************)
EXTENDS ConfigFacade

CONSTANTS
    Family,    \* of an address: "IPv4", "IPv6" or "FQDN" (a name, resolvable
               \* or not)
    Knet,      \* is the transport knet?
    PcmkAddrs, \* addresses of pacemaker remote and guest nodes
    PcmkNames  \* and their names

ASSUME ValidatorsAssumption ==
    /\ Family \in [Addrs -> {"IPv4", "IPv6", "FQDN"}]
    /\ Knet \in BOOLEAN
    /\ PcmkAddrs \subseteq Addrs
    /\ PcmkNames \subseteq Names

\* _mixes_ipv4_ipv6
MixesIpv4Ipv6(addrs) == {"IPv4", "IPv6"} \subseteq {Family[a] : a \in addrs}

AddrsOfLink(c, l) == {c.addrs[n][l] : n \in Nodes(c)}

\* _extract_existing_addrs_and_names: an IP family wins over a name.
ExistingAddrType(c, l) ==
    LET families == {Family[a] : a \in AddrsOfLink(c, l)} \ {"FQDN"}
    IN IF families = {} THEN "FQDN" ELSE CHOOSE f \in families : TRUE

\* Two entries of a map from nodes to addresses are never the same address.
Unique(map) == \A n, m \in DOMAIN map : map[n] = map[m] => n = m

\* add_nodes.  The number of addresses is right: the caller's new nodes have
\* one for every used link.
ValidAddNodes(c, new) ==
    /\ DOMAIN new # {}
    /\ DOMAIN new \cap (Nodes(c) \cup PcmkNames) = {}
    /\ \A n \in DOMAIN new, l \in UsedLinks(c) :
          /\ new[n][l] \notin AddrsOf(c) \cup PcmkAddrs
          /\ \/ Family[new[n][l]] = "FQDN"
             \/ ExistingAddrType(c, l) \in {"FQDN", Family[new[n][l]]}
    /\ \A n, m \in DOMAIN new, l, k \in UsedLinks(c) :
          new[n][l] = new[m][k] => n = m /\ l = k
    /\ \A l \in UsedLinks(c) : ~MixesIpv4Ipv6({new[n][l] : n \in DOMAIN new})

\* Faulty variant of ValidRemoveNodes: the tie breaker is not looked at.
ValidRemoveNodesAnyTieBreaker(c, S) == S \subseteq Nodes(c) /\ Nodes(c) \ S # {}

\* remove_nodes
ValidRemoveNodes(c, S) ==
    /\ S \subseteq Nodes(c)
    /\ Nodes(c) \ S # {}
    /\ c.device # NoDevice /\ c.device.model = "net" =>
          \A n \in S : c.nodeid[n] # c.device.tie_breaker

\* add_link with link number l
ValidAddLink(c, l, map) ==
    /\ Knet
    /\ Cardinality(UsedLinks(c)) + 1 <= LinksMax
    /\ DOMAIN map = Nodes(c)
    /\ ~MixesIpv4Ipv6(RangeOf(map))
    /\ RangeOf(map) \cap (AddrsOf(c) \cup PcmkAddrs) = {}
    /\ Unique(map)
    /\ l \notin UsedLinks(c)

\* remove_links
ValidRemoveLinks(c, L) ==
    /\ Knet
    /\ L # {}
    /\ L \subseteq UsedLinks(c)
    /\ UsedLinks(c) \ L # {}

\* Faulty variant of UnchangedAddrs: other links of the changed nodes are forgotten.
UnchangedAddrsOfOthers(c, l, map) ==
    UNION {RangeOf(c.addrs[n]) : n \in Nodes(c) \ DOMAIN map}

\* update_link: addresses that the update leaves alone.  The command passes no
\* pacemaker nodes: the cluster is stopped and has no CIB to read.
UnchangedAddrs(c, l, map) ==
    {c.addrs[p[1]][p[2]] : p \in {q \in Nodes(c) \X UsedLinks(c) :
                                     ~(q[1] \in DOMAIN map /\ q[2] = l)}}

ValidUpdateLink(c, l, map) ==
    /\ l \in UsedLinks(c)
    /\ DOMAIN map \subseteq Nodes(c)
    /\ ~MixesIpv4Ipv6({IF n \in DOMAIN map THEN map[n] ELSE c.addrs[n][l] :
                          n \in Nodes(c)})
    /\ RangeOf(map) \cap UnchangedAddrs(c, l, map) = {}
    /\ Unique(map)

\* update_quorum_options: changed says whether options that do not go with a
\* device are among the options to set.
ValidQuorumOptions(c, changed) == c.device # NoDevice => ~changed

\* add_quorum_device and update_quorum_device
ValidTieBreaker(c, tie, force) ==
    tie \in {0} \cup UsedIds(c) \/ force
=============================================================================
