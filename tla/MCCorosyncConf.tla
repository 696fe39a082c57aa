--------------------------- MODULE MCCorosyncConf ---------------------------
(* Values for the constants of the runs of CorosyncConf. *)
EXTENDS CorosyncConfProperties, TLC

CONSTANTS n1, n2, n3, a4, a6, f1, f2

Families == [a \in Addrs |-> CASE a = a4 -> "IPv4"
                               [] a = a6 -> "IPv6"
                               [] OTHER -> "FQDN"]

\* What cluster setup writes for one link: ids in the order of the nodes.
Setup(addrs, ids) ==
    UpdateTwoNode([addrs |-> addrs, nodeid |-> ids, interface |-> {},
                   atb |-> FALSE, lms |-> FALSE, two_node |-> FALSE,
                   device |-> NoDevice])

\* Clusters of one and of two nodes.
Setups ==
    {Setup([n \in {m} |-> [l \in {0} |-> a4]], [n \in {m} |-> 1]) : m \in Names}
      \cup {Setup([n \in {m, k} |-> [l \in {0} |-> IF n = m THEN f1 ELSE f2]],
                  [n \in {m, k} |-> IF n = m THEN 1 ELSE 2]) :
               m \in Names, k \in Names}

\* Both algorithms, the tie breakers the algorithms and the nodes tell apart,
\* a wrong number of votes and a model that pcs does not know.
SomeDevices ==
    {[model |-> "net", algorithm |-> "lms", votes |-> TRUE, tie_breaker |-> 2],
     [model |-> "net", algorithm |-> "ffsplit", votes |-> FALSE, tie_breaker |-> 0],
     [model |-> "other", algorithm |-> "lms", votes |-> TRUE, tie_breaker |-> 1]}

Symmetry == Permutations(Names) \cup Permutations({f1, f2})
=============================================================================
