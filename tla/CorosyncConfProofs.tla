------------------------- MODULE CorosyncConfProofs -------------------------
(***************************************************************************)
(* Proofs that every command leaves a corosync.conf that corosync can use,  *)
(* for any names, addresses and number of links: what each operation of     *)
(* the facade makes of a good file that its validator accepts.             *)
(***************************************************************************)
EXTENDS CorosyncConfProperties, FiniteSetTheorems, TLAPS

-----------------------------------------------------------------------------
(* Configurations.                                                         *)

\* The addresses of a node.
LEMMA LinkAddrsIntro ==
    ASSUME NEW L \in SUBSET Links, NEW f \in [L -> Addrs]
    PROVE  f \in LinkAddrs
BY DEF LinkAddrs

\* Taken apart again.
LEMMA LinkAddrsElim ==
    ASSUME NEW f \in LinkAddrs
    PROVE  DOMAIN f \in SUBSET Links /\ f \in [DOMAIN f -> Addrs]
BY DEF LinkAddrs

\* What a configuration consists of.
LEMMA ConfigElim ==
    ASSUME NEW c \in Configs
    PROVE  /\ Nodes(c) \in SUBSET Names
           /\ c.addrs \in [Nodes(c) -> LinkAddrs]
           /\ \A n \in Nodes(c) : /\ DOMAIN c.addrs[n] \in SUBSET Links
                                  /\ c.addrs[n] \in [DOMAIN c.addrs[n] -> Addrs]
           /\ DOMAIN c.nodeid \in SUBSET Names
           /\ c.nodeid \in [DOMAIN c.nodeid -> NodeIds]
           /\ c.interface \in SUBSET Links
           /\ c.atb \in BOOLEAN /\ c.lms \in BOOLEAN /\ c.two_node \in BOOLEAN
           /\ c.device \in Devices \cup {NoDevice}
<1>1. /\ c.addrs \in UNION {[S -> LinkAddrs] : S \in SUBSET Names}
      /\ c.nodeid \in UNION {[S -> NodeIds] : S \in SUBSET Names}
      /\ c.interface \in SUBSET Links
      /\ c.atb \in BOOLEAN /\ c.lms \in BOOLEAN /\ c.two_node \in BOOLEAN
      /\ c.device \in Devices \cup {NoDevice}
  BY DEF Configs
<1>2. Nodes(c) \in SUBSET Names /\ c.addrs \in [Nodes(c) -> LinkAddrs]
  BY <1>1 DEF Nodes
<1>3. DOMAIN c.nodeid \in SUBSET Names /\ c.nodeid \in [DOMAIN c.nodeid -> NodeIds]
  BY <1>1
<1>4. \A n \in Nodes(c) : /\ DOMAIN c.addrs[n] \in SUBSET Links
                          /\ c.addrs[n] \in [DOMAIN c.addrs[n] -> Addrs]
  BY <1>2, LinkAddrsElim
<1> QED
  BY <1>1, <1>2, <1>3, <1>4

\* A configuration with another nodelist.
WithNodelist(c, a, i, interface) ==
    [c EXCEPT !.addrs = a, !.nodeid = i, !.interface = interface]

\* It is one if the nodelist is well formed.
LEMMA NodelistIntro ==
    ASSUME NEW c \in Configs, NEW S \in SUBSET Names, NEW a \in [S -> LinkAddrs],
           NEW i \in [S -> NodeIds], NEW interface \in SUBSET Links
    PROVE  /\ WithNodelist(c, a, i, interface) \in Configs
           /\ Nodes(WithNodelist(c, a, i, interface)) = S
           /\ WithNodelist(c, a, i, interface).addrs = a
           /\ WithNodelist(c, a, i, interface).nodeid = i
           /\ WithNodelist(c, a, i, interface).interface = interface
           /\ WithNodelist(c, a, i, interface).atb = c.atb
           /\ WithNodelist(c, a, i, interface).lms = c.lms
           /\ WithNodelist(c, a, i, interface).two_node = c.two_node
           /\ WithNodelist(c, a, i, interface).device = c.device
<1>1. /\ a \in UNION {[T -> LinkAddrs] : T \in SUBSET Names}
      /\ i \in UNION {[T -> NodeIds] : T \in SUBSET Names}
  OBVIOUS
<1> QED
  BY <1>1 DEF Configs, Nodes, WithNodelist

\* __update_two_node sets two_node and nothing else.
LEMMA UpdateTwoNodeOk ==
    ASSUME NEW c \in Configs
    PROVE  LET d == UpdateTwoNode(c)
           IN  /\ d \in Configs /\ Nodes(d) = Nodes(c)
               /\ d.addrs = c.addrs /\ d.nodeid = c.nodeid /\ d.interface = c.interface
               /\ d.atb = c.atb /\ d.lms = c.lms /\ d.device = c.device
               /\ TwoNodeOk(d)
<1> DEFINE b == Cardinality(Nodes(c)) = 2 /\ ~c.atb /\ c.device = NoDevice
           d == [c EXCEPT !.two_node = b]
<1>1. UpdateTwoNode(c) = d
  BY DEF UpdateTwoNode
<1>2. b \in BOOLEAN
  OBVIOUS
<1>3. b <=> Cardinality(Nodes(c)) = 2 /\ ~c.atb /\ c.device = NoDevice
  OBVIOUS
<1> HIDE DEF b
<1>4. /\ d \in Configs /\ Nodes(d) = Nodes(c)
      /\ d.addrs = c.addrs /\ d.nodeid = c.nodeid /\ d.interface = c.interface
      /\ d.atb = c.atb /\ d.lms = c.lms /\ d.device = c.device
      /\ d.two_node = b
  BY <1>2 DEF Configs, Nodes
<1>5. TwoNodeOk(d)
  <2> HIDE DEF d
  <2> QED
    BY <1>3, <1>4 DEF TwoNodeOk
<1> QED
  BY <1>1, <1>4, <1>5

\* NodelistOk looks at the nodelist and the interface sections only.
LEMMA SameNodelist ==
    ASSUME NEW c, NEW d, d.addrs = c.addrs, d.nodeid = c.nodeid,
           d.interface = c.interface, NodelistOk(c)
    PROVE  NodelistOk(d)
<1>1. Nodes(d) = Nodes(c)
  BY DEF Nodes
<1>2. Uniform(d)
  BY <1>1 DEF NodelistOk, Uniform
<1>3. UniqueAddrs(d)
  <2> SUFFICES ASSUME NEW n \in Nodes(d), NEW m \in Nodes(d), NEW l \in DOMAIN d.addrs[n],
                      NEW k \in DOMAIN d.addrs[m], d.addrs[n][l] = d.addrs[m][k]
               PROVE  n = m /\ l = k
    BY Zenon DEF UniqueAddrs
  <2>1. n \in Nodes(c) /\ m \in Nodes(c) /\ l \in DOMAIN c.addrs[n] /\ k \in DOMAIN c.addrs[m]
    BY <1>1
  <2> QED
    BY <2>1 DEF NodelistOk, UniqueAddrs
<1>4. UniqueIds(d)
  BY <1>1 DEF NodelistOk, UniqueIds
<1>5. OneFamily(d)
  <2> SUFFICES ASSUME NEW n \in Nodes(d), NEW m \in Nodes(d),
                      NEW l \in DOMAIN d.addrs[n] \cap DOMAIN d.addrs[m]
               PROVE  ~(Family[d.addrs[n][l]] = "IPv4" /\ Family[d.addrs[m][l]] = "IPv6")
    BY Zenon DEF OneFamily
  <2>1. n \in Nodes(c) /\ m \in Nodes(c) /\ l \in DOMAIN c.addrs[n] \cap DOMAIN c.addrs[m]
    BY <1>1
  <2> QED
    BY <2>1 DEF NodelistOk, OneFamily
<1> QED
  BY <1>1, <1>2, <1>3, <1>4, <1>5 DEF NodelistOk

\* All nodes have the links of the first one.
LEMMA UsedLinksUniform ==
    ASSUME NEW c \in Configs, NodelistOk(c)
    PROVE  /\ \A n \in Nodes(c) : DOMAIN c.addrs[n] = UsedLinks(c)
           /\ UsedLinks(c) # {} /\ UsedLinks(c) \in SUBSET Links
           /\ c.interface \subseteq UsedLinks(c)
           /\ DOMAIN c.nodeid = Nodes(c)
<1> DEFINE first == CHOOSE n \in Nodes(c) : TRUE
<1>1. first \in Nodes(c)
  BY DEF NodelistOk
<1>2. UsedLinks(c) = DOMAIN c.addrs[first]
  BY DEF UsedLinks
<1> HIDE DEF first
<1>3. DOMAIN c.addrs[first] \in SUBSET Links
  BY <1>1, ConfigElim
<1> QED
  BY <1>1, <1>2, <1>3 DEF NodelistOk, Uniform, UniqueIds

\* A nodelist over the links U.
LEMMA NodelistOkIntro ==
    ASSUME NEW d, NEW S, NEW U, S # {}, U # {}, Nodes(d) = S,
           \A n \in S : DOMAIN d.addrs[n] = U, d.interface \subseteq U,
           DOMAIN d.nodeid = S,
           \A n, m \in S : d.nodeid[n] = d.nodeid[m] => n = m,
           \A n, m \in S, l, k \in U : d.addrs[n][l] = d.addrs[m][k] => n = m /\ l = k,
           \A n, m \in S, l \in U : ~(/\ Family[d.addrs[n][l]] = "IPv4"
                                      /\ Family[d.addrs[m][l]] = "IPv6")
    PROVE  NodelistOk(d)
<1>1. Uniform(d) /\ UniqueIds(d)
  BY DEF Uniform, UniqueIds
<1>2. UniqueAddrs(d)
  BY DEF UniqueAddrs
<1>3. OneFamily(d)
  BY DEF OneFamily
<1> QED
  BY <1>1, <1>2, <1>3 DEF NodelistOk

\* What a good nodelist says of its nodes and used links.
LEMMA NodelistOkElim ==
    ASSUME NEW c \in Configs, NodelistOk(c)
    PROVE  LET S == Nodes(c)
               U == UsedLinks(c)
           IN  /\ S # {} /\ U # {} /\ S \in SUBSET Names /\ U \in SUBSET Links
               /\ \A n \in S : DOMAIN c.addrs[n] = U
               /\ \A n \in S, l \in U : c.addrs[n][l] \in Addrs
               /\ c.interface \subseteq U /\ DOMAIN c.nodeid = S
               /\ c.nodeid \in [S -> NodeIds]
               /\ \A n, m \in S : c.nodeid[n] = c.nodeid[m] => n = m
               /\ \A n, m \in S, l, k \in U : c.addrs[n][l] = c.addrs[m][k] => n = m /\ l = k
               /\ \A n, m \in S, l \in U : ~(/\ Family[c.addrs[n][l]] = "IPv4"
                                             /\ Family[c.addrs[m][l]] = "IPv6")
<1> DEFINE S == Nodes(c)
           U == UsedLinks(c)
<1>1. /\ S # {} /\ U # {} /\ S \in SUBSET Names /\ U \in SUBSET Links
      /\ \A n \in S : DOMAIN c.addrs[n] = U
      /\ c.interface \subseteq U /\ DOMAIN c.nodeid = S
  BY UsedLinksUniform, ConfigElim DEF NodelistOk
<1>2. c.nodeid \in [S -> NodeIds] /\ \A n \in S : c.addrs[n] \in [U -> Addrs]
  BY <1>1, ConfigElim
<1> HIDE DEF S, U
<1>3. \A n, m \in S : c.nodeid[n] = c.nodeid[m] => n = m
  BY DEF NodelistOk, UniqueIds, S
<1>4. \A n, m \in S, l, k \in U : c.addrs[n][l] = c.addrs[m][k] => n = m /\ l = k
  BY <1>1 DEF NodelistOk, UniqueAddrs, S
<1>5. \A n, m \in S, l \in U : ~(/\ Family[c.addrs[n][l]] = "IPv4"
                                 /\ Family[c.addrs[m][l]] = "IPv6")
  BY <1>1 DEF NodelistOk, OneFamily, S
<1> QED
  BY <1>1, <1>2, <1>3, <1>4, <1>5 DEF S, U

-----------------------------------------------------------------------------
(* The operations of the facade.                                           *)

\* A changed nodelist: what an operation keeps of a configuration.
Keeps(c, d) ==
    /\ d \in Configs
    /\ NodelistOk(d)
    /\ d.atb = c.atb /\ d.lms = c.lms /\ d.device = c.device

\* remove_nodes
LEMMA RemoveNodesOk ==
    ASSUME NEW c \in Configs, NodelistOk(c), NEW R, ValidRemoveNodes(c, R)
    PROVE  /\ Keeps(c, RemoveNodes(c, R)) /\ TwoNodeOk(RemoveNodes(c, R))
           /\ Nodes(RemoveNodes(c, R)) = Nodes(c) \ R
           /\ RemoveNodes(c, R).addrs = [n \in Nodes(c) \ R |-> c.addrs[n]]
           /\ RemoveNodes(c, R).nodeid = [n \in Nodes(c) \ R |-> c.nodeid[n]]
<1> DEFINE S == Nodes(c) \ R
           a == [n \in S |-> c.addrs[n]]
           i == [n \in S |-> c.nodeid[n]]
           d == WithNodelist(c, a, i, c.interface)
<1>1. S # {} /\ S \in SUBSET Names /\ c.nodeid \in [Nodes(c) -> NodeIds]
  BY NodelistOkElim DEF ValidRemoveNodes
<1>2. a \in [S -> LinkAddrs] /\ i \in [S -> NodeIds] /\ c.interface \in SUBSET Links
  BY <1>1, ConfigElim
<1>3. [c EXCEPT !.addrs = a, !.nodeid = i] = d
  BY DEF Configs, WithNodelist
<1>4. /\ \A n \in S : a[n] = c.addrs[n] /\ i[n] = c.nodeid[n]
      /\ DOMAIN i = S
  OBVIOUS
<1> HIDE DEF a, i
<1>5. /\ d \in Configs /\ Nodes(d) = S
      /\ d.addrs = a /\ d.nodeid = i /\ d.interface = c.interface
      /\ d.atb = c.atb /\ d.lms = c.lms /\ d.device = c.device
  BY <1>1, <1>2, NodelistIntro
<1> HIDE DEF d
<1>6. NodelistOk(d)
  <2> DEFINE U == UsedLinks(c)
  <2>1. /\ U # {} /\ \A n \in S : DOMAIN d.addrs[n] = U
        /\ d.interface \subseteq U /\ DOMAIN d.nodeid = S
    BY <1>4, <1>5, NodelistOkElim
  <2>2. \A n, m \in S : d.nodeid[n] = d.nodeid[m] => n = m
    BY <1>4, <1>5, NodelistOkElim
  <2>3. \A n, m \in S, l, k \in U : d.addrs[n][l] = d.addrs[m][k] => n = m /\ l = k
    BY <1>4, <1>5, NodelistOkElim
  <2>4. \A n, m \in S, l \in U : ~(/\ Family[d.addrs[n][l]] = "IPv4"
                                   /\ Family[d.addrs[m][l]] = "IPv6")
    BY <1>4, <1>5, NodelistOkElim
  <2> HIDE DEF S, U
  <2> QED
    BY <1>1, <1>5, <2>1, <2>2, <2>3, <2>4, NodelistOkIntro
<1>7. RemoveNodes(c, R) = UpdateTwoNode(d)
  BY <1>3 DEF RemoveNodes, a, i
<1> QED
  BY <1>5, <1>6, <1>7, UpdateTwoNodeOk, SameNodelist DEF Keeps, a, i

\* Addresses of a set that does not mix the families.
LEMMA NotMixed ==
    ASSUME NEW A, ~MixesIpv4Ipv6(A), NEW x \in A, NEW y \in A
    PROVE  ~(Family[x] = "IPv4" /\ Family[y] = "IPv6")
BY DEF MixesIpv4Ipv6

\* two_node stays right when the number of nodes does not change.
LEMMA TwoNodeKept ==
    ASSUME NEW c, NEW d, TwoNodeOk(c), Cardinality(Nodes(d)) = Cardinality(Nodes(c)),
           d.two_node = c.two_node, d.atb = c.atb, d.device = c.device
    PROVE  TwoNodeOk(d)
BY DEF TwoNodeOk

\* rename_node
LEMMA RenameNodeOk ==
    ASSUME NEW c \in Configs, NodelistOk(c), TwoNodeOk(c),
           NEW old \in Nodes(c), NEW new \in Names \ Nodes(c)
    PROVE  LET d == RenameNode(c, old, new)
           IN  /\ Keeps(c, d) /\ TwoNodeOk(d)
               /\ Cardinality(Nodes(d)) = Cardinality(Nodes(c))
               /\ \A n \in Nodes(c) : \E m \in Nodes(d) : d.nodeid[m] = c.nodeid[n]
<1> DEFINE S == (Nodes(c) \ {old}) \cup {new}
           src(n) == IF n = new THEN old ELSE n
           a == [n \in S |-> c.addrs[src(n)]]
           i == [n \in S |-> c.nodeid[src(n)]]
           d == WithNodelist(c, a, i, c.interface)
<1>1. /\ S # {} /\ S \in SUBSET Names /\ c.nodeid \in [Nodes(c) -> NodeIds]
      /\ c.addrs \in [Nodes(c) -> LinkAddrs] /\ c.interface \in SUBSET Links
  BY NodelistOkElim, ConfigElim
<1>2. /\ \A n \in S : src(n) \in Nodes(c)
      /\ \A n, m \in S : src(n) = src(m) => n = m
  OBVIOUS
<1>3. RenameNode(c, old, new) = d
  BY DEF RenameNode, Configs, WithNodelist
<1>4. \A n \in Nodes(c) : \E m \in S : src(m) = n
  OBVIOUS
<1> HIDE DEF src, S
<1>5. a \in [S -> LinkAddrs] /\ i \in [S -> NodeIds]
  BY <1>1, <1>2
<1>6. /\ \A n \in S : a[n] = c.addrs[src(n)] /\ i[n] = c.nodeid[src(n)]
      /\ DOMAIN i = S
  OBVIOUS
<1> HIDE DEF a, i
<1>7. /\ d \in Configs /\ Nodes(d) = S
      /\ d.addrs = a /\ d.nodeid = i /\ d.interface = c.interface
      /\ d.atb = c.atb /\ d.lms = c.lms /\ d.device = c.device /\ d.two_node = c.two_node
  BY <1>1, <1>5, NodelistIntro
<1> HIDE DEF d
<1>8. NodelistOk(d)
  <2> DEFINE U == UsedLinks(c)
  <2>1. /\ U # {} /\ \A n \in S : DOMAIN d.addrs[n] = U
        /\ d.interface \subseteq U /\ DOMAIN d.nodeid = S
    BY <1>2, <1>6, <1>7, NodelistOkElim
  <2>2. \A n, m \in S : d.nodeid[n] = d.nodeid[m] => n = m
    BY <1>2, <1>6, <1>7, NodelistOkElim
  <2>3. \A n, m \in S, l, k \in U : d.addrs[n][l] = d.addrs[m][k] => n = m /\ l = k
    BY <1>2, <1>6, <1>7, NodelistOkElim
  <2>4. \A n, m \in S, l \in U : ~(/\ Family[d.addrs[n][l]] = "IPv4"
                                   /\ Family[d.addrs[m][l]] = "IPv6")
    BY <1>2, <1>6, <1>7, NodelistOkElim
  <2> HIDE DEF U
  <2> QED
    BY <1>1, <1>7, <2>1, <2>2, <2>3, <2>4, NodelistOkIntro
<1>9. Cardinality(S) = Cardinality(Nodes(c))
  <2>1. IsFiniteSet(Nodes(c)) /\ Cardinality(Nodes(c)) \in Nat
    BY FacadeAssumption, ConfigElim, FS_Subset, FS_CardinalityType
  <2>2. /\ IsFiniteSet(Nodes(c) \ {old})
        /\ Cardinality(Nodes(c) \ {old}) = Cardinality(Nodes(c)) - 1
    BY <2>1, FS_RemoveElement
  <2>3. Cardinality((Nodes(c) \ {old}) \cup {new}) = Cardinality(Nodes(c) \ {old}) + 1
    BY <2>2, FS_AddElement
  <2> QED
    BY <2>1, <2>2, <2>3 DEF S
<1>10. TwoNodeOk(d)
  BY <1>7, <1>9, TwoNodeKept
<1>11. \A n \in Nodes(c) : \E m \in Nodes(d) : d.nodeid[m] = c.nodeid[n]
  BY <1>4, <1>6, <1>7
<1> QED
  BY <1>3, <1>7, <1>8, <1>9, <1>10, <1>11 DEF Keeps

\* add_link
LEMMA AddLinkOk ==
    ASSUME NEW c \in Configs, NodelistOk(c), TwoNodeOk(c), NEW l \in Links,
           NEW map \in [Nodes(c) -> Addrs], NEW options \in BOOLEAN,
           ValidAddLink(c, l, map)
    PROVE  LET d == AddLink(c, l, map, options)
           IN  /\ Keeps(c, d) /\ TwoNodeOk(d)
               /\ Nodes(d) = Nodes(c) /\ d.nodeid = c.nodeid
               /\ \A n \in Nodes(c) : \A k \in DOMAIN c.addrs[n] :
                     d.addrs[n][k] = c.addrs[n][k]
<1> DEFINE S == Nodes(c)
           U == UsedLinks(c)
           V == U \cup {l}
           g(n) == [k \in V |-> IF k = l THEN map[n] ELSE c.addrs[n][k]]
           a == [n \in S |-> g(n)]
           f == IF options THEN c.interface \cup {l} ELSE c.interface
           d == WithNodelist(c, a, c.nodeid, f)
<1>1. /\ S # {} /\ S \in SUBSET Names /\ U # {} /\ U \in SUBSET Links
      /\ c.nodeid \in [S -> NodeIds] /\ c.interface \subseteq U
      /\ \A n \in S : DOMAIN c.addrs[n] = U
      /\ \A n \in S, k \in U : c.addrs[n][k] \in Addrs
  BY NodelistOkElim
<1>2. l \notin U /\ DOMAIN map = S
  BY DEF ValidAddLink
<1>3. AddLink(c, l, map, options) = d
  <2>1. a = [n \in Nodes(c) |->
               IF n \in DOMAIN map
               THEN [k \in DOMAIN c.addrs[n] \cup {l} |->
                        IF k = l THEN map[n] ELSE c.addrs[n][k]]
               ELSE c.addrs[n]]
    BY <1>1, <1>2
  <2> HIDE DEF a
  <2> QED
    BY <2>1 DEF AddLink, Configs, WithNodelist
<1>4. /\ V # {} /\ V \in SUBSET Links /\ f \in SUBSET Links /\ f \subseteq V
      /\ U \subseteq V
  BY <1>1
<1>5. \A n \in S : /\ g(n) \in [V -> Addrs] /\ DOMAIN g(n) = V
                   /\ g(n)[l] = map[n] /\ map[n] \in Addrs
                   /\ \A k \in U : g(n)[k] = c.addrs[n][k]
  BY <1>1, <1>2
<1> HIDE DEF g, f, V
<1>6. a \in [S -> LinkAddrs]
  BY <1>4, <1>5, LinkAddrsIntro
<1>7. \A n \in S : a[n] = g(n)
  OBVIOUS
<1> HIDE DEF a
<1>8. /\ d \in Configs /\ Nodes(d) = S
      /\ d.addrs = a /\ d.nodeid = c.nodeid /\ d.interface = f
      /\ d.atb = c.atb /\ d.lms = c.lms /\ d.device = c.device /\ d.two_node = c.two_node
  <2>1. S \in SUBSET Names /\ c.nodeid \in [S -> NodeIds] /\ f \in SUBSET Links
    BY <1>1, <1>4
  <2> QED
    BY <1>6, <2>1, NodelistIntro
<1> HIDE DEF d
<1>9. \A n \in S : /\ DOMAIN d.addrs[n] = V /\ d.addrs[n][l] = map[n]
                   /\ \A k \in U : d.addrs[n][k] = c.addrs[n][k]
  BY <1>5, <1>7, <1>8
<1>10. NodelistOk(d)
  <2>1. \A n, m \in S : d.nodeid[n] = d.nodeid[m] => n = m
    BY <1>8, NodelistOkElim
  <2>2. \A n \in S, m \in S, k \in U : map[n] # c.addrs[m][k]
    <3>1. \A m \in S, k \in U : c.addrs[m][k] \in AddrsOf(c)
      BY <1>1 DEF AddrsOf, RangeOf
    <3>2. \A n \in S : map[n] \in RangeOf(map)
      BY <1>2 DEF RangeOf
    <3> QED
      BY <3>1, <3>2 DEF ValidAddLink
  <2>3. \A n, m \in S : map[n] = map[m] => n = m
    BY <1>2 DEF ValidAddLink, Unique
  <2>4. \A k \in V : k = l \/ k \in U
    BY DEF V
  <2>5. \A n, m \in S, k, j \in V : d.addrs[n][k] = d.addrs[m][j] => n = m /\ k = j
    <3>1. \A n, m \in S, k, j \in U : c.addrs[n][k] = c.addrs[m][j] => n = m /\ k = j
      BY NodelistOkElim
    <3> QED
      BY <1>9, <2>2, <2>3, <2>4, <3>1
  <2>6. \A n, m \in S, k \in V : ~(/\ Family[d.addrs[n][k]] = "IPv4"
                                   /\ Family[d.addrs[m][k]] = "IPv6")
    <3>1. \A n, m \in S : ~(Family[map[n]] = "IPv4" /\ Family[map[m]] = "IPv6")
      <4>1. \A n \in S : map[n] \in RangeOf(map)
        BY <1>2 DEF RangeOf
      <4> QED
        BY <4>1, NotMixed DEF ValidAddLink
    <3>2. \A n, m \in S, k \in U : ~(/\ Family[c.addrs[n][k]] = "IPv4"
                                     /\ Family[c.addrs[m][k]] = "IPv6")
      BY NodelistOkElim
    <3> QED
      BY <1>9, <2>4, <3>1, <3>2
  <2>7. DOMAIN d.nodeid = S
    BY <1>1, <1>8
  <2> HIDE DEF S
  <2> QED
    BY <1>1, <1>4, <1>8, <1>9, <2>1, <2>5, <2>6, <2>7, NodelistOkIntro
<1>11. TwoNodeOk(d)
  BY <1>8, TwoNodeKept
<1> QED
  BY <1>1, <1>3, <1>8, <1>9, <1>10, <1>11 DEF Keeps

\* remove_links
LEMMA RemoveLinksOk ==
    ASSUME NEW c \in Configs, NodelistOk(c), TwoNodeOk(c), NEW L, ValidRemoveLinks(c, L)
    PROVE  LET d == RemoveLinks(c, L)
           IN  /\ Keeps(c, d) /\ TwoNodeOk(d)
               /\ Nodes(d) = Nodes(c) /\ d.nodeid = c.nodeid
               /\ \A n \in Nodes(c) : \A k \in DOMAIN d.addrs[n] :
                     d.addrs[n][k] = c.addrs[n][k]
<1> DEFINE S == Nodes(c)
           U == UsedLinks(c)
           V == U \ L
           g(n) == [k \in V |-> c.addrs[n][k]]
           a == [n \in S |-> g(n)]
           f == c.interface \ L
           d == WithNodelist(c, a, c.nodeid, f)
<1>1. /\ S # {} /\ S \in SUBSET Names /\ U # {} /\ U \in SUBSET Links
      /\ c.nodeid \in [S -> NodeIds] /\ c.interface \subseteq U
      /\ \A n \in S : DOMAIN c.addrs[n] = U
      /\ \A n \in S, k \in U : c.addrs[n][k] \in Addrs
  BY NodelistOkElim
<1>3. RemoveLinks(c, L) = d
  <2>1. a = [n \in Nodes(c) |-> [k \in DOMAIN c.addrs[n] \ L |-> c.addrs[n][k]]]
    BY <1>1
  <2> HIDE DEF a
  <2> QED
    BY <2>1 DEF RemoveLinks, Configs, WithNodelist
<1>4. /\ V # {} /\ V \in SUBSET Links /\ f \in SUBSET Links /\ f \subseteq V
      /\ V \subseteq U
  BY <1>1 DEF ValidRemoveLinks
<1>5. \A n \in S : /\ g(n) \in [V -> Addrs] /\ DOMAIN g(n) = V
                   /\ \A k \in V : g(n)[k] = c.addrs[n][k]
  BY <1>1, <1>4
<1> HIDE DEF g, f, V
<1>6. a \in [S -> LinkAddrs]
  BY <1>4, <1>5, LinkAddrsIntro
<1>7. \A n \in S : a[n] = g(n)
  OBVIOUS
<1> HIDE DEF a
<1>8. /\ d \in Configs /\ Nodes(d) = S
      /\ d.addrs = a /\ d.nodeid = c.nodeid /\ d.interface = f
      /\ d.atb = c.atb /\ d.lms = c.lms /\ d.device = c.device /\ d.two_node = c.two_node
  <2>1. S \in SUBSET Names /\ c.nodeid \in [S -> NodeIds] /\ f \in SUBSET Links
    BY <1>1, <1>4
  <2> QED
    BY <1>6, <2>1, NodelistIntro
<1> HIDE DEF d
<1>9. \A n \in S : /\ DOMAIN d.addrs[n] = V
                   /\ \A k \in V : d.addrs[n][k] = c.addrs[n][k]
  BY <1>5, <1>7, <1>8
<1>10. NodelistOk(d)
  <2>1. \A n, m \in S : d.nodeid[n] = d.nodeid[m] => n = m
    BY <1>8, NodelistOkElim
  <2>2. \A n, m \in S, k, j \in V : d.addrs[n][k] = d.addrs[m][j] => n = m /\ k = j
    <3>1. \A n, m \in S, k, j \in U : c.addrs[n][k] = c.addrs[m][j] => n = m /\ k = j
      BY NodelistOkElim
    <3> QED
      BY <1>4, <1>9, <3>1
  <2>3. \A n, m \in S, k \in V : ~(/\ Family[d.addrs[n][k]] = "IPv4"
                                   /\ Family[d.addrs[m][k]] = "IPv6")
    <3>1. \A n, m \in S, k \in U : ~(/\ Family[c.addrs[n][k]] = "IPv4"
                                     /\ Family[c.addrs[m][k]] = "IPv6")
      BY NodelistOkElim
    <3> QED
      BY <1>4, <1>9, <3>1
  <2>4. DOMAIN d.nodeid = S
    BY <1>1, <1>8
  <2> HIDE DEF S
  <2> QED
    BY <1>1, <1>4, <1>8, <1>9, <2>1, <2>2, <2>3, <2>4, NodelistOkIntro
<1>11. TwoNodeOk(d)
  BY <1>8, TwoNodeKept
<1> QED
  BY <1>1, <1>3, <1>8, <1>9, <1>10, <1>11 DEF Keeps

\* The interface sections after the options of link l have changed.
Sections(c, l) == {c.interface, c.interface \cup {l}, c.interface \ {l}}

\* update_link
LEMMA UpdateLinkOk ==
    ASSUME NEW c \in Configs, NodelistOk(c), TwoNodeOk(c), NEW l \in Links,
           NEW M \in SUBSET Nodes(c), NEW map \in [M -> Addrs],
           NEW f \in Sections(c, l),
           ValidUpdateLink(c, l, map)
    PROVE  LET d == UpdateLink(c, l, map, f)
           IN  /\ Keeps(c, d) /\ TwoNodeOk(d)
               /\ Nodes(d) = Nodes(c) /\ d.nodeid = c.nodeid
<1> DEFINE S == Nodes(c)
           U == UsedLinks(c)
           v(n, k) == IF k = l /\ n \in M THEN map[n] ELSE c.addrs[n][k]
           g(n) == [k \in U |-> v(n, k)]
           a == [n \in S |-> g(n)]
           d == WithNodelist(c, a, c.nodeid, f)
<1>1. /\ S # {} /\ S \in SUBSET Names /\ U # {} /\ U \in SUBSET Links
      /\ c.nodeid \in [S -> NodeIds] /\ c.interface \subseteq U
      /\ \A n \in S : DOMAIN c.addrs[n] = U
      /\ \A n \in S, k \in U : c.addrs[n][k] \in Addrs
  BY NodelistOkElim
<1>2. l \in U /\ DOMAIN map = M
  BY DEF ValidUpdateLink
<1>3. UpdateLink(c, l, map, f) = d
  <2>1. a = [n \in Nodes(c) |-> [k \in DOMAIN c.addrs[n] |->
                                    IF k = l /\ n \in DOMAIN map
                                    THEN map[n] ELSE c.addrs[n][k]]]
    BY <1>1, <1>2
  <2> HIDE DEF a
  <2> QED
    BY <2>1 DEF UpdateLink, Configs, WithNodelist
<1>4. f \in SUBSET Links /\ f \subseteq U
  BY <1>1, <1>2 DEF Sections
<1>5. \A n \in S : /\ g(n) \in [U -> Addrs] /\ DOMAIN g(n) = U
                   /\ \A k \in U : g(n)[k] = v(n, k)
  BY <1>1, <1>2
<1> HIDE DEF g
<1>6. a \in [S -> LinkAddrs]
  BY <1>1, <1>5, LinkAddrsIntro
<1>7. \A n \in S : a[n] = g(n)
  OBVIOUS
<1> HIDE DEF a
<1>8. /\ d \in Configs /\ Nodes(d) = S
      /\ d.addrs = a /\ d.nodeid = c.nodeid /\ d.interface = f
      /\ d.atb = c.atb /\ d.lms = c.lms /\ d.device = c.device /\ d.two_node = c.two_node
  <2>1. S \in SUBSET Names /\ c.nodeid \in [S -> NodeIds] /\ f \in SUBSET Links
    BY <1>1, <1>4
  <2> QED
    BY <1>6, <2>1, NodelistIntro
<1> HIDE DEF d, v
<1>9. \A n \in S : /\ DOMAIN d.addrs[n] = U
                   /\ \A k \in U : d.addrs[n][k] = v(n, k)
  BY <1>5, <1>7, <1>8
<1>10. NodelistOk(d)
  <2>1. \A n, m \in S : d.nodeid[n] = d.nodeid[m] => n = m
    BY <1>8, NodelistOkElim
  <2>2. \A n \in M, m \in S, k \in U : ~(k = l /\ m \in M) => map[n] # c.addrs[m][k]
    <3>1. \A m \in S, k \in U : ~(k = l /\ m \in M)
             => c.addrs[m][k] \in UnchangedAddrs(c, l, map)
      <4> SUFFICES ASSUME NEW m \in S, NEW k \in U, ~(k = l /\ m \in M)
                   PROVE  c.addrs[m][k] \in UnchangedAddrs(c, l, map)
        OBVIOUS
      <4>1. /\ <<m, k>> \in S \X U /\ <<m, k>>[1] = m /\ <<m, k>>[2] = k
        OBVIOUS
      <4>2. <<m, k>> \in {q \in S \X U : ~(q[1] \in DOMAIN map /\ q[2] = l)}
        BY <1>2, <4>1
      <4> QED
        BY <4>1, <4>2 DEF UnchangedAddrs
    <3>2. \A n \in M : map[n] \in RangeOf(map)
      BY <1>2 DEF RangeOf
    <3> QED
      BY <3>1, <3>2 DEF ValidUpdateLink
  <2>3. \A n, m \in M : map[n] = map[m] => n = m
    BY <1>2 DEF ValidUpdateLink, Unique
  <2>4. \A n, m \in S, k, j \in U : c.addrs[n][k] = c.addrs[m][j] => n = m /\ k = j
    BY NodelistOkElim
  <2>5. \A n, m \in S, k, j \in U : v(n, k) = v(m, j) => n = m /\ k = j
    <3> SUFFICES ASSUME NEW n \in S, NEW m \in S, NEW k \in U, NEW j \in U,
                        v(n, k) = v(m, j)
                 PROVE  n = m /\ k = j
      OBVIOUS
    <3>1. CASE k = l /\ n \in M /\ j = l /\ m \in M
      BY <2>3, <3>1 DEF v
    <3>2. CASE k = l /\ n \in M /\ ~(j = l /\ m \in M)
      BY <2>2, <3>2 DEF v
    <3>3. CASE ~(k = l /\ n \in M) /\ j = l /\ m \in M
      BY <2>2, <3>3 DEF v
    <3>4. CASE ~(k = l /\ n \in M) /\ ~(j = l /\ m \in M)
      BY <2>4, <3>4 DEF v
    <3> QED
      BY <3>1, <3>2, <3>3, <3>4
  <2>6. \A n, m \in S, k \in U : ~(Family[v(n, k)] = "IPv4" /\ Family[v(m, k)] = "IPv6")
    <3> SUFFICES ASSUME NEW n \in S, NEW m \in S, NEW k \in U
                 PROVE  ~(Family[v(n, k)] = "IPv4" /\ Family[v(m, k)] = "IPv6")
      OBVIOUS
    <3>1. CASE k = l
      <4> DEFINE A == {IF p \in DOMAIN map THEN map[p] ELSE c.addrs[p][l] : p \in S}
      <4>1. v(n, k) \in A /\ v(m, k) \in A
        BY <1>2, <3>1 DEF v
      <4>2. ~MixesIpv4Ipv6(A)
        BY DEF ValidUpdateLink
      <4> HIDE DEF A
      <4> QED
        BY <4>1, <4>2, NotMixed
    <3>2. CASE k # l
      <4>1. v(n, k) = c.addrs[n][k] /\ v(m, k) = c.addrs[m][k]
        BY <3>2 DEF v
      <4> QED
        BY <4>1, NodelistOkElim
    <3> QED
      BY <3>1, <3>2
  <2>7. /\ \A n, m \in S, k, j \in U : d.addrs[n][k] = d.addrs[m][j] => n = m /\ k = j
        /\ \A n, m \in S, k \in U : ~(/\ Family[d.addrs[n][k]] = "IPv4"
                                      /\ Family[d.addrs[m][k]] = "IPv6")
    BY <1>9, <2>5, <2>6
  <2>8. DOMAIN d.nodeid = S /\ \A n \in S : DOMAIN d.addrs[n] = U
    BY <1>1, <1>8, <1>9
  <2> HIDE DEF S, U
  <2> QED
    BY <1>1, <1>4, <1>8, <2>1, <2>7, <2>8, NodelistOkIntro
<1>11. TwoNodeOk(d)
  BY <1>8, TwoNodeKept
<1> QED
  BY <1>3, <1>8, <1>10, <1>11 DEF Keeps

\* The number of nodes is a number.
LEMMA NodesFinite ==
    ASSUME NEW c \in Configs
    PROVE  IsFiniteSet(Nodes(c)) /\ Cardinality(Nodes(c)) \in Nat
BY FacadeAssumption, ConfigElim, FS_Subset, FS_CardinalityType

\* Nodes that are added count.
LEMMA AddedNodes ==
    ASSUME NEW c \in Configs, NEW T \in SUBSET (Names \ Nodes(c))
    PROVE  /\ Cardinality(T) \in Nat
           /\ Cardinality(Nodes(c) \cup T) = Cardinality(Nodes(c)) + Cardinality(T)
           /\ Cardinality(Nodes(c)) + Cardinality(T) <= Cardinality(Names)
           /\ Cardinality(Names) \in Nat
<1>1. /\ IsFiniteSet(T) /\ IsFiniteSet(Nodes(c)) /\ IsFiniteSet(Names)
      /\ Cardinality(T) \in Nat /\ Cardinality(Nodes(c)) \in Nat /\ Cardinality(Names) \in Nat
  BY FacadeAssumption, NodesFinite, FS_Subset, FS_CardinalityType
<1>2. Cardinality(Nodes(c) \cap T) = 0
  BY FS_EmptySet
<1>3. Cardinality(Nodes(c) \cup T)
        = Cardinality(Nodes(c)) + Cardinality(T) - Cardinality(Nodes(c) \cap T)
  BY <1>1, FS_Union
<1>4. Cardinality(Nodes(c) \cup T) = Cardinality(Nodes(c)) + Cardinality(T)
  BY <1>1, <1>2, <1>3
<1>5. Nodes(c) \cup T \in SUBSET Names
  BY ConfigElim
<1>6. Cardinality(Nodes(c) \cup T) <= Cardinality(Names)
  BY <1>1, <1>5, FS_Subset
<1> QED
  BY <1>1, <1>4, <1>6

\* Nodes that are removed do not.
LEMMA RemovedNodes ==
    ASSUME NEW c \in Configs, NEW R \in SUBSET Nodes(c)
    PROVE  /\ Cardinality(R) \in Nat
           /\ Cardinality(Nodes(c) \ R) = Cardinality(Nodes(c)) - Cardinality(R)
<1>1. /\ IsFiniteSet(R) /\ IsFiniteSet(Nodes(c))
      /\ Cardinality(R) \in Nat /\ Cardinality(Nodes(c)) \in Nat
  BY NodesFinite, FS_Subset, FS_CardinalityType
<1>2. Nodes(c) \cap R = R
  OBVIOUS
<1>3. Cardinality(Nodes(c) \ R) = Cardinality(Nodes(c)) - Cardinality(Nodes(c) \cap R)
  BY <1>1, FS_Difference
<1> QED
  BY <1>1, <1>2, <1>3

\* What the user gives to add_nodes, and the ids pcs adds.
GivenNodes(c, T, new, ids) ==
    /\ T \in SUBSET (Names \ Nodes(c))
    /\ new \in [T -> [UsedLinks(c) -> Addrs]]
    /\ ids \in NewIds(c, new)

\* A new address is of a family that its link takes.
LEMMA NewFamily ==
    ASSUME NEW c \in Configs, NodelistOk(c), NEW l \in UsedLinks(c),
           NEW x \in Addrs,
           Family[x] = "FQDN" \/ ExistingAddrType(c, l) \in {"FQDN", Family[x]}
    PROVE  \A m \in Nodes(c) :
              /\ ~(Family[x] = "IPv4" /\ Family[c.addrs[m][l]] = "IPv6")
              /\ ~(Family[c.addrs[m][l]] = "IPv4" /\ Family[x] = "IPv6")
<1> SUFFICES ASSUME NEW m \in Nodes(c),
                    Family[x] \in {"IPv4", "IPv6"},
                    Family[c.addrs[m][l]] \in {"IPv4", "IPv6"},
                    Family[x] # Family[c.addrs[m][l]]
             PROVE  FALSE
  OBVIOUS
<1> DEFINE families == {Family[y] : y \in AddrsOfLink(c, l)} \ {"FQDN"}
<1>1. Family[c.addrs[m][l]] \in families
  BY DEF AddrsOfLink
<1>2. ASSUME NEW f \in families
      PROVE  f = Family[c.addrs[m][l]]
  <2>1. PICK n \in Nodes(c) : f = Family[c.addrs[n][l]] /\ f # "FQDN"
    BY <1>2 DEF AddrsOfLink
  <2>2. c.addrs[n][l] \in Addrs
    BY NodelistOkElim
  <2>3. f \in {"IPv4", "IPv6"}
    BY <2>1, <2>2, ValidatorsAssumption
  <2>4. /\ ~(Family[c.addrs[n][l]] = "IPv4" /\ Family[c.addrs[m][l]] = "IPv6")
        /\ ~(Family[c.addrs[m][l]] = "IPv4" /\ Family[c.addrs[n][l]] = "IPv6")
    BY NodelistOkElim
  <2> QED
    BY <2>1, <2>3, <2>4
<1>3. ExistingAddrType(c, l) \in families
  <2>1. families # {}
    BY <1>1
  <2>2. (CHOOSE f \in families : TRUE) \in families
    <3> HIDE DEF families
    <3> QED
      BY <2>1
  <2>3. ExistingAddrType(c, l) = CHOOSE f \in families : TRUE
    BY <2>1 DEF ExistingAddrType
  <2> QED
    BY <2>2, <2>3
<1> HIDE DEF families
<1>4. ExistingAddrType(c, l) = Family[c.addrs[m][l]]
  BY <1>2, <1>3
<1> QED
  BY <1>4

\* add_nodes
LEMMA AddNodesOk ==
    ASSUME NEW c \in Configs, NodelistOk(c), NEW T, NEW new, NEW ids,
           GivenNodes(c, T, new, ids), ValidAddNodes(c, new)
    PROVE  LET d == AddNodes(c, new, ids)
           IN  /\ Keeps(c, d) /\ TwoNodeOk(d)
               /\ Nodes(d) = Nodes(c) \cup T
               /\ \A n \in Nodes(c) : d.addrs[n] = c.addrs[n] /\ d.nodeid[n] = c.nodeid[n]
<1> DEFINE N == Nodes(c)
           S == N \cup T
           U == UsedLinks(c)
           a == [n \in S |-> IF n \in T THEN new[n] ELSE c.addrs[n]]
           i == [n \in S |-> IF n \in T THEN ids[n] ELSE c.nodeid[n]]
           d == WithNodelist(c, a, i, c.interface)
<1>0. /\ T \in SUBSET Names /\ T \cap N = {} /\ new \in [T -> [U -> Addrs]]
      /\ DOMAIN new = T /\ ids \in NewIds(c, new)
  BY DEF GivenNodes
<1>1. /\ N # {} /\ N \in SUBSET Names /\ U # {} /\ U \in SUBSET Links
      /\ c.nodeid \in [N -> NodeIds] /\ c.interface \subseteq U
      /\ c.addrs \in [N -> LinkAddrs]
      /\ \A n \in N : DOMAIN c.addrs[n] = U
  BY NodelistOkElim, ConfigElim
<1>2. /\ ids \in [T -> 1 .. Cardinality(N) + Cardinality(T)]
      /\ \A n, m \in T : ids[n] = ids[m] => n = m
      /\ \A n \in T : ids[n] \notin UsedIds(c)
  BY <1>0 DEF NewIds
<1>3. ids \in [T -> NodeIds]
  <2>1. 1 .. Cardinality(N) + Cardinality(T) \subseteq NodeIds
    <3> DEFINE x == Cardinality(N)
               y == Cardinality(T)
               z == Cardinality(Names)
    <3>1. x \in Nat /\ y \in Nat /\ z \in Nat /\ x + y <= z
      BY AddedNodes, NodesFinite DEF GivenNodes
    <3>2. NodeIds = 1 .. z
      BY DEF NodeIds
    <3> HIDE DEF x, y, z
    <3>3. 1 .. x + y \subseteq 1 .. z
      BY <3>1
    <3> QED
      BY <3>2, <3>3 DEF x, y
  <2> QED
    BY <1>2, <2>1
<1>4. AddNodes(c, new, ids) = UpdateTwoNode(d)
  BY <1>0 DEF AddNodes, Configs, WithNodelist
<1>5. \A n \in T : new[n] \in LinkAddrs
  BY <1>0, <1>1, LinkAddrsIntro
<1>6. /\ a \in [S -> LinkAddrs] /\ i \in [S -> NodeIds]
      /\ S # {} /\ S \in SUBSET Names /\ c.interface \in SUBSET Links
  BY <1>0, <1>1, <1>3, <1>5
<1>7. /\ \A n \in N : a[n] = c.addrs[n] /\ i[n] = c.nodeid[n]
      /\ \A n \in T : a[n] = new[n] /\ i[n] = ids[n]
  BY <1>0
<1> HIDE DEF a, i
<1>8. /\ d \in Configs /\ Nodes(d) = S
      /\ d.addrs = a /\ d.nodeid = i /\ d.interface = c.interface
      /\ d.atb = c.atb /\ d.lms = c.lms /\ d.device = c.device
  BY <1>6, NodelistIntro
<1> HIDE DEF d
<1>9. \A n \in S : n \in N \/ n \in T
  OBVIOUS
<1>10. \A n \in S : DOMAIN a[n] = U
  BY <1>0, <1>1, <1>7, <1>9
<1>11. \A n, m \in S : i[n] = i[m] => n = m
  <2>1. \A n \in N, m \in T : ids[m] # c.nodeid[n]
    BY <1>2 DEF UsedIds
  <2>2. \A n, m \in N : c.nodeid[n] = c.nodeid[m] => n = m
    BY NodelistOkElim
  <2> QED
    BY <1>2, <1>7, <1>9, <2>1, <2>2
<1>12. \A n, m \in S, l, k \in U : a[n][l] = a[m][k] => n = m /\ l = k
  <2>1. \A n \in N, m \in T, l, k \in U : new[m][k] # c.addrs[n][l]
    <3>1. \A n \in N, l \in U : c.addrs[n][l] \in AddrsOf(c)
      BY <1>1 DEF AddrsOf, RangeOf
    <3> QED
      BY <1>0, <3>1 DEF ValidAddNodes
  <2>2. \A n, m \in T, l, k \in U : new[n][l] = new[m][k] => n = m /\ l = k
    BY <1>0 DEF ValidAddNodes
  <2>3. \A n, m \in N, l, k \in U : c.addrs[n][l] = c.addrs[m][k] => n = m /\ l = k
    BY NodelistOkElim
  <2> QED
    BY <1>7, <1>9, <2>1, <2>2, <2>3
<1>13. \A n, m \in S, l \in U : ~(Family[a[n][l]] = "IPv4" /\ Family[a[m][l]] = "IPv6")
  <2>1. \A n, m \in T, l \in U : ~(Family[new[n][l]] = "IPv4" /\ Family[new[m][l]] = "IPv6")
    <3> SUFFICES ASSUME NEW n \in T, NEW m \in T, NEW l \in U
                 PROVE  ~(Family[new[n][l]] = "IPv4" /\ Family[new[m][l]] = "IPv6")
      OBVIOUS
    <3> DEFINE A == {new[p][l] : p \in T}
    <3>1. new[n][l] \in A /\ new[m][l] \in A
      OBVIOUS
    <3>2. ~MixesIpv4Ipv6(A)
      BY <1>0 DEF ValidAddNodes
    <3> HIDE DEF A
    <3> QED
      BY <3>1, <3>2, NotMixed
  <2>2. \A n \in T, m \in N, l \in U :
           /\ ~(Family[new[n][l]] = "IPv4" /\ Family[c.addrs[m][l]] = "IPv6")
           /\ ~(Family[c.addrs[m][l]] = "IPv4" /\ Family[new[n][l]] = "IPv6")
    <3> SUFFICES ASSUME NEW n \in T, NEW l \in U
                 PROVE  \A m \in N :
                   /\ ~(Family[new[n][l]] = "IPv4" /\ Family[c.addrs[m][l]] = "IPv6")
                   /\ ~(Family[c.addrs[m][l]] = "IPv4" /\ Family[new[n][l]] = "IPv6")
      OBVIOUS
    <3>1. new[n][l] \in Addrs
      BY <1>0
    <3>2. \/ Family[new[n][l]] = "FQDN"
          \/ ExistingAddrType(c, l) \in {"FQDN", Family[new[n][l]]}
      BY <1>0 DEF ValidAddNodes
    <3> QED
      BY <3>1, <3>2, NewFamily
  <2>3. \A n, m \in N, l \in U : ~(/\ Family[c.addrs[n][l]] = "IPv4"
                                   /\ Family[c.addrs[m][l]] = "IPv6")
    BY NodelistOkElim
  <2> QED
    BY <1>7, <1>9, <2>1, <2>2, <2>3
<1>14. NodelistOk(d)
  <2>1. DOMAIN i = S
    BY <1>6
  <2> HIDE DEF S, U
  <2> QED
    BY <1>1, <1>6, <1>8, <1>10, <1>11, <1>12, <1>13, <2>1, NodelistOkIntro
<1>15. \A n \in N : d.addrs[n] = c.addrs[n] /\ d.nodeid[n] = c.nodeid[n]
  BY <1>7, <1>8
<1> HIDE DEF S
<1> QED
  BY <1>4, <1>8, <1>14, <1>15, UpdateTwoNodeOk, SameNodelist DEF Keeps, S

\* The quorum section changed as asked, the nodelist kept.
WithQuorum(c, atb, lms, device) ==
    UpdateTwoNode([c EXCEPT !.atb = atb, !.lms = lms, !.device = device])

\* The nodelist of c is that of d.
SameNodes(c, d) ==
    Nodes(d) = Nodes(c) /\ d.addrs = c.addrs /\ d.nodeid = c.nodeid

\* The file d is c with other values in the quorum section.
QuorumEdit(c, d, atb, lms, device) ==
    /\ d \in Configs /\ NodelistOk(d) /\ TwoNodeOk(d) /\ SameNodes(c, d)
    /\ d.atb = atb /\ d.lms = lms /\ d.device = device

\* It is a configuration again.
LEMMA WithQuorumOk ==
    ASSUME NEW c \in Configs, NodelistOk(c), NEW atb \in BOOLEAN, NEW lms \in BOOLEAN,
           NEW device \in Devices \cup {NoDevice}
    PROVE  QuorumEdit(c, WithQuorum(c, atb, lms, device), atb, lms, device)
<1> DEFINE e == [c EXCEPT !.atb = atb, !.lms = lms, !.device = device]
<1>1. /\ e \in Configs /\ Nodes(e) = Nodes(c)
      /\ e.addrs = c.addrs /\ e.nodeid = c.nodeid /\ e.interface = c.interface
      /\ e.atb = atb /\ e.lms = lms /\ e.device = device
  BY DEF Configs, Nodes
<1>2. WithQuorum(c, atb, lms, device) = UpdateTwoNode(e)
  BY DEF WithQuorum
<1> HIDE DEF e
<1>3. NodelistOk(e)
  BY <1>1, SameNodelist
<1> DEFINE d == UpdateTwoNode(e)
<1>4. /\ d \in Configs /\ Nodes(d) = Nodes(e)
      /\ d.addrs = e.addrs /\ d.nodeid = e.nodeid /\ d.interface = e.interface
      /\ d.atb = e.atb /\ d.lms = e.lms /\ d.device = e.device
      /\ TwoNodeOk(d)
  BY <1>1, UpdateTwoNodeOk
<1> HIDE DEF d
<1>5. NodelistOk(d)
  BY <1>3, <1>4, SameNodelist
<1>6. SameNodes(c, d)
  BY <1>1, <1>4 DEF SameNodes
<1> QED
  BY <1>1, <1>2, <1>4, <1>5, <1>6 DEF d, QuorumEdit

\* The operations on the quorum section are of this form.
LEMMA QuorumOperations ==
    ASSUME NEW c \in Configs
    PROVE  /\ \A atb, lms \in BOOLEAN :
                 SetQuorumOptions(c, atb, lms) = WithQuorum(c, atb, lms, c.device)
           /\ \A v : AddQuorumDevice(c, v) = WithQuorum(c, FALSE, FALSE, UpdateQdeviceVotes(v))
           /\ \A v : UpdateQuorumDevice(c, v)
                       = WithQuorum(c, c.atb, c.lms, UpdateQdeviceVotes(v))
           /\ RemoveQuorumDevice(c) = WithQuorum(c, c.atb, c.lms, NoDevice)
<1>1. \A atb, lms \in BOOLEAN : [c EXCEPT !.atb = atb, !.lms = lms]
                        = [c EXCEPT !.atb = atb, !.lms = lms, !.device = c.device]
  BY DEF Configs
<1>2. \A v : [c EXCEPT !.device = v] = [c EXCEPT !.atb = c.atb, !.lms = c.lms, !.device = v]
  BY DEF Configs
<1> QED
  BY <1>1, <1>2, Zenon DEF WithQuorum, SetQuorumOptions, AddQuorumDevice, UpdateQuorumDevice,
                    RemoveQuorumDevice

\* The votes of a device.
LEMMA VotesOk ==
    ASSUME NEW v \in Devices
    PROVE  LET w == UpdateQdeviceVotes(v)
           IN  /\ w \in Devices /\ w # NoDevice
               /\ w.model = v.model /\ w.tie_breaker = v.tie_breaker
               /\ w.model = "net" => (w.votes <=> w.algorithm = "ffsplit")
<1> DEFINE b == v.algorithm = "ffsplit"
           w == [v EXCEPT !.votes = b]
<1>1. b \in BOOLEAN
  OBVIOUS
<1>2. v.model = "net" => UpdateQdeviceVotes(v) = w
  BY DEF UpdateQdeviceVotes
<1>3. v.model # "net" => UpdateQdeviceVotes(v) = v
  BY DEF UpdateQdeviceVotes
<1>4. v.algorithm = "ffsplit" <=> b
  OBVIOUS
<1> HIDE DEF b
<1>5. /\ w \in Devices /\ w.model = v.model /\ w.tie_breaker = v.tie_breaker
      /\ w.votes = b /\ w.algorithm = v.algorithm
  BY <1>1 DEF Devices
<1> HIDE DEF w
<1>6. v # NoDevice /\ w # NoDevice
  BY <1>5, FacadeAssumption
<1>7. CASE v.model = "net"
  BY <1>2, <1>4, <1>5, <1>6, <1>7
<1>8. CASE v.model # "net"
  BY <1>3, <1>5, <1>6, <1>8
<1> QED
  BY <1>7, <1>8

-----------------------------------------------------------------------------
(* The commands.                                                           *)

ConfOk(c) == c \in Configs /\ NodelistOk(c) /\ TwoNodeOk(c) /\ DeviceOk(c)

\* The inductive invariant.
ConfInv == TypeOK /\ ConfOk(conf)

\* What the action properties ask of a step.
TieKept == TieBreakerIsMember => TieBreakerIsMember'

AtbKept == AtbForSbd => AtbForSbd'

ReloadOk == running => ReloadApplies(conf, conf')

ServedKept == Served => Served'

StepOk == ConfOk(conf') /\ TieKept /\ AtbKept /\ ReloadOk /\ ServedKept

\* The tie breaker is kept with the device and the ids.
LEMMA TieKeptByIds ==
    ASSUME conf'.device = conf.device, UsedIds(conf) \subseteq UsedIds(conf')
    PROVE  TieKept
BY DEF TieKept, TieBreakerIsMember

\* The need for auto_tie_breaker depends on the number of nodes, the option,
\* the device and SBD.
LEMMA AtbKeptBySize ==
    ASSUME conf'.atb = conf.atb, conf'.device = conf.device, sbd' = sbd,
           Cardinality(Nodes(conf')) = Cardinality(Nodes(conf))
    PROVE  AtbKept
BY DEF AtbKept, AtbForSbd, AtbHasToBeEnabled, AutoTieBreakerNeeded,
       EvenNumberOfNodesAndNoQdevice

\* A reload applies what neither nodes nor quorum options are touched by.
LEMMA ReloadSameNodes ==
    ASSUME NEW c, NEW d, UniqueIds(c), SameNodes(c, d), c.atb = d.atb, c.lms = d.lms
    PROVE  ReloadApplies(c, d)
BY DEF ReloadApplies, SameNodes, UniqueIds

\* The device and its client are left alone.
LEMMA ClientKept ==
    ASSUME client' = client, conf'.device = conf.device
    PROVE  ServedKept
BY DEF ServedKept, Served

\* quorum options
LEMMA SetOptionsStep ==
    ASSUME ConfInv, NEW atb \in BOOLEAN, NEW lms \in BOOLEAN, NEW force \in BOOLEAN,
           SetOptions(atb, lms, force)
    PROVE  /\ ConfOk(conf') /\ TieKept /\ ReloadOk /\ ServedKept
           /\ force = FALSE => AtbKept
<1>1. /\ conf \in Configs /\ NodelistOk(conf) /\ DeviceOk(conf)
      /\ conf.device \in Devices \cup {NoDevice}
  BY ConfigElim DEF ConfInv, ConfOk
<1>2. /\ conf' = WithQuorum(conf, atb, lms, conf.device) /\ ~running
      /\ conf.atb /\ AtbHasToBeEnabled(conf', 0) => force
      /\ UNCHANGED <<running, sbd, client>>
      /\ conf.device # NoDevice => atb = conf.atb /\ lms = conf.lms
  BY <1>1, QuorumOperations DEF SetOptions, Push, Accepted, ValidQuorumOptions
<1>3. /\ conf' \in Configs /\ NodelistOk(conf') /\ TwoNodeOk(conf') /\ SameNodes(conf, conf')
      /\ conf'.atb = atb /\ conf'.lms = lms /\ conf'.device = conf.device
  BY <1>1, <1>2, WithQuorumOk DEF QuorumEdit
<1>4. DeviceOk(conf')
  BY <1>1, <1>2, <1>3 DEF DeviceOk
<1>5. TieKept
  BY <1>3, TieKeptByIds DEF SameNodes, UsedIds
<1>6. ASSUME force = FALSE
      PROVE  AtbKept
  <2> SUFFICES ASSUME AtbForSbd, ~AtbForSbd'
               PROVE  FALSE
    BY DEF AtbKept
  <2>1. AtbHasToBeEnabled(conf', 0)
    BY <1>2 DEF AtbForSbd, AtbHasToBeEnabled, AutoTieBreakerNeeded
  <2>2. Nodes(conf') = Nodes(conf)
    BY <1>3 DEF SameNodes
  <2>3. conf.atb
    BY <1>2, <1>3, <2>1, <2>2 DEF AtbForSbd, AtbHasToBeEnabled, AutoTieBreakerNeeded,
                        EvenNumberOfNodesAndNoQdevice
  <2> QED
    BY <1>2, <1>6, <2>1, <2>3
<1>7. ReloadOk /\ ServedKept
  BY <1>2, <1>3, ClientKept DEF ReloadOk
<1> QED
  BY <1>3, <1>4, <1>5, <1>6, <1>7 DEF ConfOk

\* A new device; where nodes are skipped it may lack its client.
LEMMA AddDeviceStep ==
    ASSUME ConfInv, NEW v \in InputDevices, NEW force \in BOOLEAN, NEW skip \in BOOLEAN,
           AddDevice(v, force, skip)
    PROVE  /\ ConfOk(conf') /\ AtbKept /\ ReloadOk
           /\ force = FALSE => TieKept
           /\ skip = FALSE => ServedKept
<1>1. /\ conf \in Configs /\ NodelistOk(conf) /\ ConfOk(conf) /\ v \in Devices
      /\ UniqueIds(conf) /\ conf.device = NoDevice
  BY CommandsAssumption DEF ConfInv, ConfOk, NodelistOk, AddDevice
<1>2. UNCHANGED <<running, sbd>>
  BY DEF AddDevice
<1>3. CASE conf' = conf
  <2>1. SameNodes(conf, conf')
    BY <1>3 DEF SameNodes
  <2>2. TieKept /\ AtbKept /\ ReloadOk
    BY <1>1, <1>2, <1>3, <2>1, TieKeptByIds, AtbKeptBySize, ReloadSameNodes DEF ReloadOk
  <2>3. ServedKept
    BY <1>1, <1>3 DEF ServedKept, Served
  <2> QED
    BY <1>1, <1>3, <2>2, <2>3
<1>4. CASE Reached("all", skip) /\ Push(AddQuorumDevice(conf, v), AddDeviceNeedsStopped(conf))
  <2> DEFINE w == UpdateQdeviceVotes(v)
  <2>1. /\ conf' = WithQuorum(conf, FALSE, FALSE, w)
        /\ conf.atb \/ conf.lms => ~running
    BY <1>1, <1>4, QuorumOperations DEF Push, Accepted, AddDeviceNeedsStopped
  <2>2. /\ w \in Devices /\ w # NoDevice /\ w.model = v.model
        /\ w.tie_breaker = v.tie_breaker
        /\ w.model = "net" => (w.votes <=> w.algorithm = "ffsplit")
    BY <1>1, VotesOk
  <2> HIDE DEF w
  <2>3. /\ conf' \in Configs /\ NodelistOk(conf') /\ TwoNodeOk(conf')
        /\ SameNodes(conf, conf')
        /\ conf'.atb = FALSE /\ conf'.lms = FALSE /\ conf'.device = w
    <3>1. w \in Devices \cup {NoDevice}
      BY <2>2
    <3>2. QuorumEdit(conf, conf', FALSE, FALSE, w)
      BY <1>1, <2>1, <3>1, WithQuorumOk
    <3> QED
      BY <3>2 DEF QuorumEdit
  <2>4. DeviceOk(conf')
    BY <2>2, <2>3 DEF DeviceOk
  <2>5. ASSUME force = FALSE
        PROVE  TieKept
    <3>1. v.model = "net" => v.tie_breaker \in {0} \cup UsedIds(conf)
      BY <2>5 DEF AddDevice, ValidTieBreaker
    <3>2. UsedIds(conf') = UsedIds(conf)
      BY <2>3 DEF SameNodes, UsedIds
    <3> QED
      BY <2>2, <2>3, <3>1, <3>2 DEF TieKept, TieBreakerIsMember
  <2>6. AtbKept
    BY <2>2, <2>3 DEF AtbKept, AtbForSbd, AtbHasToBeEnabled, AutoTieBreakerNeeded,
                      EvenNumberOfNodesAndNoQdevice
  <2>7. ReloadOk
    <3>1. running => conf.atb = FALSE /\ conf.lms = FALSE
      BY <1>1, <2>1, ConfigElim
    <3> QED
      BY <1>1, <2>3, <3>1, ReloadSameNodes DEF ReloadOk
  <2>8. skip = FALSE => ServedKept
    BY <1>4 DEF ServedKept, Served, Reached
  <2> QED
    BY <2>3, <2>4, <2>5, <2>6, <2>7, <2>8 DEF ConfOk
<1> QED
  BY <1>3, <1>4 DEF AddDevice

\* Other options of the device.
LEMMA UpdateDeviceStep ==
    ASSUME ConfInv, NEW v \in InputDevices, NEW force \in BOOLEAN, UpdateDevice(v, force)
    PROVE  /\ ConfOk(conf') /\ AtbKept /\ ReloadOk /\ ServedKept
           /\ force = FALSE => TieKept
<1>1. /\ conf \in Configs /\ NodelistOk(conf) /\ DeviceOk(conf) /\ v \in Devices
      /\ UniqueIds(conf) /\ conf.device # NoDevice /\ conf.atb \in BOOLEAN
      /\ conf.lms \in BOOLEAN
  BY CommandsAssumption, ConfigElim DEF ConfInv, ConfOk, NodelistOk, UpdateDevice
<1> DEFINE w == UpdateQdeviceVotes(v)
<1>2. /\ conf' = WithQuorum(conf, conf.atb, conf.lms, w)
      /\ UNCHANGED <<running, sbd, client>>
  BY <1>1, QuorumOperations DEF Push, Accepted, UpdateDevice
<1>3. /\ w \in Devices /\ w # NoDevice /\ w.model = v.model
      /\ w.tie_breaker = v.tie_breaker
      /\ w.model = "net" => (w.votes <=> w.algorithm = "ffsplit")
  BY <1>1, VotesOk
<1> HIDE DEF w
<1>4. /\ conf' \in Configs /\ NodelistOk(conf') /\ TwoNodeOk(conf')
      /\ SameNodes(conf, conf')
      /\ conf'.atb = conf.atb /\ conf'.lms = conf.lms /\ conf'.device = w
  <2>1. w \in Devices \cup {NoDevice}
    BY <1>3
  <2>2. QuorumEdit(conf, conf', conf.atb, conf.lms, w)
    BY <1>1, <1>2, <2>1, WithQuorumOk
  <2> QED
    BY <2>2 DEF QuorumEdit
<1>5. DeviceOk(conf')
  BY <1>1, <1>3, <1>4 DEF DeviceOk
<1>6. ASSUME force = FALSE
      PROVE  TieKept
  <2>1. /\ v.model = conf.device.model
        /\ v.model = "net" => \/ v.tie_breaker = conf.device.tie_breaker
                              \/ v.tie_breaker \in {0} \cup UsedIds(conf)
    BY <1>6 DEF UpdateDevice, ValidTieBreaker
  <2>2. UsedIds(conf') = UsedIds(conf)
    BY <1>4 DEF SameNodes, UsedIds
  <2> QED
    BY <1>1, <1>3, <1>4, <2>1, <2>2 DEF TieKept, TieBreakerIsMember
<1>7. AtbKept
  BY <1>3, <1>4 DEF AtbKept, AtbForSbd, AtbHasToBeEnabled, AutoTieBreakerNeeded,
                    EvenNumberOfNodesAndNoQdevice
<1>8. ReloadOk
  BY <1>1, <1>4, ReloadSameNodes DEF ReloadOk
<1>9. ServedKept
  BY <1>1, <1>2 DEF ServedKept, Served
<1> QED
  BY <1>4, <1>5, <1>6, <1>7, <1>8, <1>9 DEF ConfOk

\* The device and the options it excludes are kept together.
LEMMA DeviceKept ==
    ASSUME NEW c, NEW d, DeviceOk(c), d.atb = c.atb, d.lms = c.lms, d.device = c.device
    PROVE  DeviceOk(d)
BY DEF DeviceOk

\* auto_tie_breaker is an edit of the quorum section.
LEMMA EnableAtbOk ==
    ASSUME NEW c \in Configs, NodelistOk(c)
    PROVE  QuorumEdit(c, EnableAtb(c), TRUE, c.lms, c.device)
<1>1. /\ c.lms \in BOOLEAN /\ TRUE \in BOOLEAN
      /\ c.device \in Devices \cup {NoDevice}
  BY ConfigElim
<1>2. EnableAtb(c) = WithQuorum(c, TRUE, c.lms, c.device)
  BY <1>1, QuorumOperations DEF EnableAtb
<1> QED
  BY <1>1, <1>2, WithQuorumOk

\* A file that nothing but the quorum section changes in keeps the ids.
LEMMA SameIds ==
    ASSUME NEW c, NEW d, SameNodes(c, d)
    PROVE  UsedIds(d) = UsedIds(c)
BY DEF SameNodes, UsedIds

\* With the option set SBD has what it needs.
LEMMA AtbKeptBySetting ==
    ASSUME conf'.atb = TRUE
    PROVE  AtbKept
BY DEF AtbKept, AtbForSbd, AtbHasToBeEnabled

\* Where SBD does not need the option afterwards, nothing is lost.
LEMMA AtbKeptByTest ==
    ASSUME sbd' = sbd, ~AtbHasToBeEnabled(conf', 0)
    PROVE  AtbKept
BY DEF AtbKept, AtbForSbd, AtbHasToBeEnabled, AutoTieBreakerNeeded,
       EvenNumberOfNodesAndNoQdevice

\* The commands that leave the file alone.
LEMMA SameConfStep ==
    ASSUME ConfInv, conf' = conf, UNCHANGED sbd \/ sbd' = "off", UNCHANGED client
    PROVE  StepOk
<1>1. ConfOk(conf') /\ UniqueIds(conf)
  BY DEF ConfInv, ConfOk, NodelistOk
<1>2. SameNodes(conf, conf')
  BY DEF SameNodes
<1>3. TieKept
  BY TieKeptByIds
<1>4. AtbKept
  BY DEF AtbKept, AtbForSbd, AtbHasToBeEnabled, AutoTieBreakerNeeded,
         EvenNumberOfNodesAndNoQdevice
<1>5. ReloadOk
  BY <1>1, <1>2, ReloadSameNodes DEF ReloadOk
<1> QED
  BY <1>1, <1>3, <1>4, <1>5, ClientKept DEF StepOk

\* The device goes, or its client goes without it.
LEMMA RemoveDeviceStep ==
    ASSUME ConfInv, NEW skip, RemoveDevice(skip)
    PROVE  /\ ConfOk(conf') /\ TieKept /\ AtbKept /\ ReloadOk
           /\ ServedKept \/ UNCHANGED conf
<1>1. /\ conf \in Configs /\ NodelistOk(conf) /\ DeviceOk(conf) /\ ConfOk(conf)
      /\ UniqueIds(conf) /\ conf.device # NoDevice
      /\ conf.atb \in BOOLEAN /\ conf.lms \in BOOLEAN
  BY ConfigElim DEF ConfInv, ConfOk, NodelistOk, RemoveDevice
<1>2. running' = running /\ sbd' = sbd
  BY DEF RemoveDevice
<1> DEFINE c == RemoveQuorumDevice(conf)
<1>3. QuorumEdit(conf, c, conf.atb, conf.lms, NoDevice)
  <2>1. NoDevice \in Devices \cup {NoDevice}
    OBVIOUS
  <2>2. c = WithQuorum(conf, conf.atb, conf.lms, NoDevice)
    BY <1>1, QuorumOperations
  <2> HIDE DEF c
  <2> QED
    BY <1>1, <2>1, <2>2, WithQuorumOk
<1>4. \/ conf' = c /\ ~AtbHasToBeEnabled(c, 0)
      \/ conf' = EnableAtb(c) /\ ~running
      \/ conf' = conf
  BY DEF RemoveDevice, Push, Accepted
<1>5. CASE conf' = c /\ ~AtbHasToBeEnabled(c, 0)
  <2> HIDE DEF c
  <2>1. /\ conf' \in Configs /\ NodelistOk(conf') /\ TwoNodeOk(conf')
        /\ SameNodes(conf, conf') /\ conf'.atb = conf.atb /\ conf'.lms = conf.lms
        /\ conf'.device = NoDevice
    BY <1>3, <1>5 DEF QuorumEdit
  <2>2. DeviceOk(conf') /\ TieKept /\ ServedKept
    BY <1>1, <2>1 DEF DeviceOk, TieKept, TieBreakerIsMember, ServedKept, Served
  <2>3. AtbKept
    BY <1>2, <1>5, AtbKeptByTest
  <2>4. ReloadOk
    BY <1>1, <2>1, ReloadSameNodes DEF ReloadOk
  <2> QED
    BY <2>1, <2>2, <2>3, <2>4 DEF ConfOk
<1>6. CASE conf' = EnableAtb(c) /\ ~running
  <2> HIDE DEF c
  <2>1. c \in Configs /\ NodelistOk(c) /\ SameNodes(conf, c) /\ c.device = NoDevice
    BY <1>3 DEF QuorumEdit
  <2>2. QuorumEdit(c, conf', TRUE, c.lms, c.device)
    BY <1>6, <2>1, EnableAtbOk
  <2>3. /\ conf' \in Configs /\ NodelistOk(conf') /\ TwoNodeOk(conf')
        /\ conf'.atb = TRUE /\ conf'.device = NoDevice
    BY <2>1, <2>2 DEF QuorumEdit
  <2>4. DeviceOk(conf') /\ TieKept /\ ServedKept
    BY <2>3 DEF DeviceOk, TieKept, TieBreakerIsMember, ServedKept, Served
  <2>5. AtbKept /\ ReloadOk
    BY <1>6, <2>3, AtbKeptBySetting DEF ReloadOk
  <2> QED
    BY <2>3, <2>4, <2>5 DEF ConfOk
<1>7. CASE conf' = conf
  <2>1. SameNodes(conf, conf')
    BY <1>7 DEF SameNodes
  <2>2. TieKept /\ AtbKept /\ ReloadOk
    BY <1>1, <1>2, <1>7, <2>1, TieKeptByIds, AtbKeptBySize, ReloadSameNodes DEF ReloadOk
  <2> QED
    BY <1>1, <1>7, <2>2
<1> QED
  BY <1>4, <1>5, <1>6, <1>7

\* SBD is enabled.
LEMMA EnableSbdStep ==
    ASSUME ConfInv, NEW devices \in BOOLEAN, EnableSbd(devices)
    PROVE  StepOk
<1>1. /\ conf \in Configs /\ NodelistOk(conf) /\ DeviceOk(conf) /\ ConfOk(conf)
      /\ UniqueIds(conf)
  BY DEF ConfInv, ConfOk, NodelistOk
<1>2. /\ client' = client /\ running' = running
      /\ sbd' = IF devices THEN "devices" ELSE "watchdog"
  BY DEF EnableSbd
<1> DEFINE atb == ~devices /\ ~conf.atb /\ EvenNumberOfNodesAndNoQdevice(conf, 0)
<1>3. \/ atb /\ conf' = EnableAtb(conf) /\ ~running
      \/ ~atb /\ conf' = conf
  BY DEF EnableSbd, Push, Accepted
<1>4. CASE atb /\ conf' = EnableAtb(conf) /\ ~running
  <2>1. conf.device = NoDevice
    BY <1>4 DEF EvenNumberOfNodesAndNoQdevice
  <2>2. QuorumEdit(conf, conf', TRUE, conf.lms, conf.device)
    BY <1>1, <1>4, EnableAtbOk
  <2>3. /\ conf' \in Configs /\ NodelistOk(conf') /\ TwoNodeOk(conf')
        /\ conf'.atb = TRUE /\ conf'.device = NoDevice
    BY <2>1, <2>2 DEF QuorumEdit
  <2>4. DeviceOk(conf') /\ TieKept /\ ServedKept
    BY <1>2, <2>3 DEF DeviceOk, TieKept, TieBreakerIsMember, ServedKept, Served
  <2>5. AtbKept /\ ReloadOk
    BY <1>4, <2>3, AtbKeptBySetting DEF ReloadOk
  <2> QED
    BY <2>3, <2>4, <2>5 DEF StepOk, ConfOk
<1>5. CASE ~atb /\ conf' = conf
  <2>1. SameNodes(conf, conf')
    BY <1>5 DEF SameNodes
  <2>2. TieKept /\ ReloadOk /\ ServedKept
    BY <1>1, <1>2, <1>5, <2>1, TieKeptByIds, ReloadSameNodes, ClientKept DEF ReloadOk
  <2>3. AtbForSbd'
    BY <1>2, <1>5 DEF AtbForSbd, AtbHasToBeEnabled, AutoTieBreakerNeeded,
                      EvenNumberOfNodesAndNoQdevice
  <2> QED
    BY <1>1, <1>5, <2>2, <2>3 DEF StepOk, AtbKept
<1> QED
  BY <1>3, <1>4, <1>5

\* A command that keeps the quorum section and the number of nodes, whose ids
\* it keeps, may only go wrong in a running cluster.
LEMMA KeepsStep ==
    ASSUME ConfInv, Keeps(conf, conf'), TwoNodeOk(conf'), UNCHANGED <<running, sbd, client>>,
           Cardinality(Nodes(conf')) = Cardinality(Nodes(conf)),
           UsedIds(conf) \subseteq UsedIds(conf'), ReloadOk
    PROVE  StepOk
<1>1. /\ conf'.atb = conf.atb /\ conf'.lms = conf.lms /\ conf'.device = conf.device
      /\ DeviceOk(conf) /\ conf' \in Configs /\ NodelistOk(conf')
  BY DEF Keeps, ConfInv, ConfOk
<1>2. DeviceOk(conf') /\ TieKept /\ AtbKept /\ ServedKept
  BY <1>1, DeviceKept, TieKeptByIds, AtbKeptBySize, ClientKept
<1> QED
  BY <1>1, <1>2 DEF StepOk, ConfOk

\* Existing addresses and the nodes stay.
LEMMA ReloadSameAddrs ==
    ASSUME NEW c, NEW d, Keeps(c, d), UniqueIds(c), Nodes(d) = Nodes(c), d.nodeid = c.nodeid,
           \A n \in Nodes(c) : \A k \in DOMAIN c.addrs[n] \cap DOMAIN d.addrs[n] :
              d.addrs[n][k] = c.addrs[n][k]
    PROVE  ReloadApplies(c, d)
BY DEF ReloadApplies, Keeps, UniqueIds

LEMMA AddLinkStep ==
    ASSUME ConfInv, NEW l \in Links, NEW map \in AddrMaps({Nodes(conf)}),
           NEW options \in BOOLEAN, AddLinkCommand(l, map, options),
           UNCHANGED <<running, sbd, client>>
    PROVE  StepOk
<1>1. /\ conf \in Configs /\ NodelistOk(conf) /\ TwoNodeOk(conf) /\ UniqueIds(conf)
  BY DEF ConfInv, ConfOk, NodelistOk
<1>2. map \in [Nodes(conf) -> Addrs]
  BY DEF AddrMaps
<1>3. /\ ValidAddLink(conf, l, map) /\ conf' = AddLink(conf, l, map, options)
      /\ UNCHANGED <<running, sbd, client>>
  BY DEF AddLinkCommand, Push
<1>4. /\ Keeps(conf, conf') /\ TwoNodeOk(conf')
      /\ Nodes(conf') = Nodes(conf) /\ conf'.nodeid = conf.nodeid
      /\ \A n \in Nodes(conf) : \A k \in DOMAIN conf.addrs[n] :
            conf'.addrs[n][k] = conf.addrs[n][k]
  BY <1>1, <1>2, <1>3, AddLinkOk
<1>5. ReloadOk
  BY <1>1, <1>4, ReloadSameAddrs DEF ReloadOk
<1> QED
  BY <1>3, <1>4, <1>5, KeepsStep DEF UsedIds

LEMMA RemoveLinksStep ==
    ASSUME ConfInv, NEW L, RemoveLinksCommand(L),
           UNCHANGED <<running, sbd, client>>
    PROVE  StepOk
<1>1. /\ conf \in Configs /\ NodelistOk(conf) /\ TwoNodeOk(conf) /\ UniqueIds(conf)
  BY DEF ConfInv, ConfOk, NodelistOk
<1>2. /\ ValidRemoveLinks(conf, L) /\ conf' = RemoveLinks(conf, L)
      /\ UNCHANGED <<running, sbd, client>>
  BY DEF RemoveLinksCommand, Push
<1>3. /\ Keeps(conf, conf') /\ TwoNodeOk(conf')
      /\ Nodes(conf') = Nodes(conf) /\ conf'.nodeid = conf.nodeid
      /\ \A n \in Nodes(conf) : \A k \in DOMAIN conf'.addrs[n] :
            conf'.addrs[n][k] = conf.addrs[n][k]
  BY <1>1, <1>2, RemoveLinksOk
<1>4. ReloadOk
  BY <1>1, <1>3, ReloadSameAddrs DEF ReloadOk
<1> QED
  BY <1>2, <1>3, <1>4, KeepsStep DEF UsedIds

LEMMA UpdateLinkStep ==
    ASSUME ConfInv, NEW l \in Links, NEW map \in AddrMaps(SUBSET Nodes(conf)),
           NEW f \in Sections(conf, l),
           UpdateLinkCommand(l, map, f),
           UNCHANGED <<running, sbd, client>>
    PROVE  StepOk
<1>1. /\ conf \in Configs /\ NodelistOk(conf) /\ TwoNodeOk(conf) /\ UniqueIds(conf)
  BY DEF ConfInv, ConfOk, NodelistOk
<1>2. PICK M \in SUBSET Nodes(conf) : map \in [M -> Addrs]
  BY DEF AddrMaps
<1>3. /\ ValidUpdateLink(conf, l, map) /\ conf' = UpdateLink(conf, l, map, f)
      /\ ~running /\ UNCHANGED <<running, sbd, client>>
  BY DEF UpdateLinkCommand, Push, Accepted
<1>4. /\ Keeps(conf, conf') /\ TwoNodeOk(conf')
      /\ Nodes(conf') = Nodes(conf) /\ conf'.nodeid = conf.nodeid
  BY <1>1, <1>2, <1>3, UpdateLinkOk
<1> QED
  BY <1>3, <1>4, KeepsStep DEF UsedIds, ReloadOk

LEMMA RenameNodeStep ==
    ASSUME ConfInv, NEW old \in Names, NEW new \in Names, RenameNodeCommand(old, new),
           UNCHANGED <<running, sbd, client>>
    PROVE  StepOk
<1>1. /\ conf \in Configs /\ NodelistOk(conf) /\ TwoNodeOk(conf)
      /\ old \in Nodes(conf) /\ new \in Names \ Nodes(conf)
  BY DEF ConfInv, ConfOk, RenameNodeCommand
<1>2. /\ conf' = RenameNode(conf, old, new) /\ ~running
      /\ UNCHANGED <<running, sbd, client>>
  BY DEF RenameNodeCommand, Push, Accepted
<1>3. /\ Keeps(conf, conf') /\ TwoNodeOk(conf')
      /\ Cardinality(Nodes(conf')) = Cardinality(Nodes(conf))
      /\ \A n \in Nodes(conf) : \E m \in Nodes(conf') : conf'.nodeid[m] = conf.nodeid[n]
  BY <1>1, <1>2, RenameNodeOk
<1>4. UsedIds(conf) \subseteq UsedIds(conf')
  BY <1>3 DEF UsedIds
<1> QED
  BY <1>2, <1>3, <1>4, KeepsStep DEF ReloadOk

\* auto_tie_breaker is enabled, or not, after the nodes have changed.
LEMMA ThenAtb ==
    ASSUME ConfInv, NEW c, Keeps(conf, c), TwoNodeOk(c), NEW atb \in BOOLEAN,
           conf' = IF atb THEN EnableAtb(c) ELSE c,
           atb => conf.device = NoDevice
    PROVE  /\ ConfOk(conf') /\ conf'.device = conf.device /\ SameNodes(c, conf')
           /\ atb => conf'.atb = TRUE
           /\ ~atb => conf' = c
<1>1. /\ c \in Configs /\ NodelistOk(c) /\ c.device = conf.device /\ DeviceOk(conf)
      /\ c.atb = conf.atb /\ c.lms = conf.lms
  BY DEF Keeps, ConfInv, ConfOk
<1>2. CASE atb
  <2>1. QuorumEdit(c, conf', TRUE, c.lms, c.device)
    BY <1>1, <1>2, EnableAtbOk
  <2>2. /\ conf' \in Configs /\ NodelistOk(conf') /\ TwoNodeOk(conf')
        /\ SameNodes(c, conf') /\ conf'.atb = TRUE /\ conf'.device = NoDevice
    BY <1>1, <1>2, <2>1 DEF QuorumEdit
  <2> QED
    BY <1>1, <1>2, <2>2 DEF ConfOk, DeviceOk
<1>3. CASE ~atb
  <2>1. DeviceOk(c)
    BY <1>1, DeviceKept
  <2> QED
    BY <1>1, <1>3, <2>1 DEF ConfOk, SameNodes
<1> QED
  BY <1>2, <1>3

\* Nodes are added.
LEMMA AddNodesStep ==
    ASSUME ConfInv, NEW new \in NewNodeMaps, NEW ids \in NewIds(conf, new),
           AddNodesCommand(new, ids)
    PROVE  StepOk
<1>1. /\ conf \in Configs /\ NodelistOk(conf) /\ UniqueIds(conf)
  BY DEF ConfInv, ConfOk, NodelistOk
<1>2. PICK T \in SUBSET (Names \ Nodes(conf)) : new \in [T -> [UsedLinks(conf) -> Addrs]]
  BY DEF NewNodeMaps
<1>3. GivenNodes(conf, T, new, ids) /\ DOMAIN new = T
  BY <1>2 DEF GivenNodes
<1> DEFINE c == AddNodes(conf, new, ids)
           atb == AtbHasToBeEnabled(conf, Cardinality(T))
<1>4. /\ ValidAddNodes(conf, new)
      /\ atb => ~running
      /\ conf' = IF atb THEN EnableAtb(c) ELSE c
      /\ UNCHANGED <<running, sbd>>
  BY <1>3 DEF AddNodesCommand
<1>5. /\ Keeps(conf, c) /\ TwoNodeOk(c) /\ Nodes(c) = Nodes(conf) \cup T
      /\ \A n \in Nodes(conf) : /\ c.addrs[n] = conf.addrs[n]
                                /\ c.nodeid[n] = conf.nodeid[n]
  BY <1>1, <1>3, <1>4, AddNodesOk
<1>6. atb \in BOOLEAN /\ (atb => conf.device = NoDevice)
  BY DEF AtbHasToBeEnabled, AutoTieBreakerNeeded, EvenNumberOfNodesAndNoQdevice
<1> HIDE DEF c
<1>7. /\ ConfOk(conf') /\ conf'.device = conf.device /\ SameNodes(c, conf')
      /\ atb => conf'.atb = TRUE
      /\ ~atb => conf' = c
  <2> HIDE DEF atb
  <2> QED
    BY <1>4, <1>5, <1>6, ThenAtb
<1>8. TieKept
  <2>1. UsedIds(conf) \subseteq UsedIds(conf')
    BY <1>5, <1>7 DEF SameNodes, UsedIds
  <2> QED
    BY <1>7, <2>1, TieKeptByIds
<1>9. AtbKept
  <2>1. CASE atb
    BY <1>7, <2>1, AtbKeptBySetting
  <2>2. CASE ~atb
    <3>1. Cardinality(Nodes(conf')) + 0 = Cardinality(Nodes(conf)) + Cardinality(T)
      BY <1>1, <1>5, <1>7, <2>2, AddedNodes, NodesFinite
    <3>2. conf'.atb = conf.atb /\ conf'.device = conf.device
      BY <1>5, <1>7, <2>2 DEF Keeps
    <3>3. ~AtbHasToBeEnabled(conf', 0)
      <4> DEFINE x == Cardinality(Nodes(conf')) + 0
                 y == Cardinality(Nodes(conf)) + Cardinality(T)
      <4>1. x = y
        BY <3>1
      <4>2. x % 2 = 0 <=> y % 2 = 0
        BY <4>1, Zenon
      <4> HIDE DEF x, y
      <4> QED
        BY <2>2, <3>2, <4>2 DEF AtbHasToBeEnabled, AutoTieBreakerNeeded,
                                EvenNumberOfNodesAndNoQdevice, x, y
    <3> QED
      BY <1>4, <3>3, AtbKeptByTest
  <2> QED
    BY <2>1, <2>2
<1>10. ReloadOk
  <2> SUFFICES ASSUME running
               PROVE  ReloadApplies(conf, conf')
    BY DEF ReloadOk
  <2>1. conf' = c
    BY <1>4, <1>7
  <2>2. UniqueIds(c) /\ c.atb = conf.atb /\ c.lms = conf.lms
    BY <1>5 DEF Keeps, NodelistOk
  <2>3. ReloadApplies(conf, c)
    BY <1>5, <2>2 DEF ReloadApplies, UniqueIds
  <2> QED
    BY <2>1, <2>3
<1>11. ServedKept
  BY <1>7 DEF AddNodesCommand, ServedKept, Served
<1> QED
  BY <1>7, <1>8, <1>9, <1>10, <1>11 DEF StepOk

\* Nodes are removed.  A name that is given twice spoils what the command
\* does for SBD.
LEMMA RemoveNodesStep ==
    ASSUME ConfInv, NEW R, NEW repeats \in Nat, RemoveNodesCommand(R, repeats)
    PROVE  /\ ConfOk(conf') /\ TieKept /\ ReloadOk /\ ServedKept
           /\ repeats = 0 => AtbKept
<1>1. /\ conf \in Configs /\ NodelistOk(conf) /\ UniqueIds(conf)
  BY DEF ConfInv, ConfOk, NodelistOk
<1> DEFINE c == RemoveNodes(conf, R)
           atb == AtbHasToBeEnabled(conf, -(Cardinality(R) + repeats))
<1>2. /\ ValidRemoveNodes(conf, R)
      /\ atb => ~running
      /\ conf' = IF atb THEN EnableAtb(c) ELSE c
      /\ UNCHANGED <<running, sbd>>
  BY DEF RemoveNodesCommand
<1>3. /\ Keeps(conf, c) /\ TwoNodeOk(c) /\ Nodes(c) = Nodes(conf) \ R
      /\ c.addrs = [n \in Nodes(conf) \ R |-> conf.addrs[n]]
      /\ c.nodeid = [n \in Nodes(conf) \ R |-> conf.nodeid[n]]
  BY <1>1, <1>2, RemoveNodesOk
<1>4. atb \in BOOLEAN /\ (atb => conf.device = NoDevice)
  BY DEF AtbHasToBeEnabled, AutoTieBreakerNeeded, EvenNumberOfNodesAndNoQdevice
<1> HIDE DEF c
<1>5. /\ ConfOk(conf') /\ conf'.device = conf.device /\ SameNodes(c, conf')
      /\ atb => conf'.atb = TRUE
      /\ ~atb => conf' = c
  <2> HIDE DEF atb
  <2> QED
    BY <1>2, <1>3, <1>4, ThenAtb
<1>6. TieKept
  <2> SUFFICES ASSUME conf.device # NoDevice, conf.device.model = "net",
                      conf.device.tie_breaker \in UsedIds(conf)
               PROVE  conf.device.tie_breaker \in UsedIds(conf')
    BY <1>5 DEF TieKept, TieBreakerIsMember
  <2>1. PICK n \in Nodes(conf) : conf.nodeid[n] = conf.device.tie_breaker
    BY DEF UsedIds
  <2>2. n \notin R
    BY <1>2, <2>1 DEF ValidRemoveNodes
  <2>3. n \in Nodes(conf') /\ conf'.nodeid[n] = conf.nodeid[n]
    BY <1>3, <1>5, <2>1, <2>2 DEF SameNodes
  <2> QED
    BY <2>1, <2>3 DEF UsedIds
<1>7. ASSUME repeats = 0
      PROVE  AtbKept
  <2>1. CASE atb
    BY <1>5, <2>1, AtbKeptBySetting
  <2>2. CASE ~atb
    <3> DEFINE x == Cardinality(Nodes(conf')) + 0
               y == Cardinality(Nodes(conf)) + (-(Cardinality(R) + repeats))
    <3>1. x = y
      <4>1. R \in SUBSET Nodes(conf)
        BY <1>2 DEF ValidRemoveNodes
      <4>2. /\ Cardinality(R) \in Nat /\ Cardinality(Nodes(conf)) \in Nat
            /\ Cardinality(Nodes(conf) \ R) = Cardinality(Nodes(conf)) - Cardinality(R)
        BY <1>1, <4>1, RemovedNodes, NodesFinite
      <4>3. Nodes(conf') = Nodes(conf) \ R
        BY <1>3, <1>5, <2>2
      <4> QED
        BY <1>7, <4>2, <4>3
    <3>2. conf'.atb = conf.atb /\ conf'.device = conf.device
      BY <1>3, <1>5, <2>2 DEF Keeps
    <3>3. x % 2 = 0 <=> y % 2 = 0
      BY <3>1, Zenon
    <3> HIDE DEF x, y
    <3>4. ~AtbHasToBeEnabled(conf', 0)
      BY <2>2, <3>2, <3>3 DEF AtbHasToBeEnabled, AutoTieBreakerNeeded,
                              EvenNumberOfNodesAndNoQdevice, x, y
    <3> QED
      BY <1>2, <3>4, AtbKeptByTest
  <2> QED
    BY <2>1, <2>2
<1>8. ReloadOk
  <2> SUFFICES ASSUME running
               PROVE  ReloadApplies(conf, conf')
    BY DEF ReloadOk
  <2>1. conf' = c
    BY <1>2, <1>5
  <2>2. c.atb = conf.atb /\ c.lms = conf.lms
    BY <1>3 DEF Keeps
  <2>3. ReloadApplies(conf, c)
    BY <1>1, <1>3, <2>2 DEF ReloadApplies, UniqueIds
  <2> QED
    BY <2>1, <2>3
<1>9. ServedKept
  BY <1>5 DEF RemoveNodesCommand, ClientOfRemaining, ServedKept, Served
<1> QED
  BY <1>5, <1>6, <1>7, <1>8, <1>9

-----------------------------------------------------------------------------
(* The invariant and the theorems.                                         *)

\* The commands on links and names.
LEMMA LinkCommandStep ==
    ASSUME ConfInv, LinkCommand
    PROVE  StepOk
<1> USE DEF LinkCommand
<1>1. ASSUME NEW l \in Links, NEW map \in AddrMaps({Nodes(conf)}), NEW options \in BOOLEAN,
             AddLinkCommand(l, map, options)
      PROVE  StepOk
  BY <1>1, AddLinkStep
<1>2. ASSUME NEW L \in SUBSET Links, RemoveLinksCommand(L)
      PROVE  StepOk
  BY <1>2, RemoveLinksStep
<1>3. ASSUME NEW l \in Links, NEW map \in AddrMaps(SUBSET Nodes(conf)),
             NEW f \in {conf.interface, conf.interface \cup {l}, conf.interface \ {l}},
             UpdateLinkCommand(l, map, f)
      PROVE  StepOk
  <2>1. f \in Sections(conf, l)
    BY DEF Sections
  <2> QED
    BY <1>3, <2>1, UpdateLinkStep
<1>4. ASSUME NEW old \in Names, NEW new \in Names, RenameNodeCommand(old, new)
      PROVE  StepOk
  BY <1>4, RenameNodeStep
<1> QED
  BY <1>1, <1>2, <1>3, <1>4

\* What a command keeps, depending on what it overrides, skips and is given
\* twice.
CommandKeeps(forces, skips, max) ==
    /\ ConfOk(conf') /\ ReloadOk
    /\ forces = {FALSE} => TieKept
    /\ forces = {FALSE} /\ max = 0 => AtbKept
    /\ skips = {FALSE} => ServedKept \/ (UNCHANGED conf /\ RemoveDevice(FALSE))

LEMMA CommandOk ==
    ASSUME ConfInv, NEW forces \in SUBSET BOOLEAN, NEW skips \in SUBSET BOOLEAN,
           NEW max \in Nat, Command(forces, skips, max)
    PROVE  CommandKeeps(forces, skips, max)
<1>0. StepOk => CommandKeeps(forces, skips, max)
  BY DEF StepOk, CommandKeeps
<1>1. ASSUME NEW atb \in BOOLEAN, NEW lms \in BOOLEAN, NEW force \in forces,
             SetOptions(atb, lms, force)
      PROVE  CommandKeeps(forces, skips, max)
  <2>1. force \in BOOLEAN
    OBVIOUS
  <2> QED
    BY <1>1, <2>1, SetOptionsStep DEF CommandKeeps
<1>2. ASSUME NEW v \in InputDevices, NEW force \in forces, NEW skip \in skips,
             AddDevice(v, force, skip)
      PROVE  CommandKeeps(forces, skips, max)
  <2>1. force \in BOOLEAN /\ skip \in BOOLEAN
    OBVIOUS
  <2> QED
    BY <1>2, <2>1, AddDeviceStep DEF CommandKeeps
<1>3. ASSUME NEW v \in InputDevices, NEW force \in forces, UpdateDevice(v, force)
      PROVE  CommandKeeps(forces, skips, max)
  <2>1. force \in BOOLEAN
    OBVIOUS
  <2> QED
    BY <1>3, <2>1, UpdateDeviceStep DEF CommandKeeps
<1>4. ASSUME NEW skip \in skips, RemoveDevice(skip)
      PROVE  CommandKeeps(forces, skips, max)
  <2>1. skips = {FALSE} => RemoveDevice(FALSE)
    BY <1>4
  <2> QED
    BY <1>4, <2>1, RemoveDeviceStep DEF CommandKeeps
<1>5. CASE LinkCommand
  BY <1>0, <1>5, LinkCommandStep
<1>6. ASSUME NEW new \in NewNodeMaps, NEW ids \in NewIds(conf, new),
             AddNodesCommand(new, ids)
      PROVE  CommandKeeps(forces, skips, max)
  BY <1>0, <1>6, AddNodesStep
<1>7. ASSUME NEW R \in SUBSET Names, NEW repeats \in 0 .. max,
             RemoveNodesCommand(R, repeats)
      PROVE  CommandKeeps(forces, skips, max)
  <2>1. repeats \in Nat /\ (max = 0 => repeats = 0)
    OBVIOUS
  <2> QED
    BY <1>7, <2>1, RemoveNodesStep DEF CommandKeeps
<1>8. ASSUME NEW devices \in BOOLEAN, EnableSbd(devices)
      PROVE  CommandKeeps(forces, skips, max)
  BY <1>0, <1>8, EnableSbdStep
<1>9. CASE DisableSbd \/ StartCluster \/ StopCluster
  <2>1. conf' = conf /\ (sbd' = sbd \/ sbd' = "off") /\ client' = client
    BY <1>9 DEF DisableSbd, StartCluster, StopCluster
  <2> QED
    BY <1>0, <2>1, SameConfStep
<1>10. CASE \E atb, lms \in BOOLEAN, force \in forces : SetOptions(atb, lms, force)
  BY <1>1, <1>10
<1>11. CASE \E v \in InputDevices, force \in forces :
               UpdateDevice(v, force) \/ \E skip \in skips : AddDevice(v, force, skip)
  BY <1>2, <1>3, <1>11
<1>12. CASE \E skip \in skips : RemoveDevice(skip)
  BY <1>4, <1>12
<1>13. CASE \E R \in SUBSET Names, repeats \in 0 .. max : RemoveNodesCommand(R, repeats)
  BY <1>7, <1>13
<1> QED
  BY <1>5, <1>6, <1>8, <1>9, <1>10, <1>11, <1>12, <1>13 DEF Command

\* Every step.
LEMMA NextOk ==
    ASSUME ConfInv, [Next]_vars
    PROVE  ConfOk(conf') /\ ReloadOk
<1>1. CASE Next
  <2>1. /\ Forces \in SUBSET BOOLEAN /\ BOOLEAN \in SUBSET BOOLEAN /\ MaxRepeats \in Nat
    BY CommandsAssumption
  <2> QED
    BY <1>1, <2>1, CommandOk DEF Next, CommandKeeps
<1>2. CASE UNCHANGED vars
  BY <1>2, SameConfStep DEF StepOk, vars
<1> QED
  BY <1>1, <1>2

\* The other variables keep their type.
LEMMA OtherTypes ==
    ASSUME TypeOK, [Next]_vars
    PROVE  /\ running' \in BOOLEAN /\ sbd' \in {"off", "watchdog", "devices"}
           /\ client' \in {"none", "some", "all"}
<1> USE DEF TypeOK
<1>1. CASE \E atb, lms \in BOOLEAN, force \in Forces : SetOptions(atb, lms, force)
  BY <1>1 DEF SetOptions
<1>2. CASE \E v \in InputDevices, force \in Forces :
              UpdateDevice(v, force) \/ \E skip \in BOOLEAN : AddDevice(v, force, skip)
  BY <1>2 DEF AddDevice, UpdateDevice, Reached, Attempted
<1>3. CASE \E skip \in BOOLEAN : RemoveDevice(skip)
  BY <1>3 DEF RemoveDevice, Reached, Attempted
<1>4. CASE LinkCommand
  BY <1>4 DEF LinkCommand
<1>5. CASE \E new \in NewNodeMaps : \E ids \in NewIds(conf, new) : AddNodesCommand(new, ids)
  <2>1. /\ UNCHANGED <<running, sbd>>
        /\ client' \in {"none", "all", "some"}
    BY <1>5 DEF AddNodesCommand
  <2> QED
    BY <2>1
<1>6. CASE \E R \in SUBSET Names, repeats \in 0 .. MaxRepeats : RemoveNodesCommand(R, repeats)
  BY <1>6 DEF RemoveNodesCommand, ClientOfRemaining
<1>7. CASE \E devices \in BOOLEAN : EnableSbd(devices)
  BY <1>7 DEF EnableSbd
<1>8. CASE DisableSbd \/ StartCluster \/ StopCluster \/ UNCHANGED vars
  BY <1>8 DEF DisableSbd, StartCluster, StopCluster, vars
<1> QED
  BY <1>1, <1>2, <1>3, <1>4, <1>5, <1>6, <1>7, <1>8 DEF Next, Command

\* The invariant holds in every reachable state.
LEMMA Invariant == Spec => []ConfInv
<1>1. Init => ConfInv
  BY SetupAssumption DEF Init, ConfInv, ConfOk, TypeOK
<1>2. ConfInv /\ [Next]_vars => ConfInv'
  <2> SUFFICES ASSUME ConfInv, [Next]_vars
               PROVE  ConfInv'
    OBVIOUS
  <2>1. ConfOk(conf')
    BY NextOk
  <2>2. /\ running' \in BOOLEAN /\ sbd' \in {"off", "watchdog", "devices"}
        /\ client' \in {"none", "some", "all"}
    BY OtherTypes DEF ConfInv
  <2>3. conf' \in Configs
    BY <2>1 DEF ConfOk
  <2> QED
    BY <2>1, <2>2, <2>3 DEF ConfInv, TypeOK
<1> QED
  BY <1>1, <1>2, PTL DEF Spec

\* The file is a configuration in every reachable state.
THEOREM TypeCorrect == Spec => []TypeOK
<1>1. ConfInv => TypeOK
  BY DEF ConfInv
<1> QED
  BY Invariant, <1>1, PTL

\* Whatever is added, renamed, changed and removed, in any order: the
\* validators admit only what keeps every node on every link, addresses and
\* ids unique and the families of a link apart.
THEOREM NodelistStaysConsistent == Spec => []NodelistConsistent
<1>1. ConfInv => NodelistConsistent
  BY DEF ConfInv, ConfOk, NodelistConsistent
<1> QED
  BY Invariant, <1>1, PTL

\* No operation forgets to update two_node or the votes of the device, and no
\* command brings a device and the options it excludes together.
THEOREM QuorumStaysConsistent == Spec => []QuorumConsistent
<1>1. ConfInv => QuorumConsistent
  BY DEF ConfInv, ConfOk, QuorumConsistent
<1> QED
  BY Invariant, <1>1, PTL

\* No command that is not forced makes the tie breaker point at no member.
THEOREM TieBreakerKept == Spec => TieBreakerLostByForce
<1>1. ConfInv /\ [Next]_vars =>
         [TieBreakerIsMember /\ ~TieBreakerIsMember' =>
             ~Command({FALSE}, BOOLEAN, MaxRepeats)]_vars
  BY CommandOk, CommandsAssumption DEF CommandKeeps, TieKept
<1> QED
  BY Invariant, <1>1, PTL DEF Spec, TieBreakerLostByForce

\* A running cluster is only given files that a reload applies.
THEOREM RunningReloads == Spec => RunningOnlyReloads
<1>1. ConfInv /\ [Next]_vars => [running /\ running' => ReloadApplies(conf, conf')]_vars
  BY NextOk DEF ReloadOk
<1> QED
  BY Invariant, <1>1, PTL DEF Spec, RunningOnlyReloads

\* No command that is not forced, and is given every name once, leaves SBD
\* without the auto_tie_breaker it needs.
THEOREM AtbKeptForSbd == Spec => AtbLostByForce
<1>1. ConfInv /\ [Next]_vars =>
         [AtbForSbd /\ ~AtbForSbd' => ~Command({FALSE}, BOOLEAN, 0)]_vars
  BY CommandOk DEF CommandKeeps, AtbKept
<1> QED
  BY Invariant, <1>1, PTL DEF Spec, AtbLostByForce

\* A device that is served is as good as auto_tie_breaker.
LEMMA TieBreakingByFile ==
    ASSUME conf \in Configs
    PROVE  /\ Served /\ TieBreaking => AtbForSbd
           /\ Served /\ AtbForSbd => TieBreaking
<1>1. Cardinality(Nodes(conf)) + 0 = Cardinality(Nodes(conf))
  BY NodesFinite
<1> QED
  BY <1>1 DEF Served, TieBreaking, AtbForSbd, AtbHasToBeEnabled, AutoTieBreakerNeeded,
              EvenNumberOfNodesAndNoQdevice

\* What breaks a tie is lost by no command that goes through, skips no node
\* and is not forced, and by none that fails but remove_device.
THEOREM TieBreakingStays == Spec => TieBreakingKept
<1>1. ConfInv /\ [Next]_vars =>
         [Served /\ TieBreaking /\ ~TieBreaking' =>
             \/ UNCHANGED conf /\ RemoveDevice(FALSE)
             \/ ~Command({FALSE}, {FALSE}, 0)]_vars
  <2> SUFFICES ASSUME ConfInv, Served, TieBreaking, Command({FALSE}, {FALSE}, 0),
                      ~(UNCHANGED conf /\ RemoveDevice(FALSE))
               PROVE  TieBreaking'
    OBVIOUS
  <2>1. AtbForSbd
    BY TieBreakingByFile DEF ConfInv, TypeOK
  <2>2. ConfOk(conf') /\ AtbForSbd' /\ Served'
    BY <2>1, CommandOk DEF CommandKeeps, AtbKept, ServedKept
  <2>3. Cardinality(Nodes(conf')) + 0 = Cardinality(Nodes(conf'))
    BY <2>2, NodesFinite DEF ConfOk
  <2> QED
    BY <2>2, <2>3 DEF Served, TieBreaking, AtbForSbd, AtbHasToBeEnabled,
                      AutoTieBreakerNeeded, EvenNumberOfNodesAndNoQdevice
<1> QED
  BY Invariant, <1>1, PTL DEF Spec, TieBreakingKept

=============================================================================
