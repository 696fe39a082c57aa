-------------------------- MODULE CibRemovalProofs --------------------------
(***************************************************************************)
(* For any number of elements and any order of the worklist: a removal     *)
(* takes the least set that holds what was asked for and is closed under   *)
(* the rule of remove_elements.py, and nothing else; and only the          *)
(* commands that regroup resources push a document that is not sound.      *)
(***************************************************************************)
EXTENDS CibProofs

\* A clone has one member, so the code may take it for empty once the member
\* goes; a document is finite, so members and references can be counted.
Small(d) == Single(d) /\ IsFiniteSet(Present(d))

Closed(R) == asked \subseteq R /\ Also(cib, R) \subseteq R

\* The search stays inside every closed set.
SearchInv ==
    /\ asked \subseteq Present(cib) \cap (gone \cup todo)
    /\ \A R \in SUBSET Present(cib) : Closed(R) => gone \cup todo \subseteq R

ExactInv == Small(cib) /\ SearchInv

-----------------------------------------------------------------------------
(* Documents that stay small.                                              *)

\* An element that is put anywhere but in a clone, or in a clone of its own.
LEMMA WithSmall ==
    ASSUME NEW d \in Document, Small(d), NEW e \in Elements, NEW p \in Elements \cup {Top},
           NEW R \in SUBSET Elements,
           p \in Clones => \A x \in Elements : d.up[x] # p
    PROVE  Small(With(d, e, p, R))
<1> DEFINE c == With(d, e, p, R)
<1>1. \A x \in Elements : c.up[x] = IF x = e THEN p ELSE d.up[x]
  BY WithFields
<1> HIDE DEF c
<1>2. Single(c)
  BY <1>1 DEF Small, Single
<1>3. Present(c) \subseteq Present(d) \cup {e}
  BY <1>1 DEF Present
<1>4. IsFiniteSet(Present(d) \cup {e})
  BY FS_AddElement DEF Small
<1>5. IsFiniteSet(Present(c))
  BY <1>3, <1>4, FS_Subset
<1> QED
  BY <1>2, <1>5 DEF Small, c

\* Elements that are taken away, and references.
LEMMA LessSmall ==
    ASSUME NEW d \in Document, Small(d), NEW c,
           \A x \in Elements : c.up[x] = d.up[x] \/ c.up[x] = Absent
    PROVE  Small(c)
<1>1. Absent \notin Clones
  BY Kinds DEF Containers
<1>2. Single(c)
  BY <1>1 DEF Small, Single
<1>3. Present(c) \subseteq Present(d)
  BY DEF Present
<1>4. IsFiniteSet(Present(c))
  BY <1>3, FS_Subset DEF Small
<1> QED
  BY <1>2, <1>4 DEF Small

\* A command that edits the document at once.
LEMMA CommandSmall ==
    ASSUME IInv, ExactInv, NEW name, NEW d, Command(name, d), Small(d)
    PROVE  ExactInv'
<1>1. /\ asked = {} /\ UNCHANGED <<asked, wip, todo, refTodo, gone, lost>>
      /\ cib' \in {d, cib}
  BY DEF Command, Push, removal
<1>2. gone' \cup todo' = {} /\ asked' = {}
  BY <1>1 DEF IInv, WorkInv, Idle
<1>3. SearchInv'
  BY <1>2 DEF SearchInv
<1>4. Small(cib')
  BY <1>1 DEF ExactInv
<1> QED
  BY <1>3, <1>4 DEF ExactInv

\* What is known of the document.
LEMMA Documented ==
    ASSUME IInv, ExactInv
    PROVE  cib \in Document /\ Shape(cib) /\ Sound(cib) /\ Small(cib)
BY DEF IInv, DocInv, Shape, ExactInv

\* One element is put at the top, or in a place that is not a clone.
LEMMA OneSmall ==
    ASSUME IInv, ExactInv, NEW name, NEW e \in Elements, NEW p \in (Elements \ Clones) \cup {Top},
           NEW R \in SUBSET Elements, Command(name, With(cib, e, p, R))
    PROVE  ExactInv'
<1>1. p \notin Clones /\ p \in Elements \cup {Top}
  BY Kinds DEF Containers
<1>2. Small(With(cib, e, p, R))
  BY <1>1, Documented, WithSmall
<1> QED
  BY <1>2, CommandSmall

\* Two elements are put into the document, e in p, which is new.
LEMMA TwoSmall ==
    ASSUME IInv, ExactInv, NEW e \in Elements, NEW p \in Elements, e # p, cib.up[p] = Absent,
           NEW R \in SUBSET Elements, NEW Q \in SUBSET Elements
    PROVE  /\ With(With(cib, p, Top, Q), e, p, R) \in Document
           /\ Small(With(With(cib, p, Top, Q), e, p, R))
<1> DEFINE c == With(cib, p, Top, Q)
<1>1. Top \in Elements \cup {Top} /\ Top \notin Clones /\ cib \in Document /\ Small(cib)
  BY Kinds, Documented DEF Containers
<1>2. /\ c \in Document /\ Small(c)
      /\ \A x \in Elements : c.up[x] = IF x = p THEN Top ELSE cib.up[x]
  <2>1. /\ c \in Document
        /\ \A x \in Elements : c.up[x] = IF x = p THEN Top ELSE cib.up[x]
    BY <1>1, WithFields
  <2>2. Small(c)
    BY <1>1, WithSmall
  <2> QED
    BY <2>1, <2>2
<1>3. \A x \in Elements : cib.up[x] # p
  <2>1. \A x \in Present(cib) : cib.up[x] \in Present(cib) \cup {Top}
    BY Documented DEF Sound
  <2>2. p \notin Present(cib) \cup {Top} /\ p # Absent
    BY Kinds DEF Present
  <2> QED
    BY <2>1, <2>2 DEF Present
<1>4. \A x \in Elements : c.up[x] # p
  BY <1>2, <1>3, Kinds
<1> HIDE DEF c
<1>5. Small(With(c, e, p, R)) /\ With(c, e, p, R) \in Document
  BY <1>2, <1>4, WithSmall, WithFields
<1> QED
  BY <1>5 DEF c

\* Elements and references are taken away.
LEMMA WithoutSmall ==
    ASSUME IInv, ExactInv, NEW name, NEW E, Command(name, Without(cib, E))
    PROVE  ExactInv'
<1>1. \A x \in Elements : Without(cib, E).up[x] = IF x \in E THEN Absent ELSE cib.up[x]
  BY Documented, WithoutFields
<1>2. Small(Without(cib, E))
  BY <1>1, Documented, LessSmall
<1> QED
  BY <1>2, CommandSmall

\* Resources that are cloned, uncloned or taken out of a group.
LEMMA CloneSmall ==
    ASSUME IInv, ExactInv, NEW r \in Now(Primitives \cup Groups), NEW c \in Clones, NEW tickets,
           CloneResource(r, c, tickets)
    PROVE  ExactInv'
<1> DEFINE E == {g \in Groups : Inner(cib, g) = {r}}
           renamed == {k \in (Plains \cup Ruled) \ tickets : r \in cib.refs[k]}
           b == Without(cib, E)
           v == With(b, c, Top, {})
           w == With(v, r, c, {})
           refs == [x \in Elements |-> IF x \in renamed THEN (w.refs[x] \ {r}) \cup {c}
                                                        ELSE w.refs[x]]
           d == [w EXCEPT !.refs = refs]
<1>1. Command("clone", d) /\ cib.up[c] = Absent
  BY DEF CloneResource
<1>2. /\ cib \in Document /\ Sound(cib) /\ Small(cib) /\ r \in Elements /\ c \in Elements
      /\ {} \in SUBSET Elements /\ Top \in Elements \cup {Top} /\ c \in Elements \cup {Top}
      /\ Top \notin Clones
  BY Documented, Fitting, Kinds DEF Now, Containers
<1>3. /\ b \in Document
      /\ \A x \in Elements : b.up[x] = cib.up[x] \/ b.up[x] = Absent
  BY <1>2, WithoutFields
<1>4. Small(b)
  BY <1>2, <1>3, LessSmall
<1>5. \A x \in Elements : b.up[x] # c
  <2>1. \A x \in Elements : cib.up[x] # c
    BY <1>1, <1>2, Kinds DEF Sound, Present
  <2> QED
    BY <1>2, <1>3, <2>1, Kinds
<1> HIDE DEF b
<1>6. /\ v \in Document /\ Small(v)
      /\ \A x \in Elements : v.up[x] = IF x = c THEN Top ELSE b.up[x]
  BY <1>2, <1>3, <1>4, WithFields, WithSmall
<1>7. \A x \in Elements : v.up[x] # c
  BY <1>2, <1>5, <1>6, Kinds
<1> HIDE DEF v
<1>8. w \in Document /\ Small(w)
  BY <1>2, <1>6, <1>7, WithFields, WithSmall
<1> HIDE DEF w
<1>9. d.up = w.up
  BY <1>8 DEF Document
<1> HIDE DEF d
<1>10. Small(d)
  BY <1>8, <1>9, LessSmall
<1> QED
  BY <1>1, <1>10, CommandSmall

LEMMA UncloneSmall ==
    ASSUME IInv, ExactInv, NEW r \in Primitives \cup Groups, NEW c \in Clones, Unclone(r, c)
    PROVE  ExactInv'
<1> DEFINE in == cib.up[r]
           several == in \in Groups /\ Inner(cib, in) # {r}
           E == {in, c}
           f == Forgotten(cib, c)
           b == Without(f, E)
           d == With(b, r, Top, {})
<1>1. /\ several => Command("unclone", With(cib, r, Top, {}))
      /\ ~several => Command("unclone", d)
  BY DEF Unclone
<1>2. /\ cib \in Document /\ Small(cib) /\ r \in Elements /\ {} \in SUBSET Elements
      /\ Top \in Elements \cup {Top} /\ Top \notin Clones
      /\ Top \in (Elements \ Clones) \cup {Top}
  BY Documented, Fitting, Kinds DEF Containers
<1>3. CASE several
  BY <1>1, <1>2, <1>3, OneSmall
<1>4. CASE ~several
  <2>1. f \in Document /\ \A x \in Elements : f.up[x] \in {cib.up[x], Absent}
    BY ForgottenGood
  <2> HIDE DEF f
  <2>2. Small(f)
    BY <1>2, <2>1, LessSmall
  <2>3. b \in Document /\ \A x \in Elements : b.up[x] = f.up[x] \/ b.up[x] = Absent
    BY <2>1, WithoutFields
  <2> HIDE DEF b
  <2>4. Small(b)
    BY <2>1, <2>2, <2>3, LessSmall
  <2>5. Small(d)
    BY <1>2, <2>3, <2>4, WithSmall
  <2> QED
    BY <1>1, <1>4, <2>5, CommandSmall
<1> QED
  BY <1>3, <1>4

LEMMA GroupRemoveSmall ==
    ASSUME IInv, ExactInv, NEW g \in Groups, NEW P \in SUBSET Primitives, P # {}, NEW twice,
           GroupRemove(g, P, twice)
    PROVE  ExactInv'
<1> DEFINE members == Inner(cib, g)
           several == cib.up[g] \in Clones /\ Cardinality(members) > 1
           to == IF several THEN Top ELSE cib.up[g]
           all == P = members
           f == Forgotten(cib, g)
           b == IF all THEN Without(f, {g}) ELSE cib
           up == [x \in Elements |-> IF x \in P THEN to ELSE b.up[x]]
           d == [b EXCEPT !.up = up]
<1>1. P \subseteq members /\ Command("group_remove", d)
  BY DEF GroupRemove
<1>2. /\ cib \in Document /\ Shape(cib) /\ Small(cib) /\ g \in Elements /\ P \subseteq Elements
      /\ \A p \in P : cib.up[p] = g
  BY <1>1, Documented, Fitting DEF Inner
<1>3. members \subseteq Present(cib) /\ IsFiniteSet(members)
  <2>1. members \subseteq Present(cib)
    BY <1>2, Kinds DEF Inner, Present
  <2> QED
    BY <1>2, <2>1, FS_Subset DEF Small
<1>4. ASSUME to \in Clones
      PROVE  to = cib.up[g] /\ all /\ \E p \in P : P = {p}
  <2>1. cib.up[g] \in Clones /\ ~(Cardinality(members) > 1) /\ to = cib.up[g]
    BY <1>4, Kinds DEF Containers
  <2>2. Cardinality(members) \in Nat /\ (Cardinality(members) = 0 <=> members = {})
    BY <1>3, FS_CardinalityType, FS_EmptySet
  <2>3. Cardinality(members) = 1
    BY <1>1, <2>1, <2>2
  <2>4. \E p : members = {p}
    BY <1>3, <2>3, FS_Singleton
  <2> QED
    BY <1>1, <2>1, <2>4
<1>5. f \in Document /\ \A x \in Elements : f.up[x] \in {cib.up[x], Absent}
  BY ForgottenGood
<1> HIDE DEF f, to
<1>6. /\ b \in Document
      /\ \A x \in Elements : b.up[x] = cib.up[x] \/ b.up[x] = Absent
      /\ all => b.up[g] = Absent
  <2>1. CASE all
    BY <1>2, <1>5, <2>1, WithoutFields
  <2>2. CASE ~all
    BY <1>2, <2>2
  <2> QED
    BY <2>1, <2>2
<1> HIDE DEF b, all
<1>7. \A x \in Elements : up[x] = IF x \in P THEN to ELSE b.up[x]
  OBVIOUS
<1> HIDE DEF up
<1>8. d.up = up
  BY <1>6 DEF Document
<1> HIDE DEF d
<1>9. Single(d)
  <2> SUFFICES ASSUME NEW x \in Elements, NEW y \in Elements, d.up[x] = d.up[y],
                      d.up[x] \in Clones
               PROVE  x = y
    BY DEF Single
  <2>1. Absent \notin Clones /\ Single(cib)
    BY <1>2, Kinds DEF Containers, Small
  <2>2. \A z \in Elements : b.up[z] \in Clones => b.up[z] = cib.up[z]
    BY <1>6, <2>1
  <2>3. CASE to \in Clones /\ d.up[x] = to
    <3>1. \A z \in Elements : d.up[z] = to => z \in P
      <4> SUFFICES ASSUME NEW z \in Elements, d.up[z] = to, z \notin P
                   PROVE  FALSE
        OBVIOUS
      <4>1. b.up[z] = to /\ cib.up[z] = to /\ to = cib.up[g] /\ b.up[g] = Absent
        BY <1>4, <1>6, <1>7, <1>8, <2>2, <2>3
      <4>2. z = g
        BY <1>2, <2>1, <2>3, <4>1 DEF Single
      <4> QED
        BY <2>1, <2>3, <4>1, <4>2
    <3> QED
      BY <1>4, <2>3, <3>1
  <2>4. CASE ~(to \in Clones /\ d.up[x] = to)
    <3>1. d.up[x] = b.up[x] /\ d.up[y] = b.up[y]
      BY <1>7, <1>8, <2>4
    <3>2. cib.up[x] = cib.up[y] /\ cib.up[x] \in Clones
      BY <2>2, <3>1
    <3> QED
      BY <2>1, <3>2 DEF Single
  <2> QED
    BY <2>3, <2>4
<1>10. Present(d) \subseteq Present(cib)
  BY <1>1, <1>3, <1>6, <1>7, <1>8 DEF Present
<1>11. Small(d)
  BY <1>2, <1>9, <1>10, FS_Subset DEF Small
<1> QED
  BY <1>1, <1>11, CommandSmall

\* The commands that edit resources.
LEMMA ResourcesExact ==
    ASSUME IInv, ExactInv, EditResources
    PROVE  ExactInv'
<1>0. /\ Primitives \cup Devices \cup Groups \cup Clones \subseteq Elements
      /\ {} \in SUBSET Elements /\ Top \in (Elements \ Clones) \cup {Top}
      /\ Groups \subseteq Elements \ Clones
  BY Disjoint DEF Elements, Resources
<1>1. ASSUME NEW p \in Primitives \cup Devices, Create(p)
      PROVE  ExactInv'
  <2>1. Command("create", With(cib, p, Top, {})) /\ p \in Elements
    BY <1>0, <1>1 DEF Create
  <2> QED
    BY <1>0, <2>1, OneSmall
<1>2. ASSUME NEW p \in Primitives, NEW c \in Clones, CreateAsClone(p, c)
      PROVE  ExactInv'
  <2>1. /\ cib.up[c] = Absent /\ p \in Elements /\ c \in Elements /\ p # c
        /\ Command("create", With(With(cib, c, Top, {}), p, c, {}))
    BY <1>0, <1>2, Disjoint DEF CreateAsClone, Containers
  <2>2. Small(With(With(cib, c, Top, {}), p, c, {}))
    BY <1>0, <2>1, TwoSmall
  <2> QED
    BY <2>1, <2>2, CommandSmall
<1>3. ASSUME NEW p \in Primitives, NEW g \in Groups, CreateInGroup(p, g)
      PROVE  ExactInv'
  <2>1. p \in Elements /\ g \in Elements /\ p # g /\ g \in (Elements \ Clones) \cup {Top}
    BY <1>0, Disjoint DEF Containers
  <2>2. CASE cib.up[g] = Absent
    <3>1. Command("create", With(With(cib, g, Top, {}), p, g, {}))
      BY <1>3, <2>2 DEF CreateInGroup
    <3>2. Small(With(With(cib, g, Top, {}), p, g, {}))
      BY <1>0, <2>1, <2>2, TwoSmall
    <3> QED
      BY <3>1, <3>2, CommandSmall
  <2>3. CASE cib.up[g] # Absent
    <3>1. Command("create", With(cib, p, g, {}))
      BY <1>3, <2>3 DEF CreateInGroup
    <3> QED
      BY <1>0, <2>1, <3>1, OneSmall
  <2> QED
    BY <2>2, <2>3
<1>4. ASSUME NEW g \in Groups, NEW P \in Some(Now(Primitives)), GroupAdd(g, P)
      PROVE  ExactInv'
  <2> DEFINE E == EmptiedBy(cib, P)
             b == Without(cib, E)
             at == IF b.up[g] = Absent THEN Top ELSE b.up[g]
             up == [x \in Elements |-> IF x \in P THEN g ELSE IF x = g THEN at ELSE b.up[x]]
             d == [b EXCEPT !.up = up]
  <2>1. Command("group_add", d)
    BY <1>4 DEF GroupAdd
  <2>2. /\ b \in Document
        /\ \A x \in Elements : b.up[x] = IF x \in E THEN Absent ELSE cib.up[x]
    BY Documented, WithoutFields
  <2> HIDE DEF b, E
  <2>3. b = [up |-> b.up, refs |-> b.refs]
    BY <2>2 DEF Document
  <2>4. at \in {Top, b.up[g]}
    OBVIOUS
  <2> HIDE DEF at
  <2>5. \A x \in Elements : up[x] = IF x \in P THEN g ELSE IF x = g THEN at ELSE b.up[x]
    OBVIOUS
  <2> HIDE DEF up
  <2>6. d.up = up
    BY <2>3
  <2> HIDE DEF d
  <2>7. g \in Elements \ Clones /\ P \subseteq Present(cib)
    BY <1>0 DEF Some, Now
  <2>8. \A x \in Elements : d.up[x] \in Clones => d.up[x] = cib.up[x]
    BY <2>2, <2>4, <2>5, <2>6, <2>7, Kinds DEF Containers
  <2>9. Single(d)
    BY <2>8, Documented DEF Small, Single
  <2>10. Present(d) \subseteq Present(cib) \cup {g}
    BY <2>2, <2>5, <2>6, <2>7 DEF Present
  <2>11. IsFiniteSet(Present(cib) \cup {g})
    BY Documented, FS_AddElement DEF Small
  <2>12. IsFiniteSet(Present(d))
    BY <2>10, <2>11, FS_Subset
  <2> QED
    BY <2>1, <2>9, <2>12, CommandSmall DEF Small
<1>5. CASE \E r \in Now(Primitives \cup Groups), c \in Clones :
              \E tickets \in SUBSET {k \in Plains : cib.refs[k] = {r}} :
                 CloneResource(r, c, tickets)
  BY <1>5, CloneSmall
<1>6. CASE \E r \in Now(Primitives \cup Groups), c \in Now(Clones) : Unclone(r, c)
  BY <1>6, UncloneSmall DEF Now
<1>7. CASE \E g \in Groups, P \in Some(Now(Primitives)), twice \in BOOLEAN :
              GroupRemove(g, P, twice)
  BY <1>7, GroupRemoveSmall DEF Some, Now
<1> QED
  BY <1>1, <1>2, <1>3, <1>4, <1>5, <1>6, <1>7 DEF EditResources

\* The commands that edit constraints.
LEMMA ConstraintsExact ==
    ASSUME IInv, ExactInv, EditConstraints
    PROVE  ExactInv'
<1>0. /\ Resources \subseteq Elements /\ Plains \subseteq Elements /\ Tags \subseteq Elements
      /\ SetConstraints \subseteq Elements \ Clones /\ Sets \subseteq Elements
      /\ Ruled \subseteq Elements /\ Rules \subseteq Elements
      /\ {} \in SUBSET Elements /\ Top \in (Elements \ Clones) \cup {Top}
      /\ Some(Now(Resources)) \subseteq SUBSET Elements
  BY Disjoint, Kinds DEF Constraints, Resources, Some, Now
<1>1. ASSUME NEW k \in Plains, NEW r \in Now(Resources), NEW r2 \in Now(Resources),
             CreatePlain(k, {r, r2})
      PROVE  ExactInv'
  <2>1. /\ Command("constraint", With(cib, k, Top, {r, r2})) /\ k \in Elements
        /\ {r, r2} \in SUBSET Elements
    BY <1>0, <1>1 DEF CreatePlain, Now
  <2> QED
    BY <1>0, <2>1, OneSmall
<1>2. ASSUME NEW k \in Plains, NEW t \in Tags, CibPush(k, t)
      PROVE  ExactInv'
  <2>1. /\ Command("cib_push", With(cib, k, Top, {t})) /\ k \in Elements
        /\ {t} \in SUBSET Elements
    BY <1>0, <1>2 DEF CibPush
  <2> QED
    BY <1>0, <2>1, OneSmall
<1>3. ASSUME NEW k \in SetConstraints, NEW s \in Sets, NEW s2 \in Sets,
             NEW R \in Some(Now(Resources)), NEW R2 \in Some(Now(Resources)),
             CreateWithSet(k, s, R, s2, R2)
      PROVE  ExactInv'
  <2> DEFINE one == With(With(cib, k, Top, {}), s, k, R)
  <2>1. /\ cib.up[k] = Absent
        /\ Command("constraint", IF s = s2 THEN one ELSE With(one, s2, k, R2))
    BY <1>3 DEF CreateWithSet
  <2>2. /\ k \in Elements /\ s \in Elements /\ s2 \in Elements /\ s # k /\ k \notin Clones
        /\ R \in SUBSET Elements /\ R2 \in SUBSET Elements
    BY <1>0, Disjoint DEF Holders, Constraints
  <2>3. one \in Document /\ Small(one)
    BY <1>0, <2>1, <2>2, TwoSmall
  <2> HIDE DEF one
  <2>4. Small(With(one, s2, k, R2))
    BY <2>2, <2>3, WithSmall
  <2>5. Small(IF s = s2 THEN one ELSE With(one, s2, k, R2))
    BY <2>3, <2>4
  <2> QED
    BY <2>1, <2>5, CommandSmall
<1>4. ASSUME NEW k \in Ruled, NEW r \in Rules, NEW x \in Now(Resources), CreateWithRule(k, r, x)
      PROVE  ExactInv'
  <2>1. /\ cib.up[k] = Absent /\ r \in Elements /\ k \in Elements /\ r # k
        /\ {x} \in SUBSET Elements
        /\ Command("constraint", With(With(cib, k, Top, {x}), r, k, {}))
    BY <1>0, <1>4, Disjoint DEF CreateWithRule, Now, Containers
  <2>2. Small(With(With(cib, k, Top, {x}), r, k, {}))
    BY <1>0, <2>1, TwoSmall
  <2> QED
    BY <2>1, <2>2, CommandSmall
<1>5. ASSUME NEW x \in Now(Resources), NEW K \in Some(Now(Plains \cup SetConstraints)),
             TicketRemove(x, K)
      PROVE  ExactInv'
  <2>1. PICK E, S : Command("ticket_remove",
                       [Without(cib, E) EXCEPT !.refs =
                           [e \in Elements |-> IF e \in S THEN Without(cib, E).refs[e] \ {x}
                                                          ELSE Without(cib, E).refs[e]]])
    BY <1>5 DEF TicketRemove
  <2> DEFINE b == Without(cib, E)
             refs == [e \in Elements |-> IF e \in S THEN b.refs[e] \ {x} ELSE b.refs[e]]
             d == [b EXCEPT !.refs = refs]
  <2>2. Command("ticket_remove", d)
    BY <2>1
  <2>3. b \in Document /\ \A y \in Elements : b.up[y] = IF y \in E THEN Absent ELSE cib.up[y]
    BY Documented, WithoutFields
  <2> HIDE DEF b, refs
  <2>4. d.up = b.up
    BY <2>3 DEF Document
  <2> HIDE DEF d
  <2>5. Small(d)
    BY <2>3, <2>4, Documented, LessSmall
  <2> QED
    BY <2>2, <2>5, CommandSmall
<1> QED
  BY <1>1, <1>2, <1>3, <1>4, <1>5 DEF EditConstraints

\* The commands that edit tags, fencing levels and permissions.
LEMMA OthersExact ==
    ASSUME IInv, ExactInv, EditOthers
    PROVE  ExactInv'
<1>0. /\ Tags \subseteq Elements /\ Levels \subseteq Elements /\ Permissions \subseteq Elements
      /\ Top \in (Elements \ Clones) \cup {Top}
      /\ Some(Now(Resources)) \subseteq SUBSET Elements /\ Some(Devices) \subseteq SUBSET Elements
      /\ SUBSET Now(Resources) \subseteq SUBSET Elements
      /\ Now(Tags) \subseteq Elements /\ Now(Elements) \subseteq Elements
  BY Kinds DEF Resources, Some, Now
<1>1. ASSUME NEW t \in Tags, NEW R \in Some(Now(Resources)), TagCreate(t, R)
      PROVE  ExactInv'
  <2>1. Command("tag_create", With(cib, t, Top, R)) /\ t \in Elements /\ R \in SUBSET Elements
    BY <1>0, <1>1 DEF TagCreate
  <2> QED
    BY <1>0, <2>1, OneSmall
<1>2. ASSUME NEW t \in Now(Tags), NEW add \in SUBSET Now(Resources), NEW adjacent \in BOOLEAN,
             NEW remove \in SUBSET cib.refs[t], TagUpdate(t, add, remove, adjacent)
      PROVE  ExactInv'
  <2> DEFINE R == (cib.refs[t] \cup add) \ remove
  <2>1. Command("tag_update", IF R = {} THEN Without(cib, {t}) ELSE With(cib, t, Top, R))
    BY <1>2 DEF TagUpdate
  <2>2. t \in Elements /\ R \in SUBSET Elements
    BY <1>0, Documented DEF Document
  <2> HIDE DEF R
  <2>3. CASE R = {}
    <3>1. Command("tag_update", Without(cib, {t}))
      BY <2>1, <2>3
    <3> QED
      BY <3>1, WithoutSmall
  <2>4. CASE R # {}
    <3>1. Command("tag_update", With(cib, t, Top, R))
      BY <2>1, <2>4
    <3> QED
      BY <1>0, <2>2, <3>1, OneSmall
  <2> QED
    BY <2>3, <2>4
<1>3. ASSUME NEW T \in Some(Now(Tags)), TagRemove(T)
      PROVE  ExactInv'
  BY <1>3, WithoutSmall DEF TagRemove
<1>4. ASSUME NEW l \in Levels, NEW D \in Some(Devices), AddLevel(l, D)
      PROVE  ExactInv'
  <2>1. Command("add_level", With(cib, l, Top, D)) /\ l \in Elements /\ D \in SUBSET Elements
    BY <1>0, <1>4 DEF AddLevel
  <2> QED
    BY <1>0, <2>1, OneSmall
<1>5. ASSUME NEW L \in Some(Now(Levels)), RemoveLevels(L)
      PROVE  ExactInv'
  BY <1>5, WithoutSmall DEF RemoveLevels
<1>6. ASSUME NEW a \in Permissions, NEW e \in Now(Elements), AddPermission(a, e)
      PROVE  ExactInv'
  <2>1. Command("add_permission", With(cib, a, Top, {e})) /\ a \in Elements
        /\ {e} \in SUBSET Elements
    BY <1>0, <1>6 DEF AddPermission
  <2> QED
    BY <1>0, <2>1, OneSmall
<1>7. ASSUME NEW a \in Permissions, RemovePermission(a)
      PROVE  ExactInv'
  BY <1>7, WithoutSmall DEF RemovePermission
<1> QED
  BY <1>1, <1>2, <1>3, <1>4, <1>5, <1>6, <1>7 DEF EditOthers

-----------------------------------------------------------------------------
(* The search stays inside every closed set.                               *)

\* What a closed set holds with its members.
LEMMA ClosedFacts ==
    ASSUME NEW R, Closed(R)
    PROVE  /\ \A x \in Referring, y \in R : y \in cib.refs[x] => x \in R
           /\ \A x \in Resources : cib.up[x] \in R => x \in R
           /\ \A x \in Containers \cap Present(cib) : Inner(cib, x) \subseteq R => x \in R
           /\ \A x \in (Holders \cup Levels) \cap Present(cib) : cib.refs[x] \subseteq R => x \in R
BY DEF Closed, Also, Containers

\* The whole document is closed.
LEMMA PresentClosed ==
    ASSUME IInv, asked \subseteq Present(cib)
    PROVE  Closed(Present(cib))
<1>1. Shape(cib) /\ Sound(cib)
  BY DEF IInv, DocInv
<1>2. \A x \in Referring : cib.refs[x] # {} => x \in Present(cib)
  BY <1>1, InPlace, Kinds
<1>3. \A x \in Resources : cib.up[x] \in Present(cib) => x \in Present(cib)
  BY Kinds DEF Present
<1> QED
  BY <1>2, <1>3 DEF Closed, Also

\* An element is processed: what it asks for is in every closed set.
LEMMA ProcessSearch ==
    ASSUME IInv, ExactInv, NEW e \in todo, e \notin gone, TakeElement(e)
    PROVE  SearchInv'
<1> DEFINE levels == LevelsWith(wip, e)
           emptied == {l \in levels : wip.refs[l] = {e}}
           parent == wip.up[e]
<1>1. e \in Elements /\ asked # {} /\ UNCHANGED <<cib, asked>>
  BY DEF TakeElement, IInv, TypeOK, WorkInv, Idle
<1>2. /\ gone' = gone \cup {e}
      /\ todo' = (todo \ {e}) \cup ReferringTo(wip, e) \cup InnerResources(wip, e)
                   \cup emptied \cup {p \in {parent} : EmptyAfter(wip, p)}
  BY DEF TakeElement, ProcessElement
<1>3. /\ \A x \in Elements : wip.up[x] = IF x \in gone THEN Absent ELSE cib.up[x]
      /\ \A x \in Holders \cup Levels : wip.refs[x] = cib.refs[x] \ Cut(x)
      /\ \A x \in Elements \ (Holders \cup Levels) : wip.refs[x] = cib.refs[x]
      /\ Shape(cib) /\ Sound(cib)
  BY <1>1, CopyFacts
<1>4. parent = cib.up[e]
  BY <1>1, <1>3
<1>5. asked' \subseteq Present(cib)' \cap (gone' \cup todo')
  BY <1>1, <1>2 DEF ExactInv, SearchInv
<1>6. ASSUME NEW R \in SUBSET Present(cib), Closed(R)
      PROVE  gone' \cup todo' \subseteq R
  <2>1. gone \cup todo \subseteq R /\ e \in R /\ R \subseteq Elements
    BY <1>6 DEF ExactInv, SearchInv, Present
  <2>2. ReferringTo(wip, e) \subseteq R
    <3> SUFFICES ASSUME NEW x \in Referring, e \in wip.refs[x]
                 PROVE  x \in R
      BY DEF ReferringTo
    <3>1. e \in cib.refs[x]
      BY <1>3, Kinds, Disjoint
    <3> QED
      BY <1>6, <2>1, <3>1, ClosedFacts
  <2>3. InnerResources(wip, e) \subseteq R
    <3> SUFFICES ASSUME NEW x \in Elements, wip.up[x] = e, e \in Resources
                 PROVE  x \in R
      BY DEF InnerResources, Inner
    <3>1. cib.up[x] = e
      BY <1>1, <1>3, Kinds
    <3>2. x \in Resources
      BY <1>1, <1>3, <3>1, Disjoint, Kinds
         DEF Shape, Places, Elements, Resources, Constraints
    <3> QED
      BY <1>6, <2>1, <3>1, <3>2, ClosedFacts
  <2>4. emptied \subseteq R
    <3> SUFFICES ASSUME NEW l \in Levels, wip.refs[l] = {e}
                 PROVE  l \in R
      BY DEF LevelsWith
    <3>1. \A y \in Cut(l) : y \in gone
      BY DEF IInv, WorkInv, CutInv, Cut
    <3>2. cib.refs[l] \subseteq R /\ e \in cib.refs[l]
      BY <1>3, <2>1, <3>1
    <3>3. l \in Present(cib)
      BY <1>3, <3>2, InPlace, Kinds
    <3> QED
      BY <1>6, <3>2, <3>3, ClosedFacts
  <2>5. {p \in {parent} : EmptyAfter(wip, p)} \subseteq R
    <3> SUFFICES ASSUME EmptyAfter(wip, parent)
                 PROVE  parent \in R
      OBVIOUS
    <3>1. parent \in Containers
      BY DEF EmptyAfter, Containers
    <3>2. e \in Present(cib) /\ parent \in Present(cib)
      <4>1. cib.up[e] # Absent /\ cib.up[e] # Top
        BY <1>4, <3>1, Kinds
      <4> QED
        BY <1>1, <1>3, <1>4, <4>1 DEF Sound, Present
    <3>3. Inner(cib, parent) \subseteq R
      <4>1. CASE parent \in Clones
        <5>1. Inner(cib, parent) \subseteq {e}
          BY <1>1, <1>4, <4>1 DEF Inner, ExactInv, Small, Single
        <5> QED
          BY <2>1, <5>1
      <4>2. CASE parent \notin Clones
        <5>1. Cardinality(Inner(wip, parent)) = 1
          BY <4>2 DEF EmptyAfter
        <5>2. parent # Absent
          BY <3>1, Kinds
        <5>3. Inner(wip, parent) \subseteq Present(cib) /\ e \in Inner(wip, parent)
          BY <1>1, <1>3, <5>2 DEF Inner, Present
        <5>4. IsFiniteSet(Inner(wip, parent))
          BY <5>3, FS_Subset DEF ExactInv, Small
        <5>5. Inner(wip, parent) = {e}
          BY <5>1, <5>3, <5>4, FS_Singleton
        <5>6. \A x \in Inner(cib, parent) : x \in gone \/ x = e
          BY <1>3, <5>5 DEF Inner
        <5> QED
          BY <2>1, <5>6
      <4> QED
        BY <4>1, <4>2
    <3> QED
      BY <1>6, <3>1, <3>2, <3>3, ClosedFacts
  <2> QED
    BY <1>2, <2>1, <2>2, <2>3, <2>4, <2>5
<1> QED
  BY <1>1, <1>5, <1>6 DEF SearchInv, Closed

\* A reference is cut out of its holder: a holder left bare is in every
\* closed set.
LEMMA ReferenceSearch ==
    ASSUME IInv, ExactInv, NEW h, NEW e, TakeReference(h, e)
    PROVE  SearchInv'
<1>1. <<h, e>> \in refTodo /\ asked # {}
  BY DEF TakeReference, IInv, WorkInv, Idle
<1>2. h \in Holders /\ h \in Elements /\ e \in Elements
  BY <1>1, Kinds DEF IInv, TypeOK
<1>3. /\ UNCHANGED <<cib, asked, gone>>
      /\ todo' = todo \cup {x \in {h} : Cardinality(wip.refs[h]) = 1}
  BY DEF TakeReference
<1>4. e \in gone /\ e \in cib.refs[h] \ Cut(h)
  BY <1>1, <1>2 DEF IInv, WorkInv, CutInv
<1>5. wip.refs[h] = cib.refs[h] \ Cut(h) /\ Shape(cib) /\ Sound(cib)
  BY <1>1, <1>2, CopyFacts
<1>6. h \in Present(cib)
  BY <1>2, <1>4, <1>5, InPlace
<1>7. asked' \subseteq Present(cib)' \cap (gone' \cup todo')
  BY <1>3 DEF ExactInv, SearchInv
<1>8. ASSUME NEW R \in SUBSET Present(cib), Closed(R)
      PROVE  gone' \cup todo' \subseteq R
  <2>1. gone \cup todo \subseteq R
    BY <1>8 DEF ExactInv, SearchInv
  <2>2. ASSUME Cardinality(wip.refs[h]) = 1
        PROVE  h \in R
    <3>1. cib.refs[h] \subseteq Present(cib)
      BY <1>2, <1>5, <1>6, Disjoint DEF Sound
    <3>2. IsFiniteSet(wip.refs[h])
      BY <1>5, <3>1, FS_Subset DEF ExactInv, Small
    <3>3. wip.refs[h] = {e}
      BY <1>4, <1>5, <2>2, <3>2, FS_Singleton
    <3>4. \A y \in Cut(h) : y \in gone
      BY <1>2 DEF IInv, WorkInv, CutInv, Cut
    <3>5. cib.refs[h] \subseteq R
      BY <1>4, <1>5, <2>1, <3>3, <3>4
    <3> QED
      BY <1>2, <1>6, <1>8, <3>5, ClosedFacts
  <2> QED
    BY <1>3, <2>1, <2>2
<1> QED
  BY <1>3, <1>7, <1>8 DEF SearchInv, Closed

\* A step of a removal.
LEMMA RemoveExact ==
    ASSUME IInv, ExactInv, RemoveElements
    PROVE  ExactInv'
<1>1. ASSUME NEW ids \in Some(Now(Removable)), StartRemove(ids)
      PROVE  ExactInv'
  <2>1. /\ asked' = ids /\ todo' = ids /\ cib' = cib /\ gone' = gone /\ ids \subseteq Present(cib)
        /\ gone = {}
    BY <1>1 DEF StartRemove, IInv, WorkInv, Idle
  <2>2. SearchInv'
    BY <2>1 DEF SearchInv, Closed
  <2> QED
    BY <2>1, <2>2 DEF ExactInv
<1>2. ASSUME NEW e \in todo, TakeElement(e)
      PROVE  ExactInv'
  <2>1. UNCHANGED <<cib, asked>>
    BY <1>2 DEF TakeElement
  <2>2. CASE e \in gone
    <3>1. gone' = gone /\ gone' \cup todo' = gone \cup todo
      BY <1>2, <2>2 DEF TakeElement
    <3>2. SearchInv'
      BY <2>1, <3>1 DEF ExactInv, SearchInv, Closed
    <3> QED
      BY <2>1, <3>2 DEF ExactInv
  <2>3. CASE e \notin gone
    BY <1>2, <2>1, <2>3, ProcessSearch DEF ExactInv
  <2> QED
    BY <2>2, <2>3
<1>3. ASSUME NEW r \in refTodo, TakeReference(r[1], r[2])
      PROVE  ExactInv'
  <2>1. cib' = cib
    BY <1>3 DEF TakeReference
  <2> QED
    BY <1>3, <2>1, ReferenceSearch DEF ExactInv
<1>4. ASSUME EndRemove
      PROVE  ExactInv'
  <2>1. asked' = {} /\ gone' = {} /\ todo' = {} /\ cib' \in {Pruned, cib}
    BY <1>4 DEF EndRemove, Push, Searched
  <2>2. \A x \in Elements : Pruned.up[x] = IF x \in Below(cib, gone) THEN Absent ELSE cib.up[x]
    BY PrunedFields DEF IInv
  <2>3. Small(Pruned) /\ Small(cib)
    BY <2>2, Documented, LessSmall
  <2>4. SearchInv'
    BY <2>1 DEF SearchInv
  <2> QED
    BY <2>1, <2>3, <2>4 DEF ExactInv
<1> QED
  BY <1>1, <1>2, <1>3, <1>4 DEF RemoveElements

LEMMA ExactSteps == IInv /\ ExactInv /\ [Next]_vars => ExactInv'
<1> SUFFICES ASSUME IInv, ExactInv, [Next]_vars
             PROVE  ExactInv'
  OBVIOUS
<1>1. CASE EditResources \/ EditConstraints \/ EditOthers
  BY <1>1, ResourcesExact, ConstraintsExact, OthersExact
<1>2. CASE RemoveElements
  BY <1>2, RemoveExact
<1>3. CASE UNCHANGED vars
  BY <1>3 DEF vars, removal, ExactInv, SearchInv, Closed
<1> QED
  BY <1>1, <1>2, <1>3 DEF Next

LEMMA ExactInitially == Init => ExactInv
<1> SUFFICES ASSUME Init
             PROVE  ExactInv
  OBVIOUS
<1>1. \A x \in Elements : cib.up[x] = Absent
  BY DEF Init, NoDocument
<1>2. Present(cib) = {} /\ Single(cib)
  BY <1>1, Kinds DEF Present, Single, Containers
<1>3. Small(cib)
  BY <1>2, FS_EmptySet DEF Small
<1>4. SearchInv
  BY DEF Init, SearchInv
<1> QED
  BY <1>3, <1>4 DEF ExactInv

LEMMA ExactInductive == Spec => [](IInv /\ ExactInv)
<1>1. Init => ExactInv
  BY ExactInitially
<1>2. IInv /\ ExactInv /\ [Next]_vars => ExactInv'
  BY ExactSteps
<1>3. Spec => []IInv
  BY Inductive, PTL
<1> QED
  BY <1>1, <1>2, <1>3, PTL DEF Spec

-----------------------------------------------------------------------------
(* What the search found is the closure.                                   *)

\* Apart from sets and rules, whose constraint is removed without them, what
\* is in a removed element has been found.
LEMMA FoundBelow ==
    ASSUME IInv, Searched, NEW y \in Below(cib, gone), y \notin Sets \cup Rules
    PROVE  y \in gone
<1>1. Shape(cib) /\ gone \subseteq Elements /\ y \in Elements
  BY DEF IInv, DocInv, TypeOK, Below
<1>2. \A x \in Resources : cib.up[x] \in gone => x \in gone
  BY SearchEnded
<1>3. y \in Resources \/ cib.up[y] \in {Top, Absent}
  BY <1>1 DEF Shape, Places, Elements, Resources, Constraints
<1>4. CASE cib.up[y] \in {Top, Absent}
  BY <1>1, <1>4, Kinds DEF Below
<1>5. CASE y \in Resources
  <2>1. cib.up[y] \in Elements => cib.up[y] \in Resources
    BY <1>1, <1>5, ParentKind, Kinds
  <2> QED
    BY <1>2, <1>5, <2>1 DEF Below
<1> QED
  BY <1>3, <1>4, <1>5

\* What was found, with what is in it and the permissions nothing is said of,
\* is closed.
Found == (Below(cib, gone) \cup Nested) \cap Present(cib)

LEMMA FoundClosed ==
    ASSUME IInv, ExactInv, Searched
    PROVE  Closed(Found)
<1>1. /\ Shape(cib) /\ Sound(cib) /\ gone \subseteq Elements /\ todo = {}
      /\ Present(cib) \subseteq Elements /\ gone \subseteq Below(cib, gone)
  BY DEF IInv, DocInv, TypeOK, Searched, Present, Below
<1>2. asked \subseteq Found
  BY <1>1 DEF ExactInv, SearchInv, Found
<1>3. ASSUME NEW x \in Referring, NEW y \in Found, y \in cib.refs[x]
      PROVE  x \in Found
  <2>1. x \in Elements /\ x \in Present(cib)
    BY <1>1, <1>3, InPlace, Kinds
  <2>2. CASE y \in Sets \cup Rules \cup Permissions
    <3>1. x \in Permissions
      BY <1>1, <1>3, <2>1, <2>2, Disjoint DEF Shape, Targets
    <3> QED
      BY <1>3, <2>1, <2>2, <3>1 DEF Found, Nested
  <2>3. CASE y \notin Sets \cup Rules \cup Permissions
    <3>1. y \in gone
      BY <2>3, FoundBelow DEF Found, Nested
    <3>2. x \in gone
      BY <1>3, <3>1, SearchEnded
    <3> QED
      BY <1>1, <2>1, <3>2 DEF Found
  <2> QED
    BY <2>2, <2>3
<1>4. ASSUME NEW x \in Resources, cib.up[x] \in Found
      PROVE  x \in Found
  <2>1. x \in Elements /\ cib.up[x] \in Resources /\ x \in Present(cib)
    BY <1>1, <1>4, ParentKind, Kinds DEF Found, Present
  <2>2. cib.up[x] \in gone
    BY <1>4, <2>1, FoundBelow, Disjoint DEF Found, Nested
  <2>3. x \in gone
    BY <2>2, SearchEnded
  <2> QED
    BY <1>1, <2>1, <2>3 DEF Found
<1>5. ASSUME NEW x \in Containers \cap Present(cib), Inner(cib, x) \subseteq Found
      PROVE  x \in Found
  <2>1. CASE x \in gone \/ cib.up[x] \in gone
    BY <1>1, <2>1 DEF Found, Below
  <2>2. CASE x \notin gone /\ cib.up[x] \notin gone
    <3>1. PICK y \in Elements : cib.up[y] = x /\ y \notin gone
      BY <2>2, SearchEnded
    <3>2. y \in Found /\ y \notin Permissions
      BY <1>1, <1>5, <3>1, Kinds DEF Inner, Shape, Places
    <3>3. y \in Below(cib, gone)
      BY <3>2 DEF Found, Nested
    <3> QED
      BY <2>2, <3>1, <3>3 DEF Below
  <2> QED
    BY <2>1, <2>2
<1>6. ASSUME NEW x \in (Holders \cup Levels) \cap Present(cib), cib.refs[x] \subseteq Found
      PROVE  x \in Found
  <2>1. CASE x \in gone \/ cib.up[x] \in gone
    BY <1>1, <2>1 DEF Found, Below
  <2>2. CASE x \notin gone /\ cib.up[x] \notin gone
    <3>1. PICK y \in cib.refs[x] : y \notin Cut(x)
      BY <2>2, SearchEnded
    <3>2. y \in Resources /\ y \in Found
      BY <1>1, <1>6, <3>1 DEF Shape, Targets
    <3>3. y \in gone
      BY <3>2, FoundBelow, Disjoint DEF Found, Nested
    <3> QED
      BY <2>2, <3>1, <3>3, SearchEnded
  <2> QED
    BY <2>1, <2>2
<1>7. Also(cib, Found) \subseteq Found
  BY <1>3, <1>4, <1>5, <1>6 DEF Also, Containers
<1> QED
  BY <1>2, <1>7 DEF Closed

\* The elements that go are the same, but for nested permissions.
LEMMA SameRemoved ==
    ASSUME IInv, ExactInv, Searched, NEW x \in Elements \ Nested
    PROVE  x \in Below(cib, Closure(cib, asked)) <=> x \in Below(cib, gone)
<1> DEFINE C == Closure(cib, asked)
<1>1. Shape(cib) /\ gone \subseteq Elements
  BY DEF IInv, DocInv, TypeOK
<1>2. gone \subseteq C
  <2>1. Closed(Present(cib)) /\ Present(cib) \in SUBSET Present(cib)
    BY PresentClosed DEF ExactInv, SearchInv
  <2>2. gone \subseteq Present(cib)
    BY <2>1 DEF ExactInv, SearchInv
  <2>3. \A R \in SUBSET Present(cib) : Closed(R) => gone \subseteq R
    BY DEF ExactInv, SearchInv
  <2> QED
    BY <2>2, <2>3 DEF Closure, Closed
<1>3. C \subseteq Found
  <2>1. Found \in SUBSET Present(cib) /\ Closed(Found)
    BY FoundClosed DEF Found
  <2> QED
    BY <2>1 DEF Closure, Closed
<1> HIDE DEF C
<1>4. x \in Below(cib, gone) => x \in Below(cib, C)
  BY <1>2 DEF Below
<1>5. ASSUME x \in Below(cib, C)
      PROVE  x \in Below(cib, gone)
  <2>1. CASE x \in C
    BY <1>3, <2>1 DEF Found
  <2>2. ASSUME NEW y \in C, y = cib.up[x] \/ (cib.up[x] \in Elements /\ y = cib.up[cib.up[x]])
        PROVE  x \in Below(cib, gone)
    <3>1. y \in Below(cib, gone) \/ y \in Nested
      BY <1>3 DEF Found
    <3>2. y \in Elements /\ y \in Containers
      BY <1>1, <1>3, <2>2, ParentKind, Kinds DEF Found, Present
    <3>3. y \in gone
      BY <3>1, <3>2, FoundBelow, Disjoint DEF Nested, Containers, Constraints, Holders, Resources
    <3> QED
      BY <2>2, <3>3 DEF Below
  <2>3. \/ x \in C
        \/ cib.up[x] \in C
        \/ cib.up[x] \in Elements /\ cib.up[cib.up[x]] \in C
    BY <1>5 DEF Below
  <2>4. CASE cib.up[x] \in C
    BY <2>2, <2>4
  <2>5. CASE cib.up[x] \in Elements /\ cib.up[cib.up[x]] \in C
    BY <2>2, <2>5
  <2> QED
    BY <2>1, <2>3, <2>4, <2>5
<1> QED
  BY <1>4, <1>5 DEF C

\* What stays keeps its references to what stays, and only those.
LEMMA SameReferences ==
    ASSUME IInv, ExactInv, Searched, NEW x \in Elements \ Nested, x \notin Below(cib, gone)
    PROVE  Pruned.refs[x] = cib.refs[x] \ Below(cib, Closure(cib, asked))
<1> DEFINE all == Below(cib, Closure(cib, asked))
<1>1. /\ Shape(cib) /\ Sound(cib) /\ TypeOK /\ gone \subseteq Elements
      /\ x \notin gone /\ cib.up[x] \notin gone
  BY DEF IInv, DocInv, TypeOK, Below
<1>2. Pruned.refs[x] = IF x \in Holders \cup Levels THEN cib.refs[x] \ Cut(x) ELSE cib.refs[x]
  BY <1>1, PrunedFields
<1>3. cib.refs[x] \subseteq Elements
  BY <1>1 DEF TypeOK, Document
<1>4. \A y \in cib.refs[x] \ (Sets \cup Rules \cup Permissions) : y \in all <=> y \in gone
  <2> SUFFICES ASSUME NEW y \in cib.refs[x], y \notin Sets \cup Rules \cup Permissions
               PROVE  y \in all <=> y \in gone
    OBVIOUS
  <2>1. y \in all <=> y \in Below(cib, gone)
    BY <1>3, SameRemoved DEF Nested
  <2>2. y \in gone => y \in Below(cib, gone)
    BY <1>1 DEF Below
  <2> QED
    BY <2>1, <2>2, FoundBelow
<1> HIDE DEF all
<1>5. CASE x \in Holders \cup Levels
  <2>1. \A y \in cib.refs[x] : y \notin Sets \cup Rules \cup Permissions
    BY <1>1, <1>5, Disjoint DEF Shape, Targets
  <2>2. \A y \in cib.refs[x] : y \in gone => y \in Cut(x)
    BY <1>1, <1>5, SearchEnded
  <2>3. \A y \in Cut(x) : y \in gone
    BY <1>5 DEF IInv, WorkInv, CutInv, Cut
  <2> QED
    BY <1>2, <1>4, <1>5, <2>1, <2>2, <2>3 DEF all
<1>6. CASE x \in Referring
  <2>1. \A y \in cib.refs[x] : y \notin Sets \cup Rules \cup Permissions
    <3>1. CASE x \in Permissions
      BY <3>1 DEF Nested
    <3>2. CASE x \notin Permissions
      BY <1>1, <3>2, Disjoint DEF Shape, Targets
    <3> QED
      BY <3>1, <3>2
  <2>2. \A y \in cib.refs[x] : y \notin gone
    BY <1>1, <1>6, SearchEnded
  <2>3. x \notin Holders \cup Levels
    BY <1>6, Disjoint
  <2> QED
    BY <1>2, <1>4, <2>1, <2>2, <2>3 DEF all
<1>7. CASE x \notin Referring \cup Holders \cup Levels
  <2>1. cib.refs[x] = {}
    BY <1>1, <1>7 DEF Shape, Targets
  <2> QED
    BY <1>2, <2>1
<1> QED
  BY <1>5, <1>6, <1>7

\* Whatever the order in which _get_dependencies_to_remove took the entries,
\* "remove elements" removes the least set of elements that holds the ids it
\* was given and everything the rule asks for, with what is inside of them;
\* every other element stays in its place and keeps its other references.
THEOREM RemovalIsExact == Spec => []RemovalExact
<1>1. IInv /\ ExactInv => RemovalExact
  <2> SUFFICES ASSUME IInv, ExactInv, Searched, NEW x \in Elements \ Nested
               PROVE  /\ Pruned.up[x] = IF x \in Below(cib, Closure(cib, asked)) THEN Absent
                                                                                ELSE cib.up[x]
                      /\ x \notin Below(cib, Closure(cib, asked))
                            => Pruned.refs[x] = cib.refs[x] \ Below(cib, Closure(cib, asked))
    BY DEF RemovalExact
  <2>1. Pruned.up[x] = IF x \in Below(cib, gone) THEN Absent ELSE cib.up[x]
    BY PrunedFields DEF IInv
  <2> QED
    BY <2>1, SameRemoved, SameReferences
<1> QED
  BY <1>1, ExactInductive, PTL

\* Create, clone, unclone, the group, constraint, tag, level and permission
\* commands and the removal push a document that is sound but for the
\* permissions, except when a group that something refers to loses its last
\* member to a clone or another group, or is deleted with its clone, and when
\* "group remove" with a repeated name takes all members of a cloned group.
THEOREM OnlyRegrouping == Spec => []OnlyRegroupingBreaks
<1>1. Init => OnlyRegroupingBreaks
  BY DEF Init, OnlyRegroupingBreaks
<1>2. IInv /\ ExactInv /\ OnlyRegroupingBreaks /\ [Next]_vars => OnlyRegroupingBreaks'
  BY Steps DEF Kept, ExactInv, Small
<1> QED
  BY <1>1, <1>2, ExactInductive, PTL DEF Spec

\* A clone always has exactly one member, which is what the removal relies on
\* when it takes a clone away with the member it loses.
THEOREM CloneHasOneMember ==
    Spec => [](\A c \in Clones \cap Present(cib) : \E x \in Elements : Inner(cib, c) = {x})
<1>1. IInv /\ ExactInv
         => \A c \in Clones \cap Present(cib) : \E x \in Elements : Inner(cib, c) = {x}
  <2> SUFFICES ASSUME IInv, ExactInv, NEW c \in Clones \cap Present(cib)
               PROVE  \E x \in Elements : Inner(cib, c) = {x}
    OBVIOUS
  <2>1. PICK x \in Elements : cib.up[x] = c
    BY DEF IInv, DocInv, Sound, Inner
  <2>2. \A y \in Elements : cib.up[y] = c => y = x
    BY <2>1 DEF ExactInv, Small, Single
  <2> QED
    BY <2>1, <2>2 DEF Inner
<1> QED
  BY <1>1, ExactInductive, PTL

=============================================================================
