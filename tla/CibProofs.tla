----------------------------- MODULE CibProofs -----------------------------
(***************************************************************************)
(* For any number of elements and any order of the worklist: what a        *)
(* removal pushes is sound, and other commands push a document that is     *)
(* not sound only in the cases MayBreak names.                             *)
(***************************************************************************)
EXTENDS CibProperties, FiniteSetTheorems, TLAPS

Containers == Groups \cup Clones \cup SetConstraints \cup Ruled

\* Where elements may be and what they may refer to; nothing is left of an
\* element that is not in the document.
Places(d) ==
    /\ \A e \in Tags \cup Levels \cup Plains \cup SetConstraints \cup Ruled
               \cup Permissions \cup Clones \cup Devices : d.up[e] \in {Top, Absent}
    /\ \A e \in Primitives : d.up[e] \in {Top, Absent} \cup Groups \cup Clones
    /\ \A e \in Groups : d.up[e] \in {Top, Absent} \cup Clones
    /\ \A e \in Sets : d.up[e] \in SetConstraints \cup {Absent}
    /\ \A e \in Rules : d.up[e] \in Ruled \cup {Absent}

Targets(d) ==
    /\ \A e \in Elements \ Permissions : d.refs[e] \subseteq Resources \cup Tags
    /\ \A e \in Holders \cup Levels : d.refs[e] \subseteq Resources
    /\ \A e \in Elements \ (Referring \cup Holders \cup Levels) : d.refs[e] = {}
    /\ \A e \in Elements : d.up[e] = Absent => d.refs[e] = {}

Shape(d) == d \in Document /\ Places(d) /\ Targets(d)

\* A clone has one member.
Single(d) == \A x, y \in Elements : d.up[x] = d.up[y] /\ d.up[x] \in Clones => x = y

DocInv == Shape(cib) /\ Sound(cib)

\* References that have been cut out of a container.
Cut(x) == {e \in Elements : <<x, e>> \in lost}

\* The copy is the document without what has been processed.
CopyInv ==
    asked # {} =>
       /\ wip.up = [e \in Elements |-> IF e \in gone THEN Absent ELSE cib.up[e]]
       /\ wip.refs = [e \in Elements |-> IF e \in Holders \cup Levels
                                         THEN cib.refs[e] \ Cut(e) ELSE cib.refs[e]]

Idle == todo = {} /\ refTodo = {} /\ gone = {} /\ lost = {}

\* What the elements processed so far ask for has been done or is to do.
ReferringInv == \A e \in gone, x \in Referring : e \in cib.refs[x] => x \in gone \cup todo

InnerInv == \A x \in Resources : cib.up[x] \in gone => x \in gone \cup todo

EmptyInv == \A x \in Containers \cap Present(cib) :
               (\A y \in Elements : cib.up[y] = x => y \in gone) => x \in gone \cup todo

BareInv == \A x \in (Holders \cup Levels) \cap Present(cib) :
              cib.refs[x] \subseteq Cut(x) => x \in gone \cup todo

HolderInv == \A e \in gone, h \in Holders :
                e \in cib.refs[h] => \/ <<h, e>> \in refTodo \cup lost
                                     \/ h \in gone \/ cib.up[h] \in gone

LevelInv == \A e \in gone, l \in Levels :
               e \in cib.refs[l] => <<l, e>> \in lost \/ l \in gone

CutInv ==
    /\ \A h, e \in Elements : <<h, e>> \in refTodo => e \in gone /\ e \in cib.refs[h] \ Cut(h)
    /\ \A x \in Holders \cup Levels, e \in Elements : <<x, e>> \in lost => e \in gone

WorkInv ==
    /\ asked = {} => Idle
    /\ ReferringInv /\ InnerInv /\ EmptyInv /\ BareInv /\ HolderInv /\ LevelInv /\ CutInv

IInv == TypeOK /\ DocInv /\ CopyInv /\ WorkInv

-----------------------------------------------------------------------------
(* Elements and documents.                                                 *)

\* No two classes share an element.
LEMMA Disjoint ==
    /\ \A e \in Holders \cup Levels :
          e \notin Containers \cup Resources \cup Constraints \cup Referring \cup Permissions
    /\ \A e \in Holders : e \notin Levels
    /\ \A e \in Tags : e \notin Sets
    /\ \A e \in Primitives \cup Devices : e \notin Containers
    /\ \A e \in Primitives : e \notin Devices
    /\ \A e \in Groups : e \notin Clones
    /\ \A e \in Resources \cup Tags : e \notin Sets \cup Rules \cup Permissions \cup Constraints
    /\ \A e \in Resources : e \notin Tags \cup Levels
    /\ \A e \in Sets : e \notin Rules
    /\ \A e \in Rules : e \notin Containers \cup Plains \cup Permissions \cup Holders \cup Levels
    /\ \A e \in Plains : e \notin SetConstraints \cup Ruled
    /\ \A e \in SetConstraints : e \notin Ruled
    /\ \A e \in Permissions : e \notin Containers \cup Constraints \cup Holders \cup Levels
<1>1. /\ Classes[1] = Primitives /\ Classes[2] = Devices /\ Classes[3] = Groups
      /\ Classes[4] = Clones /\ Classes[5] = Tags /\ Classes[6] = Levels
      /\ Classes[7] = Plains /\ Classes[8] = SetConstraints /\ Classes[9] = Sets
      /\ Classes[10] = Ruled /\ Classes[11] = Rules /\ Classes[12] = Permissions
  BY DEF Classes
<1>2. \A i, j \in 1 .. 12 : i # j => Classes[i] \cap Classes[j] = {}
  BY ElementsAssumption
<1> HIDE DEF Classes
<1>3. \A e, i, j : i \in 1 .. 12 /\ j \in 1 .. 12 /\ e \in Classes[i] /\ e \in Classes[j] => i = j
  BY <1>2
<1> DEFINE tag(e) == CHOOSE i \in 1 .. 12 : e \in Classes[i]
<1>4. \A i \in 1 .. 12 : \A e \in Classes[i] : tag(e) = i
  BY <1>3
<1> HIDE DEF tag
<1>5. /\ \A e \in Primitives : tag(e) = 1
      /\ \A e \in Devices : tag(e) = 2
      /\ \A e \in Groups : tag(e) = 3
      /\ \A e \in Clones : tag(e) = 4
      /\ \A e \in Tags : tag(e) = 5
      /\ \A e \in Levels : tag(e) = 6
      /\ \A e \in Plains : tag(e) = 7
      /\ \A e \in SetConstraints : tag(e) = 8
      /\ \A e \in Sets : tag(e) = 9
      /\ \A e \in Ruled : tag(e) = 10
      /\ \A e \in Rules : tag(e) = 11
      /\ \A e \in Permissions : tag(e) = 12
  BY <1>1, <1>4
<1>6. \A e \in Holders \cup Levels :
          e \notin Containers \cup Resources \cup Constraints \cup Referring \cup Permissions
  BY <1>5 DEF Holders, Containers, Resources, Constraints, Referring
<1>7. \A e \in Holders : e \notin Levels
  BY <1>5 DEF Holders
<1>8. \A e \in Tags : e \notin Sets
  BY <1>5
<1>9. \A e \in Primitives \cup Devices : e \notin Containers
  BY <1>5 DEF Containers
<1>10. \A e \in Primitives : e \notin Devices
  BY <1>5
<1>11. \A e \in Groups : e \notin Clones
  BY <1>5
<1>12. \A e \in Resources \cup Tags : e \notin Sets \cup Rules \cup Permissions \cup Constraints
  BY <1>5 DEF Resources, Constraints
<1>13. \A e \in Resources : e \notin Tags \cup Levels
  BY <1>5 DEF Resources
<1>14. \A e \in Sets : e \notin Rules
  BY <1>5
<1>15. \A e \in Rules : e \notin Containers \cup Plains \cup Permissions \cup Holders \cup Levels
  BY <1>5 DEF Holders, Containers
<1>16. \A e \in Plains : e \notin SetConstraints \cup Ruled
  BY <1>5
<1>17. \A e \in SetConstraints : e \notin Ruled
  BY <1>5
<1>18. \A e \in Permissions : e \notin Containers \cup Constraints \cup Holders \cup Levels
  BY <1>5 DEF Holders, Containers, Constraints
<1> QED
  BY <1>6, <1>7, <1>8, <1>9, <1>10, <1>11, <1>12, <1>13, <1>14, <1>15, <1>16, <1>17, <1>18

\* The classes are classes of elements; Top and Absent are none.
LEMMA Kinds ==
    /\ Resources \subseteq Elements /\ Constraints \subseteq Elements
    /\ Holders \subseteq Elements /\ Levels \subseteq Elements
    /\ Containers \subseteq Elements /\ Referring \subseteq Elements
    /\ Removable \subseteq Elements /\ Permissions \subseteq Elements
    /\ Tags \subseteq Elements /\ Sets \subseteq Elements /\ Rules \subseteq Elements
    /\ Top \notin Elements /\ Absent \notin Elements /\ Top # Absent
BY ElementsAssumption
   DEF Resources, Constraints, Holders, Containers, Referring, Removable, Elements

\* An element refers to something only while it is in the document.
LEMMA InPlace ==
    ASSUME NEW d, Shape(d), Sound(d), NEW x \in Elements, NEW y \in d.refs[x]
    PROVE  /\ x \in Present(d)
           /\ x \in Referring \cup Levels \cup Tags => d.up[x] = Top
           /\ x \in Sets => /\ d.up[x] \in SetConstraints
                            /\ d.up[d.up[x]] = Top
<1>1. d.up[x] # Absent
  BY DEF Shape, Targets
<1>2. x \in Present(d)
  BY <1>1 DEF Present
<1>3. x \in Referring \cup Levels \cup Tags => d.up[x] = Top
  BY <1>1 DEF Shape, Places, Referring
<1>4. ASSUME x \in Sets
      PROVE  d.up[x] \in SetConstraints /\ d.up[d.up[x]] = Top
  <2>1. d.up[x] \in SetConstraints
    BY <1>1, <1>4 DEF Shape, Places
  <2>2. d.up[x] \in Present(d)
    BY <1>2, <2>1, Kinds DEF Sound, Containers
  <2> QED
    BY <2>1, <2>2 DEF Shape, Places, Present
<1> QED
  BY <1>2, <1>3, <1>4

\* Elements with inner elements are containers.
LEMMA ParentKind ==
    ASSUME NEW d, Shape(d), NEW x \in Elements
    PROVE  /\ d.up[x] \in Containers \cup {Top, Absent}
           /\ x \in Resources => d.up[x] \in Resources \cup {Top, Absent}
<1>1. x \in Primitives \cup Devices \cup Groups \cup Clones \cup Tags \cup Levels \cup Plains
          \cup SetConstraints \cup Sets \cup Ruled \cup Rules \cup Permissions
  BY DEF Elements, Resources, Constraints
<1>2. d.up[x] \in Containers \cup {Top, Absent}
  BY <1>1 DEF Shape, Places, Containers
<1>3. x \in Resources => d.up[x] \in Resources \cup {Top, Absent}
  BY DEF Shape, Places, Resources
<1> QED
  BY <1>2, <1>3

-----------------------------------------------------------------------------
(* The search.                                                             *)

\* With nothing processed there is nothing to do.
LEMMA IdleWork ==
    ASSUME DocInv, Idle
    PROVE  WorkInv
<1>1. \A x : Cut(x) = {}
  BY DEF Idle, Cut
<1>2. EmptyInv
  <2> SUFFICES ASSUME NEW x \in Containers \cap Present(cib)
               PROVE  \E y \in Elements : cib.up[y] = x
    BY DEF EmptyInv, Idle
  <2> QED
    BY DEF DocInv, Sound, Containers, Inner
<1>3. BareInv
  <2> SUFFICES ASSUME NEW x \in (Holders \cup Levels) \cap Present(cib)
               PROVE  cib.refs[x] # {}
    BY <1>1 DEF BareInv
  <2> QED
    BY DEF DocInv, Sound
<1>4. ReferringInv /\ HolderInv /\ LevelInv /\ CutInv
  BY DEF ReferringInv, HolderInv, LevelInv, CutInv, Idle
<1>5. InnerInv
  BY DEF InnerInv, Idle
<1> QED
  BY <1>2, <1>3, <1>4, <1>5 DEF WorkInv

\* A removal starts.
LEMMA StartRemoveStep ==
    ASSUME IInv, NEW ids, ids # {}, StartRemove(ids)
    PROVE  DocInv' /\ CopyInv' /\ WorkInv'
<1>1. /\ asked' # {} /\ wip' = cib /\ cib' = cib /\ todo' = ids
      /\ gone' = {} /\ lost' = {} /\ refTodo' = {}
  BY DEF StartRemove, IInv, WorkInv, Idle
<1>2. DocInv' /\ \A x : Cut(x)' = {}
  BY <1>1 DEF IInv, DocInv, Cut
<1>3. CopyInv'
  <2>1. cib.up \in [Elements -> Elements \cup {Top, Absent}]
        /\ cib.refs \in [Elements -> SUBSET Elements]
    BY DEF IInv, TypeOK, Document
  <2> QED
    BY <1>1, <1>2, <2>1 DEF CopyInv
<1>4. EmptyInv'
  <2> SUFFICES ASSUME NEW x \in Containers \cap Present(cib)
               PROVE  \E y \in Elements : cib.up[y] = x
    BY <1>1 DEF EmptyInv
  <2> QED
    BY DEF IInv, DocInv, Sound, Containers, Inner
<1>5. BareInv'
  <2> SUFFICES ASSUME NEW x \in (Holders \cup Levels) \cap Present(cib)
               PROVE  cib.refs[x] # {}
    BY <1>1, <1>2 DEF BareInv
  <2> QED
    BY DEF IInv, DocInv, Sound
<1>6. ReferringInv' /\ HolderInv' /\ LevelInv' /\ CutInv' /\ InnerInv'
  BY <1>1 DEF ReferringInv, HolderInv, LevelInv, CutInv, InnerInv
<1> QED
  BY <1>1, <1>2, <1>3, <1>4, <1>5, <1>6 DEF WorkInv

\* What is known of the copy while a removal is under way.
LEMMA CopyFacts ==
    ASSUME IInv, asked # {}
    PROVE  /\ \A x \in Elements : wip.up[x] = IF x \in gone THEN Absent ELSE cib.up[x]
           /\ \A x \in Holders \cup Levels : wip.refs[x] = cib.refs[x] \ Cut(x)
           /\ \A x \in Elements \ (Holders \cup Levels) : wip.refs[x] = cib.refs[x]
           /\ wip.up \in [Elements -> Elements \cup {Top, Absent}]
           /\ wip.refs \in [Elements -> SUBSET Elements]
           /\ Shape(cib) /\ Sound(cib)
<1>1. /\ \A x \in Elements : wip.up[x] = IF x \in gone THEN Absent ELSE cib.up[x]
      /\ \A x \in Elements : wip.refs[x] = IF x \in Holders \cup Levels
                                         THEN cib.refs[x] \ Cut(x) ELSE cib.refs[x]
  BY DEF IInv, CopyInv
<1>2. /\ wip.up \in [Elements -> Elements \cup {Top, Absent}]
      /\ wip.refs \in [Elements -> SUBSET Elements]
  BY DEF IInv, TypeOK, Document
<1>3. Shape(cib) /\ Sound(cib)
  BY DEF IInv, DocInv
<1> QED
  BY <1>1, <1>2, <1>3, Kinds

\* An entry that has been processed before.
LEMMA SkipStep ==
    ASSUME IInv, NEW e \in todo, e \in gone, TakeElement(e)
    PROVE  DocInv' /\ CopyInv' /\ WorkInv'
<1>1. UNCHANGED <<refTodo, gone, lost, wip, cib, asked>> /\ gone' \cup todo' = gone \cup todo
  BY DEF TakeElement
<1>2. asked # {}
  BY DEF IInv, WorkInv, Idle
<1>3. DocInv' /\ CopyInv'
  BY <1>1 DEF IInv, DocInv, CopyInv, Cut
<1>4. ReferringInv' /\ InnerInv' /\ EmptyInv' /\ BareInv'
  BY <1>1 DEF IInv, WorkInv, ReferringInv, InnerInv, EmptyInv, BareInv, Cut
<1>5. HolderInv' /\ LevelInv' /\ CutInv'
  BY <1>1 DEF IInv, WorkInv, HolderInv, LevelInv, CutInv, Cut
<1> QED
  BY <1>1, <1>2, <1>3, <1>4, <1>5 DEF WorkInv

\* A reference is cut out of its holder.
LEMMA TakeReferenceStep ==
    ASSUME IInv, NEW h, NEW e, TakeReference(h, e)
    PROVE  DocInv' /\ CopyInv' /\ WorkInv'
<1>1. <<h, e>> \in refTodo /\ asked # {}
  BY DEF TakeReference, IInv, WorkInv, Idle
<1>2. h \in Holders /\ h \in Elements /\ e \in Elements
  BY <1>1, Kinds DEF IInv, TypeOK
<1>3. /\ UNCHANGED <<cib, asked, gone>> /\ refTodo' = refTodo \ {<<h, e>>}
      /\ todo' = todo \cup {x \in {h} : Cardinality(wip.refs[h]) = 1}
      /\ lost' = lost \cup {<<h, e>>}
      /\ wip' = [wip EXCEPT !.refs[h] = @ \ {e}]
  BY DEF TakeReference
<1>4. /\ \A x : x # h => Cut(x)' = Cut(x)
      /\ Cut(h)' = Cut(h) \cup {e}
  BY <1>2, <1>3 DEF Cut
<1>5. e \in gone /\ e \in cib.refs[h] \ Cut(h)
  BY <1>1, <1>2 DEF IInv, WorkInv, CutInv
<1>6. DocInv'
  BY <1>3 DEF IInv, DocInv
<1>7. CopyInv'
  <2>1. /\ wip'.up = wip.up
        /\ wip'.refs = [wip.refs EXCEPT ![h] = @ \ {e}]
    BY <1>3 DEF IInv, TypeOK, Document
  <2>2. /\ wip.up = [x \in Elements |-> IF x \in gone THEN Absent ELSE cib.up[x]]
        /\ wip.refs = [x \in Elements |-> IF x \in Holders \cup Levels
                                         THEN cib.refs[x] \ Cut(x) ELSE cib.refs[x]]
    BY <1>1 DEF IInv, CopyInv
  <2>3. wip'.up = [x \in Elements |-> IF x \in gone' THEN Absent ELSE cib'.up[x]]
    BY <1>3, <2>1, <2>2
  <2>4. wip'.refs = [x \in Elements |-> IF x \in Holders \cup Levels
                                        THEN cib'.refs[x] \ Cut(x)' ELSE cib'.refs[x]]
    <3>1. wip'.refs = [x \in Elements |-> IF x = h THEN wip.refs[x] \ {e} ELSE wip.refs[x]]
      BY <1>2, <2>1, <2>2
    <3>2. \A x \in Elements : (IF x = h THEN wip.refs[x] \ {e} ELSE wip.refs[x])
             = IF x \in Holders \cup Levels THEN cib.refs[x] \ Cut(x)' ELSE cib.refs[x]
      <4> SUFFICES ASSUME NEW x \in Elements
                   PROVE  (IF x = h THEN wip.refs[x] \ {e} ELSE wip.refs[x])
                            = IF x \in Holders \cup Levels THEN cib.refs[x] \ Cut(x)'
                                                           ELSE cib.refs[x]
        OBVIOUS
      <4>1. CASE x = h
        BY <1>2, <1>4, <2>2, <4>1
      <4>2. CASE x # h
        BY <1>4, <2>2, <4>2
      <4> QED
        BY <4>1, <4>2
    <3> QED
      BY <1>3, <3>1, <3>2
  <2> QED
    BY <2>3, <2>4 DEF CopyInv
<1>8. ReferringInv' /\ InnerInv' /\ EmptyInv'
  BY <1>3 DEF IInv, WorkInv, ReferringInv, InnerInv, EmptyInv
<1>9. BareInv'
  <2> SUFFICES ASSUME NEW x \in (Holders \cup Levels) \cap Present(cib),
                      cib.refs[x] \subseteq Cut(x)'
               PROVE  x \in gone \cup todo'
    BY <1>3 DEF BareInv
  <2>1. CASE cib.refs[x] \subseteq Cut(x)
    BY <1>3, <2>1 DEF IInv, WorkInv, BareInv
  <2>2. CASE ~(cib.refs[x] \subseteq Cut(x))
    <3>1. x = h
      BY <1>4, <2>2
    <3>2. wip.refs[h] = cib.refs[h] \ Cut(h)
      BY <1>1, <1>2, CopyFacts
    <3>3. wip.refs[h] = {e}
      BY <1>4, <1>5, <3>1, <3>2
    <3>4. Cardinality(wip.refs[h]) = 1
      BY <3>3, FS_Singleton
    <3> QED
      BY <1>3, <3>1, <3>4
  <2> QED
    BY <2>1, <2>2
<1>10. HolderInv' /\ LevelInv'
  BY <1>3 DEF IInv, WorkInv, HolderInv, LevelInv
<1>11. CutInv'
  <2>1. \A g, x \in Elements : <<g, x>> \in refTodo' => x \in gone' /\ x \in cib'.refs[g] \ Cut(g)'
    <3> SUFFICES ASSUME NEW g \in Elements, NEW x \in Elements, <<g, x>> \in refTodo'
                 PROVE  x \in gone /\ x \in cib.refs[g] \ Cut(g)'
      BY <1>3
    <3>1. <<g, x>> \in refTodo /\ <<g, x>> # <<h, e>>
      BY <1>3
    <3>2. x \in gone /\ x \in cib.refs[g] \ Cut(g)
      BY <3>1 DEF IInv, WorkInv, CutInv
    <3> QED
      BY <1>4, <3>1, <3>2
  <2>2. \A x \in Holders \cup Levels, y \in Elements : <<x, y>> \in lost' => y \in gone'
    BY <1>3, <1>5 DEF IInv, WorkInv, CutInv
  <2> QED
    BY <2>1, <2>2 DEF CutInv
<1> QED
  BY <1>1, <1>3, <1>6, <1>7, <1>8, <1>9, <1>10, <1>11 DEF WorkInv

\* An element is processed.
LEMMA ProcessElementStep ==
    ASSUME IInv, NEW e \in todo, e \notin gone, TakeElement(e)
    PROVE  DocInv' /\ CopyInv' /\ WorkInv'
<1> DEFINE levels == LevelsWith(wip, e)
           emptied == {l \in levels : wip.refs[l] = {e}}
           parent == wip.up[e]
<1>1. e \in Elements /\ asked # {} /\ UNCHANGED <<cib, asked>>
  BY DEF TakeElement, IInv, TypeOK, WorkInv, Idle
<1>2. /\ gone' = gone \cup {e}
      /\ todo' = (todo \ {e}) \cup ReferringTo(wip, e) \cup InnerResources(wip, e)
                   \cup emptied \cup {p \in {parent} : EmptyAfter(wip, p)}
      /\ refTodo' = refTodo \cup {<<h, e>> : h \in HoldersOf(wip, e)}
      /\ lost' = lost \cup {<<c, e>> : c \in levels \cup ({parent} \ {Top, Absent})}
      /\ wip'.up = [wip.up EXCEPT ![e] = Absent]
      /\ wip'.refs = [x \in Elements |-> IF x \in levels THEN wip.refs[x] \ {e}
                                                         ELSE wip.refs[x]]
  BY DEF TakeElement, ProcessElement
<1>3. /\ \A x \in Elements : wip.up[x] = IF x \in gone THEN Absent ELSE cib.up[x]
      /\ \A x \in Holders \cup Levels : wip.refs[x] = cib.refs[x] \ Cut(x)
      /\ \A x \in Elements \ (Holders \cup Levels) : wip.refs[x] = cib.refs[x]
      /\ wip.up \in [Elements -> Elements \cup {Top, Absent}]
      /\ wip.refs \in [Elements -> SUBSET Elements]
      /\ Shape(cib) /\ Sound(cib)
  BY <1>1, CopyFacts
<1>4. parent = cib.up[e] /\ parent \in Containers \cup {Top, Absent}
  BY <1>1, <1>3, ParentKind
<1>5. levels \subseteq Levels /\ levels = {l \in Levels : wip.up[l] = Top /\ e \in wip.refs[l]}
  BY DEF LevelsWith
<1> HIDE DEF levels, parent
<1>6. \A x \in Holders \cup Levels :
         /\ x \in levels => Cut(x)' = Cut(x) \cup {e}
         /\ x \notin levels => Cut(x)' = Cut(x)
  <2> SUFFICES ASSUME NEW x \in Holders \cup Levels
               PROVE  /\ x \in levels => Cut(x)' = Cut(x) \cup {e}
                      /\ x \notin levels => Cut(x)' = Cut(x)
    OBVIOUS
  <2>1. x \notin {parent} \ {Top, Absent}
    BY <1>4, Disjoint
  <2>2. \A y : <<x, y>> \in lost' <=> <<x, y>> \in lost \/ (x \in levels /\ y = e)
    BY <1>2, <2>1
  <2> QED
    BY <1>1, <2>2 DEF Cut
<1>7. DocInv'
  BY <1>1 DEF IInv, DocInv
<1>8. CopyInv'
  <2>1. wip'.up = [x \in Elements |-> IF x \in gone' THEN Absent ELSE cib'.up[x]]
    BY <1>1, <1>2, <1>3
  <2>2. \A x \in Elements : (IF x \in levels THEN wip.refs[x] \ {e} ELSE wip.refs[x])
           = IF x \in Holders \cup Levels THEN cib.refs[x] \ Cut(x)' ELSE cib.refs[x]
    <3> SUFFICES ASSUME NEW x \in Elements
                 PROVE  (IF x \in levels THEN wip.refs[x] \ {e} ELSE wip.refs[x])
                          = IF x \in Holders \cup Levels THEN cib.refs[x] \ Cut(x)'
                                                         ELSE cib.refs[x]
      OBVIOUS
    <3>1. CASE x \in levels
      BY <1>3, <1>5, <1>6, <3>1
    <3>2. CASE x \notin levels
      BY <1>3, <1>6, <3>2
    <3> QED
      BY <3>1, <3>2
  <2>3. wip'.refs = [x \in Elements |-> IF x \in Holders \cup Levels
                                        THEN cib'.refs[x] \ Cut(x)' ELSE cib'.refs[x]]
    BY <1>1, <1>2, <2>2
  <2> QED
    BY <2>1, <2>3 DEF CopyInv
<1>9. ReferringInv'
  <2> SUFFICES ASSUME NEW y \in gone', NEW x \in Referring, y \in cib.refs[x], x \notin gone'
               PROVE  x \in todo'
    BY <1>1 DEF ReferringInv
  <2>1. CASE y \in gone
    BY <1>2, <2>1 DEF IInv, WorkInv, ReferringInv
  <2>2. CASE y = e
    <3>1. cib.up[x] = Top /\ x \in Elements
      BY <1>3, Kinds, InPlace
    <3>2. wip.up[x] = Top
      BY <1>2, <1>3, <3>1
    <3>3. e \in wip.refs[x]
      BY <1>3, <2>2, <3>1, Disjoint
    <3> QED
      BY <1>2, <3>2, <3>3 DEF ReferringTo
  <2> QED
    BY <1>2, <2>1, <2>2
<1>10. InnerInv'
  <2> SUFFICES ASSUME NEW x \in Resources, cib.up[x] \in gone', x \notin gone'
               PROVE  x \in todo'
    BY <1>1 DEF InnerInv
  <2>1. CASE cib.up[x] \in gone
    BY <1>2, <2>1 DEF IInv, WorkInv, InnerInv
  <2>2. CASE cib.up[x] = e
    <3>1. x \in Elements /\ e \in Resources
      BY <1>1, <1>3, <2>2, Kinds, ParentKind
    <3>2. wip.up[x] = e
      BY <1>2, <1>3, <2>2, <3>1
    <3> QED
      BY <1>2, <3>1, <3>2 DEF InnerResources, Inner
  <2> QED
    BY <1>2, <2>1, <2>2
<1>11. EmptyInv'
  <2> SUFFICES ASSUME NEW x \in Containers \cap Present(cib),
                      \A y \in Elements : cib.up[y] = x => y \in gone',
                      x \notin gone'
               PROVE  x \in todo'
    BY <1>1 DEF EmptyInv
  <2>1. CASE \A y \in Elements : cib.up[y] = x => y \in gone
    BY <1>2, <2>1 DEF IInv, WorkInv, EmptyInv
  <2>2. CASE cib.up[e] = x
    <3>1. x \in Elements /\ x # Absent
      BY Kinds
    <3>2. Inner(wip, x) = {e}
      BY <1>1, <1>2, <1>3, <2>2, <3>1 DEF Inner
    <3>3. Cardinality(Inner(wip, x)) = 1
      BY <3>2, FS_Singleton
    <3>4. EmptyAfter(wip, x)
      BY <3>3 DEF EmptyAfter, Containers
    <3> QED
      BY <1>2, <1>4, <2>2, <3>4
  <2> QED
    BY <1>2, <2>1, <2>2
<1>12. BareInv'
  <2> SUFFICES ASSUME NEW x \in (Holders \cup Levels) \cap Present(cib),
                      cib.refs[x] \subseteq Cut(x)', x \notin gone'
               PROVE  x \in todo'
    BY <1>1 DEF BareInv
  <2>1. CASE cib.refs[x] \subseteq Cut(x)
    BY <1>2, <2>1 DEF IInv, WorkInv, BareInv
  <2>2. CASE ~(cib.refs[x] \subseteq Cut(x))
    <3>1. x \in levels
      BY <1>6, <2>2
    <3>2. wip.refs[x] = {e}
      BY <1>3, <1>6, <2>2, <3>1
    <3> QED
      BY <1>2, <3>1, <3>2
  <2> QED
    BY <2>1, <2>2
<1>13. \A x \in Holders \cup Levels : e \in cib.refs[x] => e \in wip.refs[x]
  <2>1. \A x \in Holders \cup Levels : <<x, e>> \notin lost
    BY <1>1 DEF IInv, WorkInv, CutInv
  <2>2. \A x \in Holders \cup Levels : e \notin Cut(x)
    BY <2>1 DEF Cut
  <2> QED
    BY <1>3, <2>2
<1>14. HolderInv'
  <2> SUFFICES ASSUME NEW y \in gone', NEW h \in Holders, y \in cib.refs[h],
                      h \notin gone', cib.up[h] \notin gone'
               PROVE  <<h, y>> \in refTodo' \cup lost'
    BY <1>1 DEF HolderInv
  <2>1. CASE y \in gone
    BY <1>2, <2>1 DEF IInv, WorkInv, HolderInv
  <2>2. CASE y = e
    <3>1. h \in Elements /\ e \in wip.refs[h]
      BY <1>13, <2>2, Kinds
    <3>2. Attached(wip, h)
      <4>1. CASE h \in Tags
        BY <1>2, <1>3, <3>1, <4>1, InPlace DEF Attached
      <4>2. CASE h \in Sets
        <5>1. cib.up[h] \in SetConstraints /\ cib.up[cib.up[h]] = Top
          BY <1>3, <3>1, <4>2, InPlace
        <5>2. cib.up[h] \in Elements
          BY <5>1, Kinds DEF Containers
        <5>3. wip.up[h] = cib.up[h] /\ wip.up[cib.up[h]] = Top
          BY <1>2, <1>3, <3>1, <5>1, <5>2
        <5> QED
          BY <5>2, <5>3 DEF Attached
      <4> QED
        BY <4>1, <4>2 DEF Holders
    <3>3. h \in HoldersOf(wip, e)
      BY <3>1, <3>2 DEF HoldersOf
    <3> QED
      BY <1>2, <2>2, <3>3
  <2> QED
    BY <1>2, <2>1, <2>2
<1>15. LevelInv'
  <2> SUFFICES ASSUME NEW y \in gone', NEW l \in Levels, y \in cib.refs[l], l \notin gone'
               PROVE  <<l, y>> \in lost'
    BY <1>1 DEF LevelInv
  <2>1. CASE y \in gone
    BY <1>2, <2>1 DEF IInv, WorkInv, LevelInv
  <2>2. CASE y = e
    <3>1. l \in Elements /\ e \in wip.refs[l]
      BY <1>13, <2>2, Kinds
    <3>2. wip.up[l] = Top
      BY <1>2, <1>3, <3>1, InPlace
    <3> QED
      BY <1>2, <1>5, <2>2, <3>1, <3>2
  <2> QED
    BY <1>2, <2>1, <2>2
<1>16. CutInv'
  <2>1. \A h, y \in Elements : <<h, y>> \in refTodo' => y \in gone' /\ y \in cib'.refs[h] \ Cut(h)'
    <3> SUFFICES ASSUME NEW h \in Elements, NEW y \in Elements, <<h, y>> \in refTodo'
                 PROVE  y \in gone' /\ y \in cib.refs[h] \ Cut(h)'
      BY <1>1
    <3>1. CASE <<h, y>> \in refTodo
      <4>1. h \in Holders /\ h \notin levels
        BY <1>5, <3>1, Disjoint DEF IInv, TypeOK
      <4>2. y \in gone /\ y \in cib.refs[h] \ Cut(h)
        BY <3>1 DEF IInv, WorkInv, CutInv
      <4> QED
        BY <1>2, <1>6, <4>1, <4>2
    <3>2. CASE y = e /\ h \in HoldersOf(wip, e)
      <4>1. h \in Holders /\ h \notin levels /\ e \in wip.refs[h]
        BY <1>5, <3>2, Disjoint DEF HoldersOf
      <4> QED
        BY <1>2, <1>3, <1>6, <3>2, <4>1
    <3> QED
      BY <1>2, <3>1, <3>2
  <2>2. \A x \in Holders \cup Levels, y \in Elements : <<x, y>> \in lost' => y \in gone'
    BY <1>2 DEF IInv, WorkInv, CutInv
  <2> QED
    BY <2>1, <2>2 DEF CutInv
<1> QED
  BY <1>1, <1>7, <1>8, <1>9, <1>10, <1>11, <1>12, <1>14, <1>15, <1>16 DEF WorkInv

-----------------------------------------------------------------------------
(* The document without what the search found.                             *)

\* Taking elements and references away keeps the shape of a document.
LEMMA Shrunk ==
    ASSUME NEW c, Shape(c), NEW d \in Document,
           \A x \in Elements : /\ d.up[x] = c.up[x] \/ d.up[x] = Absent
                               /\ d.refs[x] \subseteq c.refs[x]
                               /\ d.up[x] = Absent => d.refs[x] = {}
    PROVE  Shape(d)
<1>1. Places(d)
  BY DEF Shape, Places, Elements, Resources, Constraints
<1>2. Targets(d)
  BY Kinds DEF Shape, Targets
<1> QED
  BY <1>1, <1>2 DEF Shape

\* The fields of the pruned document.
LEMMA PrunedFields ==
    ASSUME TypeOK
    PROVE  /\ Pruned \in Document
           /\ \A x \in Elements :
                 Pruned.up[x] = IF x \in Below(cib, gone) THEN Absent ELSE cib.up[x]
           /\ \A x \in Below(cib, gone) : Pruned.refs[x] = {}
           /\ \A x \in Elements \ Below(cib, gone) :
                 Pruned.refs[x] = IF x \in Holders \cup Levels THEN cib.refs[x] \ Cut(x)
                                                              ELSE cib.refs[x]
<1> DEFINE B == Below(cib, gone)
           d == Without(cib, B)
           up == [x \in Elements |-> IF x \in B THEN Absent ELSE cib.up[x]]
           old == [x \in Elements |-> IF x \in B THEN {} ELSE cib.refs[x]]
           refs == [x \in Elements |-> IF x \in Holders \cup Levels THEN old[x] \ Cut(x)
                                                                   ELSE old[x]]
<1>1. Pruned = [up |-> up, refs |-> refs]
  <2>1. d = [up |-> up, refs |-> old]
    BY DEF Without
  <2>2. Pruned = [d EXCEPT !.refs =
                     [x \in Elements |-> IF x \in Holders \cup Levels THEN d.refs[x] \ Cut(x)
                                                                       ELSE d.refs[x]]]
    BY DEF Pruned, Cut
  <2> HIDE DEF d, up, old
  <2>3. d.refs = old
    BY <2>1
  <2>4. Pruned = [d EXCEPT !.refs = refs]
    BY <2>2, <2>3
  <2> HIDE DEF refs
  <2> QED
    BY <2>1, <2>4
<1>2. /\ cib.up \in [Elements -> Elements \cup {Top, Absent}]
      /\ cib.refs \in [Elements -> SUBSET Elements]
      /\ B \subseteq Elements
  BY DEF TypeOK, Document, Below
<1> HIDE DEF B
<1>3. up \in [Elements -> Elements \cup {Top, Absent}] /\ refs \in [Elements -> SUBSET Elements]
  BY <1>2
<1>4. /\ \A x \in B : refs[x] = {}
      /\ \A x \in Elements \ B : refs[x] = IF x \in Holders \cup Levels
                                           THEN cib.refs[x] \ Cut(x) ELSE cib.refs[x]
      /\ \A x \in Elements : up[x] = IF x \in B THEN Absent ELSE cib.up[x]
  BY <1>2
<1> HIDE DEF up, refs
<1>5. Pruned \in Document /\ Pruned.up = up /\ Pruned.refs = refs
  BY <1>1, <1>3 DEF Document
<1> QED
  BY <1>4, <1>5 DEF B

\* When the search has ended: nothing is left to do.
LEMMA SearchEnded ==
    ASSUME IInv, Searched
    PROVE  /\ \A e \in gone, x \in Referring : e \in cib.refs[x] => x \in gone
           /\ \A x \in Resources : cib.up[x] \in gone => x \in gone
           /\ \A x \in Containers \cap Present(cib) :
                 x \in gone \/ \E y \in Elements : cib.up[y] = x /\ y \notin gone
           /\ \A x \in (Holders \cup Levels) \cap Present(cib) :
                 x \in gone \/ cib.refs[x] \ Cut(x) # {}
           /\ \A e \in gone, h \in Holders \cup Levels :
                 e \in cib.refs[h] => e \in Cut(h) \/ h \in gone \/ cib.up[h] \in gone
<1>1. todo = {} /\ refTodo = {} /\ gone \subseteq Elements
  BY DEF Searched, IInv, TypeOK
<1>2. \A e \in gone, x \in Referring : e \in cib.refs[x] => x \in gone
  BY <1>1 DEF IInv, WorkInv, ReferringInv
<1>3. \A x \in Resources : cib.up[x] \in gone => x \in gone
  BY <1>1 DEF IInv, WorkInv, InnerInv
<1>4. \A x \in Containers \cap Present(cib) :
         x \in gone \/ \E y \in Elements : cib.up[y] = x /\ y \notin gone
  BY <1>1 DEF IInv, WorkInv, EmptyInv
<1>5. \A x \in (Holders \cup Levels) \cap Present(cib) :
         x \in gone \/ cib.refs[x] \ Cut(x) # {}
  BY <1>1 DEF IInv, WorkInv, BareInv
<1>6. \A e \in gone, h \in Holders :
         e \in cib.refs[h] => e \in Cut(h) \/ h \in gone \/ cib.up[h] \in gone
  BY <1>1 DEF IInv, WorkInv, HolderInv, Cut
<1>7. \A e \in gone, h \in Levels :
         e \in cib.refs[h] => e \in Cut(h) \/ h \in gone
  BY <1>1 DEF IInv, WorkInv, LevelInv, Cut
<1> QED
  BY <1>2, <1>3, <1>4, <1>5, <1>6, <1>7

\* Only a container that is itself at the top, or a group, is in another one:
\* an element is at most two levels deep.
LEMMA Depth ==
    ASSUME NEW d, Shape(d), NEW x \in Elements, d.up[x] \in Elements, d.up[d.up[x]] \in Elements
    PROVE  d.up[d.up[d.up[x]]] \in {Top, Absent}
<1>1. d.up[x] \in Containers
  BY ParentKind, Kinds
<1>2. d.up[d.up[x]] \in Clones
  BY <1>1, Kinds DEF Shape, Places, Containers
<1> QED
  BY <1>2 DEF Shape, Places

\* What is pushed is sound, and nothing refers to what was removed.
LEMMA PrunedSound ==
    ASSUME IInv, Searched
    PROVE  /\ Shape(Pruned) /\ Sound(Pruned)
           /\ \A x \in Elements : Pruned.refs[x] \cap gone = {}
<1> DEFINE B == Below(cib, gone)
           d == Pruned
<1>1. /\ Shape(cib) /\ Sound(cib) /\ TypeOK /\ gone \subseteq Elements
      /\ cib.up \in [Elements -> Elements \cup {Top, Absent}]
      /\ cib.refs \in [Elements -> SUBSET Elements]
  BY DEF IInv, DocInv, TypeOK, Document
<1>2. /\ d \in Document
      /\ \A x \in Elements : d.up[x] = IF x \in B THEN Absent ELSE cib.up[x]
      /\ \A x \in B : d.refs[x] = {}
      /\ \A x \in Elements \ B : d.refs[x] = IF x \in Holders \cup Levels
                                           THEN cib.refs[x] \ Cut(x) ELSE cib.refs[x]
  BY <1>1, PrunedFields
<1>3. /\ B \subseteq Elements /\ gone \subseteq B
      /\ \A x \in Elements : cib.up[x] \in gone => x \in B
      /\ \A x \in Elements : cib.up[x] \in Elements /\ cib.up[cib.up[x]] \in gone => x \in B
      /\ \A x \in B : \/ x \in gone \/ cib.up[x] \in gone
                      \/ cib.up[x] \in Elements /\ cib.up[cib.up[x]] \in gone
  BY <1>1 DEF Below
<1> HIDE DEF B, d
<1>4. \A x \in Elements : d.refs[x] \cap gone = {}
  <2> SUFFICES ASSUME NEW x \in Elements, NEW y \in gone, y \in d.refs[x]
               PROVE  FALSE
    OBVIOUS
  <2>1. x \notin B
    BY <1>2
  <2>2. CASE x \in Holders \cup Levels
    <3>1. y \in cib.refs[x] /\ y \notin Cut(x)
      BY <1>2, <2>1, <2>2
    <3>2. x \in gone \/ cib.up[x] \in gone
      BY <2>2, <3>1, SearchEnded
    <3> QED
      BY <1>3, <2>1, <3>2
  <2>3. CASE x \notin Holders \cup Levels
    <3>1. y \in cib.refs[x]
      BY <1>2, <2>1, <2>3
    <3>2. x \in Referring
      BY <1>1, <2>3, <3>1 DEF Shape, Targets
    <3> QED
      BY <1>3, <2>1, <3>1, <3>2, SearchEnded
  <2> QED
    BY <2>2, <2>3
<1>5. Shape(d)
  <2>1. ASSUME NEW x \in Elements
        PROVE  /\ d.up[x] = cib.up[x] \/ d.up[x] = Absent
               /\ d.refs[x] \subseteq cib.refs[x]
               /\ d.up[x] = Absent => d.refs[x] = {}
    <3>1. CASE x \in B
      BY <1>2, <3>1
    <3>2. CASE x \notin B
      BY <1>1, <1>2, <3>2 DEF Shape, Targets
    <3> QED
      BY <3>1, <3>2
  <2> QED
    BY <1>1, <1>2, <2>1, Shrunk
<1>6. \A x \in Present(d) : x \in Elements /\ x \notin B /\ x \in Present(cib)
                            /\ d.up[x] = cib.up[x]
  BY <1>2 DEF Present
<1>7. \A x \in Elements \ B : x \in Present(cib) => x \in Present(d)
  BY <1>2 DEF Present
<1>8. ASSUME NEW x \in Present(d)
      PROVE  d.up[x] \in Present(d) \cup {Top}
  <2>1. x \in Elements /\ x \notin B /\ d.up[x] = cib.up[x]
        /\ cib.up[x] \in Present(cib) \cup {Top}
    BY <1>1, <1>6 DEF Sound
  <2>2. CASE cib.up[x] = Top
    BY <2>1, <2>2
  <2>3. CASE cib.up[x] \in Present(cib)
    <3>1. cib.up[x] \in Elements
      BY <2>3 DEF Present
    <3>2. cib.up[x] \notin B
      <4> SUFFICES ASSUME cib.up[x] \in B
                   PROVE  FALSE
        OBVIOUS
      <4>1. cib.up[cib.up[x]] \in Elements /\ cib.up[cib.up[cib.up[x]]] \in gone
        BY <1>3, <2>1, <3>1
      <4>2. cib.up[cib.up[cib.up[x]]] \in {Top, Absent}
        BY <1>1, <2>1, <3>1, <4>1, Depth
      <4> QED
        BY <1>1, <4>1, <4>2, Kinds
    <3> QED
      BY <1>7, <2>1, <2>3, <3>1, <3>2
  <2> QED
    BY <2>1, <2>2, <2>3
<1>9. ASSUME NEW x \in Present(d) \ (Levels \cup Permissions), NEW y \in d.refs[x]
      PROVE  y \in Present(d)
  <2>1. x \in Elements /\ x \notin B /\ x \in Present(cib) \ (Levels \cup Permissions)
    BY <1>6
  <2>2. y \in cib.refs[x]
    BY <1>2, <2>1
  <2>3. y \in Present(cib) /\ y \in Resources \cup Tags /\ y \in Elements
    BY <1>1, <2>1, <2>2 DEF Sound, Shape, Targets, Present
  <2>4. y \notin gone
    BY <1>4, <2>1
  <2>5. y \notin B
    <3> SUFFICES ASSUME y \in B
                 PROVE  FALSE
      OBVIOUS
    <3>1. CASE y \in Tags
      <4>1. cib.up[y] \in {Top, Absent}
        BY <1>1, <3>1 DEF Shape, Places
      <4> QED
        BY <1>1, <1>3, <2>4, <4>1, Kinds
    <3>2. CASE y \in Resources
      <4>1. cib.up[y] \notin gone
        BY <2>4, <3>2, SearchEnded
      <4>2. cib.up[y] \in Elements /\ cib.up[cib.up[y]] \in gone
        BY <1>3, <2>4, <4>1
      <4>3. cib.up[y] \in Resources
        BY <1>1, <2>3, <3>2, <4>2, Kinds, ParentKind
      <4> QED
        BY <4>1, <4>2, <4>3, SearchEnded
    <3> QED
      BY <2>3, <3>1, <3>2
  <2> QED
    BY <1>7, <2>3, <2>5
<1>10. ASSUME NEW x \in Present(d) \cap Containers
       PROVE  Inner(d, x) # {}
  <2>1. x \in Elements /\ x \notin B /\ x \in Containers \cap Present(cib)
    BY <1>6
  <2>2. PICK y \in Elements : cib.up[y] = x /\ y \notin gone
    BY <1>3, <2>1, SearchEnded
  <2>3. y \notin B
    BY <1>3, <2>1, <2>2
  <2> QED
    BY <1>2, <2>2, <2>3 DEF Inner
<1>11. ASSUME NEW x \in Present(d) \cap (Holders \cup Levels)
       PROVE  d.refs[x] # {}
  BY <1>2, <1>3, <1>6, SearchEnded
<1>12. Sound(d)
  BY <1>8, <1>9, <1>10, <1>11 DEF Sound, Containers
<1> QED
  BY <1>4, <1>5, <1>12 DEF d

-----------------------------------------------------------------------------
(* The commands that edit the document at once.                            *)

\* The shape of a document, element by element.
PlaceOf(e, p) ==
    /\ e \in Tags \cup Levels \cup Plains \cup SetConstraints \cup Ruled
             \cup Permissions \cup Clones \cup Devices => p \in {Top, Absent}
    /\ e \in Primitives => p \in {Top, Absent} \cup Groups \cup Clones
    /\ e \in Groups => p \in {Top, Absent} \cup Clones
    /\ e \in Sets => p \in SetConstraints \cup {Absent}
    /\ e \in Rules => p \in Ruled \cup {Absent}

RefsOf(e, R) ==
    /\ e \notin Permissions => R \subseteq Resources \cup Tags
    /\ e \in Holders \cup Levels => R \subseteq Resources
    /\ e \notin Referring \cup Holders \cup Levels => R = {}

LEMMA ShapeByElement ==
    ASSUME NEW d \in Document
    PROVE  Shape(d) <=> \A e \in Elements : /\ PlaceOf(e, d.up[e]) /\ RefsOf(e, d.refs[e])
                                            /\ d.up[e] = Absent => d.refs[e] = {}
<1>1. Places(d) <=> \A e \in Elements : PlaceOf(e, d.up[e])
  BY DEF Places, PlaceOf, Elements, Resources, Constraints
<1>2. Targets(d) <=> \A e \in Elements : /\ RefsOf(e, d.refs[e])
                                         /\ d.up[e] = Absent => d.refs[e] = {}
  BY Kinds DEF Targets, RefsOf
<1> QED
  BY <1>1, <1>2 DEF Shape

\* The fields of With and Without.
LEMMA WithFields ==
    ASSUME NEW c \in Document, NEW e \in Elements, NEW p \in Elements \cup {Top},
           NEW R \in SUBSET Elements
    PROVE  /\ With(c, e, p, R) \in Document
           /\ \A x \in Elements :
                 /\ With(c, e, p, R).up[x] = IF x = e THEN p ELSE c.up[x]
                 /\ With(c, e, p, R).refs[x] = IF x = e THEN R ELSE c.refs[x]
<1> DEFINE up == [c.up EXCEPT ![e] = p]
           refs == [c.refs EXCEPT ![e] = R]
<1>1. /\ c.up \in [Elements -> Elements \cup {Top, Absent}]
      /\ c.refs \in [Elements -> SUBSET Elements]
  BY DEF Document
<1>2. /\ up \in [Elements -> Elements \cup {Top, Absent}] /\ refs \in [Elements -> SUBSET Elements]
      /\ \A x \in Elements : /\ up[x] = IF x = e THEN p ELSE c.up[x]
                             /\ refs[x] = IF x = e THEN R ELSE c.refs[x]
  BY <1>1
<1>3. With(c, e, p, R) = [up |-> up, refs |-> refs]
  BY DEF With
<1> HIDE DEF up, refs
<1> QED
  BY <1>2, <1>3 DEF Document

LEMMA WithoutFields ==
    ASSUME NEW c \in Document, NEW E
    PROVE  /\ Without(c, E) \in Document
           /\ \A x \in Elements :
                 /\ Without(c, E).up[x] = IF x \in E THEN Absent ELSE c.up[x]
                 /\ Without(c, E).refs[x] = IF x \in E THEN {} ELSE c.refs[x]
<1> DEFINE up == [x \in Elements |-> IF x \in E THEN Absent ELSE c.up[x]]
           refs == [x \in Elements |-> IF x \in E THEN {} ELSE c.refs[x]]
<1>1. /\ c.up \in [Elements -> Elements \cup {Top, Absent}]
      /\ c.refs \in [Elements -> SUBSET Elements]
  BY DEF Document
<1>2. /\ up \in [Elements -> Elements \cup {Top, Absent}] /\ refs \in [Elements -> SUBSET Elements]
      /\ \A x \in Elements : /\ up[x] = IF x \in E THEN Absent ELSE c.up[x]
                             /\ refs[x] = IF x \in E THEN {} ELSE c.refs[x]
  BY <1>1
<1>3. Without(c, E) = [up |-> up, refs |-> refs]
  BY DEF Without
<1> HIDE DEF up, refs
<1> QED
  BY <1>2, <1>3 DEF Document

\* A new element, or one that is moved or changed, is right.
Fits(d, x) ==
    /\ x \in Elements /\ PlaceOf(x, d.up[x]) /\ RefsOf(x, d.refs[x])
    /\ d.up[x] # Absent /\ d.up[x] \in Present(d) \cup {Top}
    /\ x \notin Levels \cup Permissions => d.refs[x] \subseteq Present(d)
    /\ x \in Containers => \E y \in Elements : d.up[y] = x
    /\ x \in Holders \cup Levels => d.refs[x] # {}

\* Elements of N are added, or moved away from the top.
LEMMA Grown ==
    ASSUME NEW c, Shape(c), Sound(c), NEW d \in Document, NEW N,
           \A x \in N : Fits(d, x) /\ c.up[x] \in {Top, Absent},
           \A x \in Elements \ N : d.up[x] = c.up[x] /\ d.refs[x] = c.refs[x]
    PROVE  Shape(d) /\ Sound(d)
<1>1. c \in Document
  BY DEF Shape
<1>2. \A e \in Elements : /\ PlaceOf(e, c.up[e]) /\ RefsOf(e, c.refs[e])
                          /\ c.up[e] = Absent => c.refs[e] = {}
  BY <1>1, ShapeByElement
<1>3. Shape(d)
  <2>1. \A e \in Elements : /\ PlaceOf(e, d.up[e]) /\ RefsOf(e, d.refs[e])
                            /\ d.up[e] = Absent => d.refs[e] = {}
    BY <1>2 DEF Fits
  <2> QED
    BY <2>1, ShapeByElement
<1>4. Present(c) \subseteq Present(d)
  BY DEF Present, Fits
<1>5. ASSUME NEW x \in Present(d)
      PROVE  d.up[x] \in Present(d) \cup {Top}
  <2>1. CASE x \in N
    BY <2>1 DEF Fits
  <2>2. CASE x \notin N
    <3>1. x \in Present(c) /\ d.up[x] = c.up[x]
      BY <2>2 DEF Present
    <3> QED
      BY <1>4, <3>1 DEF Sound
  <2> QED
    BY <2>1, <2>2
<1>6. ASSUME NEW x \in Present(d) \ (Levels \cup Permissions)
      PROVE  d.refs[x] \subseteq Present(d)
  <2>1. CASE x \in N
    BY <2>1 DEF Fits
  <2>2. CASE x \notin N
    <3>1. x \in Present(c) /\ d.refs[x] = c.refs[x]
      BY <2>2 DEF Present
    <3> QED
      BY <1>4, <3>1 DEF Sound
  <2> QED
    BY <2>1, <2>2
<1>7. ASSUME NEW x \in Present(d) \cap Containers
      PROVE  Inner(d, x) # {}
  <2>1. CASE x \in N
    BY <2>1 DEF Fits, Inner
  <2>2. CASE x \notin N
    <3>1. x \in Present(c) /\ x \in Elements
      BY <2>2 DEF Present
    <3>2. PICK y \in Elements : c.up[y] = x
      BY <3>1 DEF Sound, Inner, Containers
    <3>3. y \notin N
      BY <3>1, <3>2, Kinds
    <3> QED
      BY <3>2, <3>3 DEF Inner
  <2> QED
    BY <2>1, <2>2
<1>8. ASSUME NEW x \in Present(d) \cap (Holders \cup Levels)
      PROVE  d.refs[x] # {}
  <2>1. CASE x \in N
    BY <2>1 DEF Fits
  <2>2. CASE x \notin N
    <3>1. x \in Present(c) /\ d.refs[x] = c.refs[x]
      BY <2>2 DEF Present
    <3> QED
      BY <3>1 DEF Sound
  <2> QED
    BY <2>1, <2>2
<1> QED
  BY <1>3, <1>5, <1>6, <1>7, <1>8 DEF Sound, Containers

\* The elements of E are taken away, and some references.
LEMMA Lessened ==
    ASSUME NEW c, Shape(c), Sound(c), NEW d \in Document, NEW E,
           \A x \in Elements \cap E : d.up[x] = Absent /\ d.refs[x] = {},
           \A x \in Elements \ E : /\ d.up[x] = c.up[x] /\ d.refs[x] \subseteq c.refs[x]
                                   /\ c.up[x] \notin E,
           \A x \in Present(c) \ (E \cup Levels \cup Permissions) : d.refs[x] \cap E = {},
           \A x \in (Present(c) \cap Containers) \ E :
              \E y \in Elements : c.up[y] = x /\ y \notin E,
           \A x \in (Present(c) \cap (Holders \cup Levels)) \ E : d.refs[x] # {}
    PROVE  Shape(d) /\ Sound(d)
<1>1. Shape(d)
  <2>1. \A x \in Elements : /\ d.up[x] = c.up[x] \/ d.up[x] = Absent
                            /\ d.refs[x] \subseteq c.refs[x]
                            /\ d.up[x] = Absent => d.refs[x] = {}
    BY DEF Shape, Targets
  <2> QED
    BY <2>1, Shrunk
<1>2. Present(d) = Present(c) \ E
  BY DEF Present
<1>3. \A x \in Present(d) : d.up[x] \in Present(d) \cup {Top}
  <2> SUFFICES ASSUME NEW x \in Present(d)
               PROVE  d.up[x] \in Present(d) \cup {Top}
    OBVIOUS
  <2>1. x \in Elements \ E /\ x \in Present(c)
    BY <1>2 DEF Present
  <2>2. c.up[x] \in Present(c) \cup {Top}
    BY <2>1 DEF Sound
  <2> QED
    BY <1>2, <2>1, <2>2
<1>4. \A x \in Present(d) \ (Levels \cup Permissions) : d.refs[x] \subseteq Present(d)
  <2> SUFFICES ASSUME NEW x \in Present(d) \ (Levels \cup Permissions)
               PROVE  d.refs[x] \subseteq Present(d)
    OBVIOUS
  <2>1. x \in Elements \ E /\ x \in Present(c)
    BY <1>2 DEF Present
  <2>2. c.refs[x] \subseteq Present(c)
    BY <2>1 DEF Sound
  <2> QED
    BY <1>2, <2>1, <2>2
<1>5. \A x \in Present(d) \cap Containers : Inner(d, x) # {}
  BY <1>2 DEF Inner
<1>6. \A x \in Present(d) \cap (Holders \cup Levels) : d.refs[x] # {}
  BY <1>2
<1> QED
  BY <1>1, <1>3, <1>4, <1>5, <1>6 DEF Sound, Containers

\* A document that a command may push.
Good(d) == Shape(d) /\ Sound(d)

\* What is known of the document that a command edits.
LEMMA Edited ==
    ASSUME IInv
    PROVE  cib \in Document /\ Shape(cib) /\ Sound(cib)
BY DEF IInv, DocInv, TypeOK

\* One element is added at the top.
LEMMA OneMore ==
    ASSUME IInv, NEW e \in Elements, cib.up[e] = Absent, NEW R \in SUBSET Elements,
           PlaceOf(e, Top), RefsOf(e, R), e \notin Containers,
           e \notin Levels => R \subseteq Present(cib),
           e \in Holders \cup Levels => R # {}
    PROVE  Good(With(cib, e, Top, R))
<1> DEFINE d == With(cib, e, Top, R)
<1>1. cib \in Document /\ Shape(cib) /\ Sound(cib)
  BY Edited
<1>2. /\ d \in Document
      /\ \A x \in Elements : /\ d.up[x] = IF x = e THEN Top ELSE cib.up[x]
                             /\ d.refs[x] = IF x = e THEN R ELSE cib.refs[x]
  BY <1>1, WithFields
<1> HIDE DEF d
<1>3. Present(cib) \subseteq Present(d)
  BY <1>2, Kinds DEF Present
<1>4. Fits(d, e)
  BY <1>2, <1>3, Kinds DEF Fits
<1>5. Good(d)
  <2> DEFINE N == {e}
  <2>1. \A x \in N : Fits(d, x) /\ cib.up[x] \in {Top, Absent}
    BY <1>4
  <2>2. \A x \in Elements \ N : d.up[x] = cib.up[x] /\ d.refs[x] = cib.refs[x]
    BY <1>2
  <2> HIDE DEF N
  <2> QED
    BY <1>1, <1>2, <2>1, <2>2, Grown DEF Good
<1> QED
  BY <1>5 DEF d

\* d is b with p, which refers to Q, at the top, and e, which refers to R, in p.
IsWithTwo(d, b, e, p, R, Q) ==
    /\ d \in Document
    /\ \A x \in Elements :
          /\ d.up[x] = IF x = e THEN p ELSE IF x = p THEN Top ELSE b.up[x]
          /\ d.refs[x] = IF x = e THEN R ELSE IF x = p THEN Q ELSE b.refs[x]

LEMMA WithTwoFields ==
    ASSUME NEW b \in Document, NEW e \in Elements, NEW p \in Elements, e # p,
           NEW R \in SUBSET Elements, NEW Q \in SUBSET Elements
    PROVE  IsWithTwo(With(With(b, p, Top, Q), e, p, R), b, e, p, R, Q)
<1> DEFINE c == With(b, p, Top, Q)
           d == With(c, e, p, R)
<1>1. Top \in Elements \cup {Top} /\ p \in Elements \cup {Top}
  OBVIOUS
<1>2. /\ c \in Document
      /\ \A x \in Elements : /\ c.up[x] = IF x = p THEN Top ELSE b.up[x]
                             /\ c.refs[x] = IF x = p THEN Q ELSE b.refs[x]
  BY <1>1, WithFields
<1> HIDE DEF c
<1>3. /\ d \in Document
      /\ \A x \in Elements : /\ d.up[x] = IF x = e THEN p ELSE c.up[x]
                             /\ d.refs[x] = IF x = e THEN R ELSE c.refs[x]
  BY <1>1, <1>2, WithFields
<1> HIDE DEF d
<1>4. /\ d \in Document
      /\ \A x \in Elements : /\ d.up[x] = IF x = e THEN p ELSE IF x = p THEN Top ELSE b.up[x]
                             /\ d.refs[x] = IF x = e THEN R ELSE IF x = p THEN Q ELSE b.refs[x]
  BY <1>2, <1>3
<1>5. IsWithTwo(d, b, e, p, R, Q)
  BY <1>4 DEF IsWithTwo
<1> QED
  BY <1>5 DEF c, d

\* e may go into p, which is new.
Joins(e, p, R, Q) ==
    /\ cib.up[e] \in {Top, Absent} /\ cib.up[p] = Absent /\ p \in Containers
    /\ PlaceOf(p, Top) /\ RefsOf(p, Q) /\ PlaceOf(e, p) /\ RefsOf(e, R)
    /\ e \notin Levels \cup Permissions
    /\ Q \subseteq Present(cib) /\ R \subseteq Present(cib)
    /\ e \in Containers => \E y \in Elements : cib.up[y] = e
    /\ e \in Holders => R # {}

\* Elements that are added together: e in p, which is new.
LEMMA TwoMore ==
    ASSUME IInv, NEW e \in Elements, NEW p \in Elements, e # p, NEW R \in SUBSET Elements,
           NEW Q \in SUBSET Elements, Joins(e, p, R, Q)
    PROVE  Good(With(With(cib, p, Top, Q), e, p, R))
<1> DEFINE d == With(With(cib, p, Top, Q), e, p, R)
<1>1. cib \in Document /\ Shape(cib) /\ Sound(cib)
  BY Edited
<1>2. /\ d \in Document
      /\ \A x \in Elements :
            /\ d.up[x] = IF x = e THEN p ELSE IF x = p THEN Top ELSE cib.up[x]
            /\ d.refs[x] = IF x = e THEN R ELSE IF x = p THEN Q ELSE cib.refs[x]
  <2>1. IsWithTwo(d, cib, e, p, R, Q)
    BY <1>1, WithTwoFields
  <2> QED
    BY <2>1 DEF IsWithTwo
<1> HIDE DEF d
<1>3. /\ cib.up[e] \in {Top, Absent} /\ cib.up[p] = Absent /\ p \in Containers
      /\ PlaceOf(p, Top) /\ RefsOf(p, Q) /\ PlaceOf(e, p) /\ RefsOf(e, R)
      /\ e \notin Levels \cup Permissions /\ Q \subseteq Present(cib)
      /\ R \subseteq Present(cib)
      /\ e \in Containers => \E y \in Elements : cib.up[y] = e
      /\ e \in Holders => R # {}
  BY DEF Joins
<1>4. Present(cib) \cup {e, p} \subseteq Present(d)
  BY <1>1, <1>2, <1>3, Kinds DEF Present
<1>5. Fits(d, p)
  BY <1>1, <1>2, <1>3, <1>4, Kinds, Disjoint DEF Fits
<1>6. Fits(d, e)
  <2>1. e \in Containers => \E y \in Elements : d.up[y] = e
    BY <1>1, <1>2, <1>3, Kinds
  <2> QED
    BY <1>1, <1>2, <1>3, <1>4, <2>1, Kinds DEF Fits
<1>7. \A x \in Elements \ {e, p} : d.up[x] = cib.up[x] /\ d.refs[x] = cib.refs[x]
  BY <1>2
<1>8. Good(d)
  <2> DEFINE N == {e, p}
  <2>1. \A x \in N : Fits(d, x) /\ cib.up[x] \in {Top, Absent}
    BY <1>3, <1>5, <1>6
  <2>2. \A x \in Elements \ N : d.up[x] = cib.up[x] /\ d.refs[x] = cib.refs[x]
    BY <1>7
  <2> HIDE DEF N
  <2> QED
    BY <1>1, <1>2, <2>1, <2>2, Grown DEF Good
<1> QED
  BY <1>8 DEF d

\* What the class of an element says of its place and its references.
LEMMA Fitting ==
    /\ \A e \in Primitives \cup Devices \cup Groups \cup Clones \cup SetConstraints :
          e \in Elements /\ PlaceOf(e, Top) /\ RefsOf(e, {})
    /\ \A e \in Primitives, p \in Groups \cup Clones : PlaceOf(e, p)
    /\ \A e \in Groups, p \in Clones : PlaceOf(e, p)
    /\ \A e \in Plains \cup Ruled, R \in SUBSET (Resources \cup Tags) :
          e \in Elements /\ PlaceOf(e, Top) /\ RefsOf(e, R)
    /\ \A e \in Sets, p \in SetConstraints, R \in SUBSET Resources :
          e \in Elements /\ PlaceOf(e, p) /\ RefsOf(e, R)
    /\ \A e \in Rules, p \in Ruled : e \in Elements /\ PlaceOf(e, p) /\ RefsOf(e, {})
    /\ \A e \in Tags \cup Levels, R \in SUBSET Resources :
          e \in Elements /\ PlaceOf(e, Top) /\ RefsOf(e, R)
    /\ \A e \in Permissions : \A R : e \in Elements /\ PlaceOf(e, Top) /\ RefsOf(e, R)
<1>1. \A e \in Primitives \cup Devices \cup Groups \cup Clones \cup SetConstraints :
          e \in Elements /\ PlaceOf(e, Top) /\ RefsOf(e, {})
  <2>1. \A e \in Primitives \cup Devices \cup Groups \cup Clones \cup SetConstraints :
           e \in Elements /\ e \notin Sets \cup Rules
    BY Disjoint, Kinds DEF Resources, Containers, Holders
  <2> QED
    BY <2>1 DEF PlaceOf, RefsOf
<1>2. \A e \in Primitives, p \in Groups \cup Clones : PlaceOf(e, p)
  BY Disjoint DEF PlaceOf, Resources, Constraints, Containers
<1>3. \A e \in Groups, p \in Clones : PlaceOf(e, p)
  BY Disjoint DEF PlaceOf, Resources, Constraints, Containers
<1>4. \A e \in Plains \cup Ruled, R \in SUBSET (Resources \cup Tags) :
          e \in Elements /\ PlaceOf(e, Top) /\ RefsOf(e, R)
  <2>1. \A e \in Plains \cup Ruled : /\ e \in Elements /\ e \in Referring
                                      /\ e \notin Sets \cup Rules \cup Holders \cup Levels
    BY Disjoint, Kinds DEF Constraints, Containers, Holders, Elements, Referring
  <2> QED
    BY <2>1 DEF PlaceOf, RefsOf
<1>5. \A e \in Sets, p \in SetConstraints, R \in SUBSET Resources :
          e \in Elements /\ PlaceOf(e, p) /\ RefsOf(e, R)
  <2>1. \A e \in Sets : /\ e \in Elements /\ e \in Holders
                        /\ e \notin Rules \cup Tags \cup Levels \cup Constraints \cup Resources
                                      \cup Permissions
    BY Disjoint, Kinds DEF Holders
  <2> QED
    BY <2>1 DEF PlaceOf, RefsOf, Constraints, Resources
<1>6. \A e \in Rules, p \in Ruled : e \in Elements /\ PlaceOf(e, p) /\ RefsOf(e, {})
  <2>1. \A e \in Rules : /\ e \in Elements
                         /\ e \notin Permissions \cup Holders \cup Levels \cup Containers
                                       \cup Resources \cup Plains
    BY Disjoint, Kinds
  <2> QED
    BY <2>1 DEF PlaceOf, RefsOf, Containers, Resources, Holders
<1>7. \A e \in Tags \cup Levels, R \in SUBSET Resources :
          e \in Elements /\ PlaceOf(e, Top) /\ RefsOf(e, R)
  <2>1. \A e \in Tags \cup Levels : /\ e \in Elements /\ e \in Holders \cup Levels
                                    /\ e \notin Sets \cup Rules
    BY Disjoint, Kinds DEF Holders
  <2> QED
    BY <2>1 DEF PlaceOf, RefsOf
<1>8. \A e \in Permissions : \A R : e \in Elements /\ PlaceOf(e, Top) /\ RefsOf(e, R)
  <2>1. \A e \in Permissions : /\ e \in Elements /\ e \in Referring
                               /\ e \notin Sets \cup Rules \cup Holders \cup Levels
                                           \cup Primitives \cup Groups
    BY Disjoint, Kinds DEF Holders, Referring, Resources
  <2> QED
    BY <2>1 DEF PlaceOf, RefsOf
<1> QED
  BY <1>1, <1>2, <1>3, <1>4, <1>5, <1>6, <1>7, <1>8

\* The same after a step.
LEMMA IdleWorkNext == (DocInv /\ Idle => WorkInv)'
<1>1. DocInv /\ Idle => WorkInv
  BY IdleWork
<1> QED
  BY <1>1, PTL

\* What every step is to keep.
Kept ==
    /\ IInv'
    /\ Single(cib) /\ OnlyRegroupingBreaks => OnlyRegroupingBreaks'

\* A command that pushes a document of the right shape.
LEMMA CommandStep ==
    ASSUME IInv, NEW name, NEW d, Command(name, d), Shape(d),
           Sound(d) \/ name \in Names, Single(cib) => Sound(d) \/ MayBreak(name)
    PROVE  Kept
<1>1. /\ asked = {} /\ UNCHANGED <<asked, wip, todo, refTodo, gone, lost>>
      /\ cib' = IF Sound(d) /\ AclSound(d) THEN d ELSE cib
      /\ rejected' = CASE Sound(d) /\ AclSound(d) -> "no"
                       [] Sound(d) -> "acl"
                       [] OTHER -> name
  BY DEF Command, Push, removal
<1>2. \/ rejected' \in {"no", "acl"}
      \/ rejected' = name /\ ~Sound(d) /\ cib' = cib
  <2>1. CASE Sound(d) /\ AclSound(d)
    BY <1>1, <2>1
  <2>2. CASE Sound(d) /\ ~AclSound(d)
    BY <1>1, <2>2
  <2>3. CASE ~Sound(d)
    BY <1>1, <2>3
  <2> QED
    BY <2>1, <2>2, <2>3
<1>3. DocInv'
  <2>1. CASE Sound(d) /\ AclSound(d)
    BY <1>1, <2>1 DEF DocInv
  <2>2. CASE ~(Sound(d) /\ AclSound(d))
    <3>1. cib' = cib
      BY <1>1, <2>2
    <3> QED
      BY <3>1 DEF IInv, DocInv
  <2> QED
    BY <2>1, <2>2
<1>4. TypeOK'
  <2>1. cib' \in Document
    BY <1>3 DEF DocInv, Shape
  <2>2. rejected' \in {"no", "acl"} \cup Names
    BY <1>2
  <2>3. UNCHANGED <<asked, wip, todo, refTodo, gone, lost>>
    BY <1>1
  <2> QED
    BY <2>1, <2>2, <2>3 DEF IInv, TypeOK
<1>5. CopyInv' /\ Idle'
  BY <1>1 DEF CopyInv, IInv, WorkInv, Idle
<1>6. WorkInv'
  BY <1>3, <1>5, IdleWorkNext
<1>7. Single(cib) => OnlyRegroupingBreaks'
  <2> SUFFICES ASSUME Single(cib), rejected' = name, ~Sound(d), cib' = cib
               PROVE  MayBreak(name)'
    BY <1>2 DEF OnlyRegroupingBreaks
  <2> QED
    BY DEF MayBreak, Named, Inner, Present
<1> QED
  BY <1>3, <1>4, <1>5, <1>6, <1>7 DEF Kept, IInv

\* The usual case.
LEMMA GoodStep ==
    ASSUME IInv, NEW name, NEW d, Command(name, d), Good(d)
    PROVE  Kept
BY CommandStep DEF Good

LEMMA CreateStep ==
    ASSUME IInv, NEW p \in Primitives \cup Devices, Create(p)
    PROVE  Kept
<1>1. cib.up[p] = Absent /\ Command("create", With(cib, p, Top, {}))
  BY DEF Create
<1>2. /\ p \in Elements /\ PlaceOf(p, Top) /\ RefsOf(p, {}) /\ {} \in SUBSET Elements
      /\ p \notin Containers /\ p \notin Levels /\ p \notin Holders
  BY Fitting, Disjoint DEF Resources
<1>3. Good(With(cib, p, Top, {}))
  BY <1>1, <1>2, OneMore
<1> QED
  BY <1>1, <1>3, GoodStep

LEMMA CreateAsCloneStep ==
    ASSUME IInv, NEW p \in Primitives, NEW c \in Clones, CreateAsClone(p, c)
    PROVE  Kept
<1>1. /\ cib.up[p] = Absent /\ cib.up[c] = Absent
      /\ Command("create", With(With(cib, c, Top, {}), p, c, {}))
  BY DEF CreateAsClone
<1>2. /\ p \in Elements /\ c \in Elements /\ {} \in SUBSET Elements /\ p # c
      /\ PlaceOf(c, Top) /\ RefsOf(c, {}) /\ PlaceOf(p, c) /\ RefsOf(p, {})
      /\ p \notin Levels \cup Permissions \cup Containers \cup Holders /\ c \in Containers
  BY Fitting, Disjoint DEF Resources, Containers
<1>3. Joins(p, c, {}, {})
  BY <1>1, <1>2 DEF Joins
<1>4. Good(With(With(cib, c, Top, {}), p, c, {}))
  BY <1>2, <1>3, TwoMore
<1> QED
  BY <1>1, <1>4, GoodStep

\* The group exists, or is new.
LEMMA CreateInGroupStep ==
    ASSUME IInv, NEW p \in Primitives, NEW g \in Groups, CreateInGroup(p, g)
    PROVE  Kept
<1>1. cib.up[p] = Absent
  BY DEF CreateInGroup
<1>2. /\ p \in Elements /\ g \in Elements /\ {} \in SUBSET Elements /\ p # g
      /\ PlaceOf(g, Top) /\ RefsOf(g, {}) /\ PlaceOf(p, g) /\ RefsOf(p, {})
      /\ p \notin Levels \cup Permissions \cup Containers \cup Holders /\ g \in Containers
  BY Fitting, Disjoint DEF Resources, Containers
<1>3. CASE cib.up[g] = Absent
  <2>1. Joins(p, g, {}, {})
    BY <1>1, <1>2, <1>3 DEF Joins
  <2>2. Good(With(With(cib, g, Top, {}), p, g, {}))
    BY <1>2, <2>1, TwoMore
  <2>3. Command("create", With(With(cib, g, Top, {}), p, g, {}))
    BY <1>3 DEF CreateInGroup
  <2> QED
    BY <2>2, <2>3, GoodStep
<1>4. CASE cib.up[g] # Absent
  <2> DEFINE d == With(cib, p, g, {})
  <2>1. Command("create", d)
    BY <1>4 DEF CreateInGroup
  <2>2. cib \in Document /\ Shape(cib) /\ Sound(cib) /\ g \in Elements \cup {Top}
    BY <1>2, Edited
  <2>3. /\ d \in Document
        /\ \A x \in Elements : /\ d.up[x] = IF x = p THEN g ELSE cib.up[x]
                               /\ d.refs[x] = IF x = p THEN {} ELSE cib.refs[x]
    BY <1>2, <2>2, WithFields
  <2> HIDE DEF d
  <2>4. Fits(d, p)
    <3>1. d.up[p] = g /\ d.refs[p] = {} /\ g # Absent /\ g \in Present(d)
      BY <1>2, <1>4, <2>3, Kinds DEF Present
    <3> QED
      BY <1>2, <3>1 DEF Fits
  <2>5. Good(d)
    <3> DEFINE N == {p}
    <3>1. \A x \in N : Fits(d, x) /\ cib.up[x] \in {Top, Absent}
      BY <1>1, <2>4
    <3>2. \A x \in Elements \ N : d.up[x] = cib.up[x] /\ d.refs[x] = cib.refs[x]
      BY <2>3
    <3> HIDE DEF N
    <3> QED
      BY <2>2, <2>3, <3>1, <3>2, Grown DEF Good
  <2> QED
    BY <2>1, <2>5, GoodStep
<1> QED
  BY <1>3, <1>4

LEMMA CreatePlainStep ==
    ASSUME IInv, NEW k \in Plains, NEW R \in SUBSET Now(Resources), CreatePlain(k, R)
    PROVE  Kept
<1>1. cib.up[k] = Absent /\ R \subseteq Present(cib) /\ Command("constraint", With(cib, k, Top, R))
  BY DEF CreatePlain
<1>2. /\ k \in Elements /\ PlaceOf(k, Top) /\ RefsOf(k, R) /\ R \in SUBSET Elements
  BY Fitting, Kinds DEF Now
<1>3. k \notin Containers /\ k \notin Holders \cup Levels
  BY Disjoint DEF Containers, Resources, Constraints
<1>4. Good(With(cib, k, Top, R))
  BY <1>1, <1>2, <1>3, OneMore
<1> QED
  BY <1>1, <1>4, GoodStep

LEMMA CibPushStep ==
    ASSUME IInv, NEW k \in Plains, NEW t \in Tags, CibPush(k, t)
    PROVE  Kept
<1>1. cib.up[k] = Absent /\ cib.up[t] # Absent /\ Command("cib_push", With(cib, k, Top, {t}))
  BY DEF CibPush
<1>2. {t} \in SUBSET (Resources \cup Tags) /\ {t} \in SUBSET Elements /\ {t} \subseteq Present(cib)
  BY <1>1, Kinds DEF Present
<1>3. k \in Elements /\ PlaceOf(k, Top) /\ RefsOf(k, {t})
  BY <1>2, Fitting
<1>4. k \notin Containers /\ k \notin Holders \cup Levels
  BY Disjoint DEF Containers, Resources, Constraints
<1>5. Good(With(cib, k, Top, {t}))
  BY <1>1, <1>2, <1>3, <1>4, OneMore
<1> QED
  BY <1>1, <1>5, GoodStep

LEMMA CreateWithRuleStep ==
    ASSUME IInv, NEW k \in Ruled, NEW r \in Rules, NEW x \in Now(Resources),
           CreateWithRule(k, r, x)
    PROVE  Kept
<1>1. /\ cib.up[k] = Absent /\ cib.up[r] = Absent /\ x \in Present(cib)
      /\ Command("constraint", With(With(cib, k, Top, {x}), r, k, {}))
  BY DEF CreateWithRule
<1>2. {x} \in SUBSET (Resources \cup Tags) /\ {x} \in SUBSET Elements /\ {} \in SUBSET Elements
  BY <1>1, Kinds DEF Now
<1>3. /\ r \in Elements /\ k \in Elements /\ PlaceOf(k, Top) /\ RefsOf(k, {x})
      /\ PlaceOf(r, k) /\ RefsOf(r, {})
  BY <1>2, Fitting
<1>4. /\ k \in Containers /\ r # k
      /\ r \notin Levels \cup Permissions \cup Containers \cup Holders
  BY Disjoint DEF Containers
<1>5. Joins(r, k, {}, {x})
  BY <1>1, <1>3, <1>4 DEF Joins
<1>6. Good(With(With(cib, k, Top, {x}), r, k, {}))
  BY <1>2, <1>3, <1>4, <1>5, TwoMore
<1> QED
  BY <1>1, <1>6, GoodStep

LEMMA TagCreateStep ==
    ASSUME IInv, NEW t \in Tags, NEW R \in Some(Now(Resources)), TagCreate(t, R)
    PROVE  Kept
<1>1. cib.up[t] = Absent /\ R \subseteq Present(cib) /\ Command("tag_create", With(cib, t, Top, R))
  BY DEF TagCreate
<1>2. R \in SUBSET Resources /\ R \in SUBSET Elements /\ R # {}
  BY Kinds DEF Some, Now
<1>3. t \in Elements /\ PlaceOf(t, Top) /\ RefsOf(t, R)
  BY <1>2, Fitting
<1>4. t \notin Containers
  BY Disjoint DEF Holders
<1>5. Good(With(cib, t, Top, R))
  BY <1>1, <1>2, <1>3, <1>4, OneMore
<1> QED
  BY <1>1, <1>5, GoodStep

LEMMA AddLevelStep ==
    ASSUME IInv, NEW l \in Levels, NEW D \in Some(Devices), AddLevel(l, D)
    PROVE  Kept
<1>1. cib.up[l] = Absent /\ Command("add_level", With(cib, l, Top, D))
  BY DEF AddLevel
<1>2. D \in SUBSET Resources /\ D \in SUBSET Elements /\ D # {}
  BY Kinds DEF Some, Resources
<1>3. l \in Elements /\ PlaceOf(l, Top) /\ RefsOf(l, D)
  BY <1>2, Fitting
<1>4. l \notin Containers
  BY Disjoint
<1>5. Good(With(cib, l, Top, D))
  BY <1>1, <1>2, <1>3, <1>4, OneMore
<1> QED
  BY <1>1, <1>5, GoodStep

LEMMA AddPermissionStep ==
    ASSUME IInv, NEW a \in Permissions, NEW e \in Elements, AddPermission(a, e)
    PROVE  Kept
<1>1. cib.up[a] = Absent /\ e \in Present(cib) /\ Command("add_permission", With(cib, a, Top, {e}))
  BY DEF AddPermission
<1>2. {e} \in SUBSET Elements /\ {e} \subseteq Present(cib)
  BY <1>1
<1>3. a \in Elements /\ PlaceOf(a, Top) /\ RefsOf(a, {e})
  BY Fitting
<1>4. a \notin Containers /\ a \notin Holders \cup Levels
  BY Disjoint
<1>5. Good(With(cib, a, Top, {e}))
  BY <1>1, <1>2, <1>3, <1>4, OneMore
<1> QED
  BY <1>1, <1>5, GoodStep

\* A tag is never left without references.
LEMMA TagUpdateStep ==
    ASSUME IInv, NEW t \in Tags, NEW add \in SUBSET Now(Resources), NEW adjacent,
           NEW remove, TagUpdate(t, add, remove, adjacent)
    PROVE  Kept
<1> DEFINE R == (cib.refs[t] \cup add) \ remove
           d == With(cib, t, Top, R)
<1>1. cib \in Document /\ Shape(cib) /\ Sound(cib) /\ t \in Elements
  BY Edited, Kinds
<1>2. /\ cib.up[t] # Absent /\ add \cap remove = {} /\ add \subseteq Present(cib)
      /\ add = {} => cib.refs[t] \ remove # {}
  BY DEF TagUpdate, TagUpdateAllowed
<1>3. t \in Present(cib) /\ cib.up[t] = Top /\ t \in Holders
  BY <1>1, <1>2 DEF Present, Shape, Places, Holders
<1>4. /\ R # {} /\ cib.refs[t] \subseteq Present(cib) /\ cib.refs[t] \subseteq Resources
  <2>1. t \notin Levels \cup Permissions
    BY <1>3, Disjoint
  <2> QED
    BY <1>1, <1>2, <1>3, <2>1 DEF Sound, Shape, Targets
<1>5. R \subseteq Present(cib) /\ R \in SUBSET Resources /\ R \in SUBSET Elements
  BY <1>4, Kinds DEF Now
<1>6. Command("tag_update", d)
  BY <1>4 DEF TagUpdate
<1> HIDE DEF R
<1>7. /\ d \in Document
      /\ \A x \in Elements : /\ d.up[x] = IF x = t THEN Top ELSE cib.up[x]
                             /\ d.refs[x] = IF x = t THEN R ELSE cib.refs[x]
  BY <1>1, <1>5, WithFields
<1> HIDE DEF d
<1>8. Present(cib) \subseteq Present(d)
  BY <1>7, Kinds DEF Present
<1>9. Fits(d, t)
  <2>1. PlaceOf(t, Top) /\ RefsOf(t, R)
    BY <1>5, Fitting
  <2>2. t \notin Containers
    BY <1>3, Disjoint
  <2> QED
    BY <1>1, <1>4, <1>5, <1>7, <1>8, <2>1, <2>2, Kinds DEF Fits
<1>10. Good(d)
  <2> DEFINE N == {t}
  <2>1. \A x \in N : Fits(d, x) /\ cib.up[x] \in {Top, Absent}
    BY <1>3, <1>9
  <2>2. \A x \in Elements \ N : d.up[x] = cib.up[x] /\ d.refs[x] = cib.refs[x]
    BY <1>7
  <2> HIDE DEF N
  <2> QED
    BY <1>1, <1>7, <2>1, <2>2, Grown DEF Good
<1> QED
  BY <1>6, <1>10, GoodStep

\* One set or two.
LEMMA CreateWithSetStep ==
    ASSUME IInv, NEW k \in SetConstraints, NEW s \in Sets, NEW s2 \in Sets,
           NEW R \in Some(Now(Resources)), NEW R2 \in Some(Now(Resources)),
           CreateWithSet(k, s, R, s2, R2)
    PROVE  Kept
<1> DEFINE one == With(With(cib, k, Top, {}), s, k, R)
<1>1. /\ cib.up[k] = Absent /\ cib.up[s] = Absent /\ cib.up[s2] = Absent
      /\ R \subseteq Present(cib) /\ R2 \subseteq Present(cib)
      /\ Command("constraint", IF s = s2 THEN one ELSE With(one, s2, k, R2))
  BY DEF CreateWithSet
<1>2. /\ R \in SUBSET Resources /\ R # {} /\ R2 \in SUBSET Resources /\ R2 # {}
      /\ R \in SUBSET Elements /\ R2 \in SUBSET Elements /\ {} \in SUBSET Elements
  BY Kinds DEF Some, Now
<1>3. /\ k \in Elements /\ PlaceOf(k, Top) /\ RefsOf(k, {})
      /\ s \in Elements /\ PlaceOf(s, k) /\ RefsOf(s, R)
      /\ s2 \in Elements /\ PlaceOf(s2, k) /\ RefsOf(s2, R2)
  BY <1>2, Fitting
<1>4. /\ k \in Containers /\ k \notin Levels \cup Permissions \cup Holders
      /\ s \in Holders /\ s \notin Levels \cup Permissions \cup Containers
      /\ s2 \in Holders /\ s2 \notin Levels \cup Permissions \cup Containers
      /\ s # k /\ s2 # k
  BY Disjoint DEF Holders, Containers, Constraints
<1>5. CASE s = s2
  <2>1. Joins(s, k, R, {})
    BY <1>1, <1>2, <1>3, <1>4 DEF Joins
  <2>2. Good(one)
    BY <1>2, <1>3, <1>4, <2>1, TwoMore
  <2>3. Command("constraint", one)
    BY <1>1, <1>5
  <2> QED
    BY <2>2, <2>3, GoodStep
<1>6. CASE s # s2
  <2> DEFINE d == With(one, s2, k, R2)
  <2>1. cib \in Document /\ Shape(cib) /\ Sound(cib) /\ k \in Elements \cup {Top}
    BY <1>3, Edited
  <2>2. Command("constraint", d)
    BY <1>1, <1>6
  <2>3. IsWithTwo(one, cib, s, k, R, {})
    BY <1>2, <1>3, <1>4, <2>1, WithTwoFields
  <2> HIDE DEF one
  <2>4. one \in Document
    BY <2>3 DEF IsWithTwo
  <2>5. /\ d \in Document
        /\ \A x \in Elements : /\ d.up[x] = IF x = s2 THEN k ELSE one.up[x]
                               /\ d.refs[x] = IF x = s2 THEN R2 ELSE one.refs[x]
    BY <1>2, <1>3, <2>1, <2>4, WithFields
  <2> HIDE DEF d
  <2>6. /\ d.up[k] = Top /\ d.refs[k] = {} /\ d.up[s] = k /\ d.refs[s] = R
        /\ d.up[s2] = k /\ d.refs[s2] = R2
        /\ \A x \in Elements \ {k, s, s2} : d.up[x] = cib.up[x] /\ d.refs[x] = cib.refs[x]
    BY <1>3, <1>4, <1>6, <2>3, <2>5 DEF IsWithTwo
  <2>7. Present(cib) \cup {k} \subseteq Present(d) /\ k # Absent
    BY <1>1, <1>3, <2>6, Kinds DEF Present
  <2>8. Fits(d, k) /\ Fits(d, s) /\ Fits(d, s2)
    BY <1>1, <1>2, <1>3, <1>4, <2>6, <2>7, Kinds DEF Fits
  <2>9. Good(d)
    <3> DEFINE N == {k, s, s2}
    <3>1. \A x \in N : Fits(d, x) /\ cib.up[x] \in {Top, Absent}
      BY <1>1, <2>8
    <3>2. \A x \in Elements \ N : d.up[x] = cib.up[x] /\ d.refs[x] = cib.refs[x]
      BY <2>6
    <3> HIDE DEF N
    <3> QED
      BY <2>1, <2>5, <3>1, <3>2, Grown DEF Good
  <2> QED
    BY <2>2, <2>9, GoodStep
<1> QED
  BY <1>5, <1>6

\* Elements that nothing but a permission refers to, and that hold nothing,
\* may be taken out.
LEMMA WithoutGood ==
    ASSUME IInv, NEW E \in SUBSET (Tags \cup Levels \cup Permissions),
           \A x \in Plains \cup Ruled : cib.refs[x] \cap E = {}
    PROVE  Good(Without(cib, E))
<1> DEFINE d == Without(cib, E)
<1>1. cib \in Document /\ Shape(cib) /\ Sound(cib) /\ E \subseteq Elements
  BY Edited, Kinds
<1>2. /\ d \in Document
      /\ \A x \in Elements : /\ d.up[x] = IF x \in E THEN Absent ELSE cib.up[x]
                             /\ d.refs[x] = IF x \in E THEN {} ELSE cib.refs[x]
  BY <1>1, WithoutFields
<1> HIDE DEF d
<1>3. \A x \in Elements : cib.up[x] \notin E
  BY <1>1, ParentKind, Disjoint, Kinds DEF Holders
<1>4. \A x \in Present(cib) \ (E \cup Levels \cup Permissions) : d.refs[x] \cap E = {}
  <2> SUFFICES ASSUME NEW x \in Present(cib) \ (E \cup Levels \cup Permissions),
                      NEW y \in d.refs[x], y \in E
               PROVE  FALSE
    OBVIOUS
  <2>1. x \in Elements /\ y \in cib.refs[x]
    BY <1>2 DEF Present
  <2>2. x \notin Plains \cup Ruled
    BY <2>1
  <2>3. x \notin Referring
    BY <2>2 DEF Referring
  <2>4. x \in Holders
    BY <1>1, <2>1, <2>3 DEF Shape, Targets
  <2>5. y \in Resources
    BY <1>1, <2>1, <2>4 DEF Shape, Targets
  <2> QED
    BY <2>5, Disjoint
<1>5. \A x \in (Present(cib) \cap Containers) \ E :
         \E y \in Elements : cib.up[y] = x /\ y \notin E
  <2> SUFFICES ASSUME NEW x \in Present(cib) \cap Containers
               PROVE  \E y \in Elements : cib.up[y] = x /\ y \notin E
    OBVIOUS
  <2>1. PICK y \in Elements : cib.up[y] = x
    BY <1>1 DEF Sound, Inner, Containers
  <2>2. y \notin E
    <3>1. cib.up[y] \notin {Top, Absent}
      BY <2>1, Kinds
    <3> QED
      BY <1>1, <3>1 DEF Shape, Places
  <2> QED
    BY <2>1, <2>2
<1>6. \A x \in (Present(cib) \cap (Holders \cup Levels)) \ E : d.refs[x] # {}
  BY <1>1, <1>2, Kinds DEF Sound
<1>7. /\ \A x \in Elements \cap E : d.up[x] = Absent /\ d.refs[x] = {}
      /\ \A x \in Elements \ E : /\ d.up[x] = cib.up[x] /\ d.refs[x] \subseteq cib.refs[x]
                                 /\ cib.up[x] \notin E
  BY <1>2, <1>3
<1>8. Good(d)
  BY <1>1, <1>2, <1>4, <1>5, <1>6, <1>7, Lessened DEF Good
<1> QED
  BY <1>8 DEF d

LEMMA TagRemoveStep ==
    ASSUME IInv, NEW T \in SUBSET Tags, TagRemove(T)
    PROVE  Kept
<1>1. Command("tag_remove", Without(cib, T)) /\ \A t \in T : TagRemovable(t)
  BY DEF TagRemove
<1>2. \A x \in Plains \cup Ruled : cib.refs[x] \cap T = {}
  BY <1>1 DEF TagRemovable
<1>3. Good(Without(cib, T))
  BY <1>2, WithoutGood
<1> QED
  BY <1>1, <1>3, GoodStep

LEMMA RemoveLevelsStep ==
    ASSUME IInv, NEW L \in SUBSET Levels, RemoveLevels(L)
    PROVE  Kept
<1>1. Command("remove_levels", Without(cib, L))
  BY DEF RemoveLevels
<1>2. \A x \in Plains \cup Ruled : cib.refs[x] \cap L = {}
  <2>1. \A x \in Plains \cup Ruled : cib.refs[x] \subseteq Resources \cup Tags
    <3>1. Shape(cib)
      BY Edited
    <3>2. \A x \in Plains \cup Ruled : x \in Elements \ Permissions
      BY Disjoint, Kinds DEF Constraints
    <3> QED
      BY <3>1, <3>2 DEF Shape, Targets
  <2>2. \A y \in Resources \cup Tags : y \notin Levels
    BY Disjoint DEF Holders
  <2> QED
    BY <2>1, <2>2
<1>3. Good(Without(cib, L))
  BY <1>2, WithoutGood
<1> QED
  BY <1>1, <1>3, GoodStep

LEMMA RemovePermissionStep ==
    ASSUME IInv, NEW a \in Permissions, RemovePermission(a)
    PROVE  Kept
<1>1. Command("remove_permission", Without(cib, {a}))
  BY DEF RemovePermission
<1>2. \A x \in Plains \cup Ruled : cib.refs[x] \cap {a} = {}
  <2>1. \A x \in Plains \cup Ruled : cib.refs[x] \subseteq Resources \cup Tags
    <3>1. Shape(cib)
      BY Edited
    <3>2. \A x \in Plains \cup Ruled : x \in Elements \ Permissions
      BY Disjoint, Kinds DEF Constraints
    <3> QED
      BY <3>1, <3>2 DEF Shape, Targets
  <2>2. a \notin Resources \cup Tags
    BY Disjoint
  <2> QED
    BY <2>1, <2>2
<1>3. {a} \in SUBSET (Tags \cup Levels \cup Permissions)
  OBVIOUS
<1>4. Good(Without(cib, {a}))
  BY <1>2, <1>3, WithoutGood
<1> QED
  BY <1>1, <1>4, GoodStep

-----------------------------------------------------------------------------
(* The commands that move resources.                                       *)

\* d is b without the elements of E and with the resources of M put elsewhere;
\* other elements may refer to something else, but to nothing only if they did.
Regroups(b, d, E, M) ==
    /\ d \in Document /\ M \subseteq Resources
    /\ \A x \in Elements \cap E : d.up[x] = Absent /\ d.refs[x] = {}
    /\ \A x \in M : /\ PlaceOf(x, d.up[x]) /\ d.up[x] # Absent /\ d.refs[x] = {}
    /\ \A x \in Elements \ (E \cup M) : /\ d.up[x] = b.up[x] /\ RefsOf(x, d.refs[x])
                                        /\ d.refs[x] = {} <=> b.refs[x] = {}

\* The places this leaves are right.
Placed(b, d, E, M) ==
    /\ \A x \in M : d.up[x] \in Present(d) \cup {Top}
    /\ \A x \in Elements \ (E \cup M) : b.up[x] \notin E
    /\ \A x \in Present(d) \cap Containers : \E y \in Elements : d.up[y] = x

\* And nothing refers to what was taken away.
Resolved(d) == \A x \in Present(d) \ (Levels \cup Permissions) : d.refs[x] \subseteq Present(d)

LEMMA RegroupedShape ==
    ASSUME NEW b, Shape(b), NEW d, NEW E, NEW M, Regroups(b, d, E, M)
    PROVE  Shape(d)
<1>1. d \in Document /\ b \in Document
  BY DEF Regroups, Shape
<1>2. \A e \in Elements : /\ PlaceOf(e, b.up[e]) /\ RefsOf(e, b.refs[e])
                          /\ b.up[e] = Absent => b.refs[e] = {}
  BY <1>1, ShapeByElement
<1>3. ASSUME NEW e \in Elements
      PROVE  /\ PlaceOf(e, d.up[e]) /\ RefsOf(e, d.refs[e])
             /\ d.up[e] = Absent => d.refs[e] = {}
  <2>1. CASE e \in E
    <3>1. d.up[e] = Absent /\ d.refs[e] = {}
      BY <2>1 DEF Regroups
    <3> QED
      BY <3>1 DEF PlaceOf, RefsOf
  <2>2. CASE e \in M
    <3>1. PlaceOf(e, d.up[e]) /\ d.up[e] # Absent /\ d.refs[e] = {}
      BY <2>2 DEF Regroups
    <3> QED
      BY <3>1 DEF RefsOf
  <2>3. CASE e \notin E \cup M
    BY <1>2, <2>3 DEF Regroups
  <2> QED
    BY <2>1, <2>2, <2>3
<1> QED
  BY <1>1, <1>3, ShapeByElement

LEMMA RegroupedSound ==
    ASSUME NEW b, Shape(b), Sound(b), NEW d, NEW E, NEW M, Regroups(b, d, E, M),
           Placed(b, d, E, M), Resolved(d)
    PROVE  Sound(d)
<1>1. \A x \in Present(d) : d.up[x] \in Present(d) \cup {Top}
  <2> SUFFICES ASSUME NEW x \in Present(d), x \notin M
               PROVE  d.up[x] \in Present(d) \cup {Top}
    BY DEF Placed
  <2>1. x \in Elements \ (E \cup M) /\ d.up[x] # Absent
    BY DEF Present, Regroups
  <2>2. d.up[x] = b.up[x] /\ b.up[x] \notin E
    BY <2>1 DEF Regroups, Placed
  <2>3. b.up[x] \in Present(b) \cup {Top}
    BY <2>1, <2>2 DEF Sound, Present
  <2>4. ASSUME b.up[x] \in Present(b)
        PROVE  b.up[x] \in Present(d)
    BY <2>2, <2>4 DEF Present, Regroups
  <2> QED
    BY <2>2, <2>3, <2>4
<1>2. \A x \in Present(d) \cap (Holders \cup Levels) : d.refs[x] # {}
  <2> SUFFICES ASSUME NEW x \in Present(d) \cap (Holders \cup Levels)
               PROVE  d.refs[x] # {}
    OBVIOUS
  <2>1. x \in Elements \ (E \cup M) /\ d.up[x] # Absent
    BY Disjoint DEF Present, Regroups
  <2>2. b.refs[x] # {}
    BY <2>1 DEF Regroups, Sound, Present
  <2> QED
    BY <2>1, <2>2 DEF Regroups
<1>3. \A x \in Present(d) \cap Containers : Inner(d, x) # {}
  BY DEF Placed, Inner
<1> QED
  BY <1>1, <1>2, <1>3 DEF Sound, Resolved, Containers

\* Of what kind the elements in a container are.
LEMMA MemberKind ==
    ASSUME NEW d, Shape(d), NEW y \in Elements
    PROVE  /\ d.up[y] \in Groups => y \in Primitives
           /\ d.up[y] \in Clones => y \in Primitives \cup Groups
           /\ d.up[y] \in SetConstraints => y \in Sets
           /\ d.up[y] \in Ruled => y \in Rules
<1>1. y \in Primitives \cup Devices \cup Groups \cup Clones \cup Tags \cup Levels \cup Plains
          \cup SetConstraints \cup Sets \cup Ruled \cup Rules \cup Permissions
  BY DEF Elements, Resources, Constraints
<1>2. \A p \in Groups \cup Clones \cup SetConstraints \cup Ruled : p \notin {Top, Absent}
  BY Kinds DEF Containers
<1>3. \A p \in Groups \cup Clones : p \notin SetConstraints \cup Ruled
  BY Disjoint DEF Resources, Constraints
<1>4. \A p \in SetConstraints : p \notin Ruled
  BY Disjoint
<1>5. \A p \in Groups : p \notin Clones
  BY Disjoint
<1>6. /\ y \in Tags \cup Levels \cup Plains \cup SetConstraints \cup Ruled
               \cup Permissions \cup Clones \cup Devices => d.up[y] \in {Top, Absent}
      /\ y \in Primitives => d.up[y] \in {Top, Absent} \cup Groups \cup Clones
      /\ y \in Groups => d.up[y] \in {Top, Absent} \cup Clones
      /\ y \in Sets => d.up[y] \in SetConstraints \cup {Absent}
      /\ y \in Rules => d.up[y] \in Ruled \cup {Absent}
  BY DEF Shape, Places
<1> QED
  BY <1>1, <1>2, <1>3, <1>4, <1>5, <1>6

\* A document with other places, or other references.
LEMMA UpFields ==
    ASSUME NEW b \in Document, NEW up \in [Elements -> Elements \cup {Top, Absent}]
    PROVE  /\ [b EXCEPT !.up = up] \in Document
           /\ [b EXCEPT !.up = up].up = up
           /\ [b EXCEPT !.up = up].refs = b.refs
BY DEF Document

LEMMA RefsFields ==
    ASSUME NEW b \in Document, NEW refs \in [Elements -> SUBSET Elements]
    PROVE  /\ [b EXCEPT !.refs = refs] \in Document
           /\ [b EXCEPT !.refs = refs].up = b.up
           /\ [b EXCEPT !.refs = refs].refs = refs
BY DEF Document

\* Resources may be moved away from a group others refer to: the document
\* keeps its shape, but is sound only if they refer to nothing deleted.
LEMMA GroupAddStep ==
    ASSUME IInv, NEW g \in Groups, NEW P \in SUBSET Primitives, P # {}, GroupAdd(g, P)
    PROVE  Kept
<1> DEFINE empty == {h \in Groups : Inner(cib, h) # {} /\ Inner(cib, h) \subseteq P}
           around == {c \in Clones : \E h \in empty : cib.up[h] = c}
           E == empty \cup around
           M == P \cup {g}
           b == Without(cib, E)
           at == IF b.up[g] = Absent THEN Top ELSE b.up[g]
           up == [x \in Elements |-> IF x \in P THEN g ELSE IF x = g THEN at ELSE b.up[x]]
           d == [b EXCEPT !.up = up]
<1>1. /\ Command("group_add", d)
      /\ \A p \in P : cib.up[p] \in {Top} \cup (Groups \ {g})
  BY DEF GroupAdd, EmptiedBy
<1>2. /\ cib \in Document /\ Shape(cib) /\ Sound(cib) /\ g \in Elements /\ P \subseteq Elements
      /\ cib.up \in [Elements -> Elements \cup {Top, Absent}]
  BY Edited, Fitting DEF Document
<1>3. /\ empty \subseteq Groups /\ around \subseteq Clones /\ E \subseteq Elements
      /\ \A h \in empty, y \in Elements : cib.up[y] = h => y \in P
      /\ \A h \in empty : \E y \in P : cib.up[y] = h
      /\ \A h \in Groups \ empty : (\E y \in Elements : cib.up[y] = h) =>
                                      \E y \in Elements \ P : cib.up[y] = h
      /\ \A c \in around : \E h \in empty : cib.up[h] = c
      /\ \A h \in empty : cib.up[h] \in Clones => cib.up[h] \in around
  BY Fitting DEF Inner
<1>4. /\ b \in Document
      /\ \A x \in Elements : /\ b.up[x] = IF x \in E THEN Absent ELSE cib.up[x]
                             /\ b.refs[x] = IF x \in E THEN {} ELSE cib.refs[x]
  BY <1>2, WithoutFields
<1> HIDE DEF b, empty, around
<1>5. \A x \in P \cup {g} : x \notin E
  <2>1. g \notin empty
    <3>1. \A y \in P : cib.up[y] # g
      BY <1>1, <1>2, Kinds
    <3> QED
      BY <1>3, <3>1
  <2>2. g \notin Clones /\ \A x \in P : x \notin Groups \cup Clones
    BY Disjoint DEF Containers
  <2> QED
    BY <1>3, <2>1, <2>2
<1>6. /\ b.up[g] = cib.up[g] /\ at # Absent
      /\ at = IF cib.up[g] = Absent THEN Top ELSE cib.up[g]
      /\ at \in Elements \cup {Top, Absent}
  BY <1>2, <1>4, <1>5, Kinds
<1> HIDE DEF at, E
<1>7. /\ up \in [Elements -> Elements \cup {Top, Absent}]
      /\ \A x \in Elements : up[x] = IF x \in P THEN g ELSE IF x = g THEN at ELSE b.up[x]
  <2>1. b.up \in [Elements -> Elements \cup {Top, Absent}]
    BY <1>4 DEF Document
  <2> QED
    BY <1>2, <1>6, <2>1
<1> HIDE DEF up
<1>8. d \in Document /\ d.up = up /\ d.refs = b.refs
  BY <1>4, <1>7, UpFields
<1> HIDE DEF d
<1>9. \A e \in Elements : /\ PlaceOf(e, cib.up[e]) /\ RefsOf(e, cib.refs[e])
                          /\ cib.up[e] = Absent => cib.refs[e] = {}
  BY <1>2, ShapeByElement
<1>10. Regroups(cib, d, E, M)
  <2>1. \A x \in Elements \cap E : d.up[x] = Absent /\ d.refs[x] = {}
    BY <1>4, <1>5, <1>7, <1>8
  <2>2. \A x \in M : PlaceOf(x, d.up[x]) /\ d.up[x] # Absent /\ d.refs[x] = {}
    <3>1. \A x \in M : d.refs[x] = {}
      <4>1. \A x \in M : x \in Elements /\ x \notin Referring \cup Holders \cup Levels
        BY <1>2, Disjoint DEF Resources, Referring, Holders, Constraints
      <4>2. \A x \in M : cib.refs[x] = {}
        BY <1>9, <4>1 DEF RefsOf
      <4> QED
        BY <1>4, <1>5, <1>8, <4>1, <4>2
    <3>2. \A x \in P : d.up[x] = g /\ PlaceOf(x, g) /\ g # Absent
      BY <1>2, <1>7, <1>8, Fitting, Kinds
    <3>3. g \notin P
      BY Disjoint DEF Containers
    <3>4. d.up[g] = at /\ at # Absent
      BY <1>2, <1>6, <1>7, <1>8, <3>3
    <3>5. PlaceOf(g, at)
      BY <1>2, <1>6, <1>9, Fitting
    <3> QED
      BY <3>1, <3>2, <3>4, <3>5
  <2>3. \A x \in Elements \ (E \cup M) : /\ d.up[x] = cib.up[x] /\ RefsOf(x, d.refs[x])
                                         /\ d.refs[x] = {} <=> cib.refs[x] = {}
    BY <1>4, <1>7, <1>8, <1>9
  <2>4. M \subseteq Resources
    BY DEF Resources
  <2> QED
    BY <1>8, <2>1, <2>2, <2>3, <2>4 DEF Regroups
<1>11. Shape(d)
  BY <1>2, <1>10, RegroupedShape
<1>12. /\ \A x \in P : d.up[x] = g
       /\ d.up[g] = at
       /\ \A x \in Elements \ (E \cup M) : d.up[x] = cib.up[x]
       /\ \A x \in E : d.up[x] = Absent
       /\ Present(d) = (Present(cib) \ E) \cup M
  <2>1. g \notin P
    BY Disjoint DEF Containers
  <2>2. /\ \A x \in P : d.up[x] = g
        /\ d.up[g] = at
        /\ \A x \in Elements \ (E \cup M) : d.up[x] = cib.up[x]
        /\ \A x \in E : d.up[x] = Absent
    BY <1>2, <1>3, <1>4, <1>5, <1>7, <1>8, <2>1 DEF E
  <2> QED
    BY <1>2, <1>5, <1>6, <2>2, Kinds DEF Present
<1>13. ASSUME Single(cib)
       PROVE  Placed(cib, d, E, M)
  <2>1. \A h \in empty, y \in Elements : cib.up[y] = cib.up[h] /\ cib.up[h] \in Clones => y = h
    BY <1>2, <1>3, <1>13, Fitting DEF Single
  <2>2. \A y \in Elements : cib.up[y] \in around => y \in empty
    BY <1>3, <2>1
  <2>3. \A x \in Elements \ (E \cup M) : cib.up[x] \notin E
    BY <1>3, <2>2 DEF E
  <2>4. cib.up[g] \notin E
    <3>1. cib.up[g] \notin empty
      BY <1>2, <1>3, MemberKind, Disjoint DEF Containers
    <3>2. cib.up[g] \notin around
      BY <1>2, <1>5, <2>2 DEF E
    <3> QED
      BY <3>1, <3>2 DEF E
  <2>5. \A x \in M : d.up[x] \in Present(d) \cup {Top}
    <3>1. at \in Present(d) \cup {Top}
      <4>1. CASE cib.up[g] = Absent
        BY <1>6, <4>1
      <4>2. CASE cib.up[g] # Absent
        <5>1. cib.up[g] \in Present(cib) \cup {Top}
          BY <1>2, <4>2 DEF Sound, Present
        <5> QED
          BY <1>6, <1>12, <2>4, <4>2, <5>1
      <4> QED
        BY <4>1, <4>2
    <3> QED
      BY <1>12, <3>1
  <2>6. ASSUME NEW x \in Present(d) \cap Containers
        PROVE  \E y \in Elements : d.up[y] = x
    <3>1. CASE x = g
      BY <1>2, <1>12, <3>1
    <3>2. CASE x # g
      <4>1. x \in Present(cib) \ E /\ x \notin P
        BY <1>12, <3>2, Disjoint
      <4>2. PICK z \in Elements : cib.up[z] = x
        BY <1>2, <4>1 DEF Sound, Inner, Containers
      <4>3. CASE x \in Groups
        <5>1. x \notin empty
          BY <4>1 DEF E
        <5>2. PICK y \in Elements \ P : cib.up[y] = x
          BY <1>3, <4>2, <4>3, <5>1
        <5>3. y \notin E /\ y # g
          BY <1>2, <1>3, <4>3, <5>2, MemberKind, Disjoint DEF E, Containers
        <5> QED
          BY <1>12, <5>2, <5>3
      <4>4. CASE x \in Clones
        <5>1. z \in Primitives \cup Groups
          BY <1>2, <4>2, <4>4, MemberKind
        <5>2. z \notin E
          BY <1>3, <4>1, <4>2, <4>4, <5>1, Disjoint DEF E, Containers
        <5>3. z \notin P
          BY <1>1, <4>2, <4>4, Disjoint, Kinds DEF Containers
        <5>4. CASE z = g
          <6>1. at = x
            BY <1>6, <4>2, <4>4, <5>4, Kinds DEF Containers
          <6> QED
            BY <1>2, <1>12, <6>1
        <5>5. CASE z # g
          BY <1>12, <4>2, <5>2, <5>3, <5>5
        <5> QED
          BY <5>4, <5>5
      <4>5. CASE x \in SetConstraints \cup Ruled
        <5>1. z \in Sets \cup Rules
          BY <1>2, <4>2, <4>5, MemberKind
        <5>2. z \notin E \cup M
          BY <1>3, <5>1, Disjoint DEF E, Containers, Resources, Holders
        <5> QED
          BY <1>12, <4>2, <5>2
      <4> QED
        BY <4>3, <4>4, <4>5 DEF Containers
    <3> QED
      BY <3>1, <3>2
  <2> QED
    BY <2>3, <2>5, <2>6 DEF Placed
<1>14. Resolved(d) \/ MayBreak("group_add")
  <2> SUFFICES ASSUME NEW x \in Present(d) \ (Levels \cup Permissions), NEW y \in d.refs[x],
                      y \notin Present(d)
               PROVE  MayBreak("group_add")
    BY DEF Resolved
  <2>1. x \in Elements /\ y \in cib.refs[x]
    BY <1>4, <1>8 DEF Present
  <2>2. x \in Present(cib)
    BY <1>2, <2>1, InPlace
  <2>3. y \in Present(cib)
    BY <1>2, <2>1, <2>2 DEF Sound
  <2>4. y \in E
    BY <1>12, <2>3
  <2>5. Named(y)
    BY <2>1, <2>2 DEF Named
  <2>6. y \in Groups \/ \E h \in Groups : y = cib.up[h]
    BY <1>3, <2>4 DEF E
  <2> QED
    BY <2>5, <2>6 DEF MayBreak
<1>15. Single(cib) => Sound(d) \/ MayBreak("group_add")
  BY <1>2, <1>10, <1>13, <1>14, RegroupedSound
<1>16. "group_add" \in Names
  BY DEF Names
<1> QED
  BY <1>1, <1>11, <1>15, <1>16, CommandStep

\* A group whose last member is cloned is deleted: if something refers to it,
\* the document keeps its shape only.
LEMMA CloneResourceStep ==
    ASSUME IInv, NEW r \in Now(Primitives \cup Groups), NEW c \in Clones, NEW tickets,
           CloneResource(r, c, tickets)
    PROVE  Kept
<1> DEFINE E == {g \in Groups : Inner(cib, g) = {r}}
           M == {r, c}
           renamed == {k \in (Plains \cup Ruled) \ tickets : r \in cib.refs[k]}
           b == Without(cib, E)
           w == With(With(b, c, Top, {}), r, c, {})
           refs == [x \in Elements |-> IF x \in renamed THEN (w.refs[x] \ {r}) \cup {c}
                                                        ELSE w.refs[x]]
           d == [w EXCEPT !.refs = refs]
<1>1. /\ Command("clone", d)
      /\ cib.up[r] = Top \/ (cib.up[r] \in Groups /\ cib.up[cib.up[r]] = Top)
      /\ cib.up[c] = Absent
  BY DEF CloneResource
<1>2. /\ cib \in Document /\ Shape(cib) /\ Sound(cib)
      /\ r \in Elements /\ r \in Primitives \cup Groups /\ r \in Present(cib)
      /\ c \in Elements /\ r # c
  BY Edited, Fitting, Disjoint DEF Now, Containers
<1>3. /\ E \subseteq Groups
      /\ \A g \in E, y \in Elements : cib.up[y] = g <=> y = r
      /\ \A g \in Groups \ E : (\E y \in Elements : cib.up[y] = g) =>
                                  \E y \in Elements \ {r} : cib.up[y] = g
      /\ \A g \in E : Inner(cib, g) = {r}
  BY <1>2 DEF Inner
<1>4. /\ \A k \in renamed : k \in Plains \cup Ruled /\ r \in cib.refs[k]
      /\ renamed \subseteq Elements
  BY Fitting
<1>5. /\ b \in Document
      /\ \A x \in Elements : /\ b.up[x] = IF x \in E THEN Absent ELSE cib.up[x]
                             /\ b.refs[x] = IF x \in E THEN {} ELSE cib.refs[x]
  BY <1>2, WithoutFields
<1> HIDE DEF b, E, renamed
<1>6. IsWithTwo(w, b, r, c, {}, {})
  BY <1>2, <1>5, WithTwoFields
<1>7. /\ w \in Document
      /\ \A x \in Elements :
            /\ w.up[x] = IF x = r THEN c ELSE IF x = c THEN Top ELSE b.up[x]
            /\ w.refs[x] = IF x = r THEN {} ELSE IF x = c THEN {} ELSE b.refs[x]
  BY <1>6 DEF IsWithTwo
<1> HIDE DEF w
<1>8. /\ refs \in [Elements -> SUBSET Elements]
      /\ \A x \in Elements : refs[x] = IF x \in renamed THEN (w.refs[x] \ {r}) \cup {c}
                                                        ELSE w.refs[x]
  <2>1. w.refs \in [Elements -> SUBSET Elements]
    BY <1>7 DEF Document
  <2> QED
    BY <1>2, <2>1
<1> HIDE DEF refs
<1>9. d \in Document /\ d.up = w.up /\ d.refs = refs
  BY <1>7, <1>8, RefsFields
<1> HIDE DEF d
<1>10. r \notin E /\ c \notin E /\ r \notin renamed /\ c \notin renamed
       /\ \A x \in renamed : x \notin E
  <2>1. r \notin E
    <3>1. cib.up[r] \in Groups => r \in Primitives
      BY <1>2, MemberKind
    <3>2. r \in Primitives => r \notin Groups
      BY Disjoint DEF Containers
    <3> QED
      BY <1>2, <1>3, <3>1, <3>2
  <2>2. \A x \in Plains \cup Ruled : x \notin Resources
    BY Disjoint DEF Constraints
  <2>3. r \in Resources /\ c \in Resources /\ E \subseteq Resources
    BY <1>2, <1>3 DEF Resources
  <2>4. c \notin E
    BY <1>3, Disjoint
  <2> QED
    BY <1>4, <2>1, <2>2, <2>3, <2>4
<1>11. \A e \in Elements : /\ PlaceOf(e, cib.up[e]) /\ RefsOf(e, cib.refs[e])
                           /\ cib.up[e] = Absent => cib.refs[e] = {}
  BY <1>2, ShapeByElement
<1>12. /\ d.up[r] = c /\ d.up[c] = Top
       /\ \A x \in E : d.up[x] = Absent
       /\ \A x \in Elements \ (E \cup M) : d.up[x] = cib.up[x]
       /\ \A x \in M \cup E : d.refs[x] = {}
       /\ \A x \in renamed : d.refs[x] = (cib.refs[x] \ {r}) \cup {c}
       /\ \A x \in Elements \ (E \cup M \cup renamed) : d.refs[x] = cib.refs[x]
  <2>1. E \subseteq Elements
    BY <1>3, Fitting
  <2>2. /\ d.up[r] = c /\ d.up[c] = Top
        /\ \A x \in E : d.up[x] = Absent
        /\ \A x \in Elements \ (E \cup M) : d.up[x] = cib.up[x]
    BY <1>2, <1>5, <1>7, <1>9, <1>10, <2>1
  <2>3. \A x \in M \cup E : d.refs[x] = {}
    BY <1>2, <1>5, <1>7, <1>8, <1>9, <1>10, <2>1
  <2>4. \A x \in renamed : d.refs[x] = (cib.refs[x] \ {r}) \cup {c}
    BY <1>4, <1>5, <1>7, <1>8, <1>9, <1>10
  <2>5. \A x \in Elements \ (E \cup M \cup renamed) : d.refs[x] = cib.refs[x]
    BY <1>5, <1>7, <1>8, <1>9
  <2> QED
    BY <2>2, <2>3, <2>4, <2>5
<1>13. Present(d) = (Present(cib) \ E) \cup M
  BY <1>2, <1>3, <1>10, <1>12, Kinds DEF Present
<1>14. Regroups(cib, d, E, M)
  <2>1. \A x \in Elements \cap E : d.up[x] = Absent /\ d.refs[x] = {}
    BY <1>12
  <2>2. \A x \in M : PlaceOf(x, d.up[x]) /\ d.up[x] # Absent /\ d.refs[x] = {}
    <3>1. PlaceOf(r, c) /\ PlaceOf(c, Top)
      BY <1>2, Fitting
    <3> QED
      BY <1>2, <1>12, <3>1, Kinds
  <2>3. ASSUME NEW x \in Elements \ (E \cup M)
        PROVE  /\ d.up[x] = cib.up[x] /\ RefsOf(x, d.refs[x])
               /\ d.refs[x] = {} <=> cib.refs[x] = {}
    <3>1. CASE x \in renamed
      <4>1. x \in Plains \cup Ruled /\ cib.refs[x] \in SUBSET (Resources \cup Tags)
        BY <1>2, <1>4, <1>11, <3>1, Disjoint DEF RefsOf, Constraints
      <4>2. d.refs[x] \in SUBSET (Resources \cup Tags)
        BY <1>12, <3>1, <4>1 DEF Resources
      <4>3. RefsOf(x, d.refs[x])
        BY <4>1, <4>2, Fitting
      <4> QED
        BY <1>4, <1>12, <3>1, <4>3
    <3>2. CASE x \notin renamed
      BY <1>11, <1>12, <3>2
    <3> QED
      BY <3>1, <3>2
  <2>4. M \subseteq Resources
    BY <1>2 DEF Resources
  <2> QED
    BY <1>9, <2>1, <2>2, <2>3, <2>4 DEF Regroups
<1>15. Shape(d)
  BY <1>2, <1>14, RegroupedShape
<1>16. Placed(cib, d, E, M)
  <2>1. \A x \in M : d.up[x] \in Present(d) \cup {Top}
    BY <1>12, <1>13
  <2>2. \A x \in Elements \ (E \cup M) : cib.up[x] \notin E
    BY <1>3
  <2>3. ASSUME NEW x \in Present(d) \cap Containers
        PROVE  \E y \in Elements : d.up[y] = x
    <3>1. CASE x = c
      BY <1>2, <1>12, <3>1
    <3>2. CASE x # c
      <4>1. x \in Present(cib) \ E /\ x \in Elements
        BY <1>2, <1>10, <1>13, <3>2, Kinds
      <4>2. PICK z \in Elements : cib.up[z] = x
        BY <1>2, <4>1 DEF Sound, Inner, Containers
      <4>3. CASE x \in Groups
        <5>1. PICK y \in Elements \ {r} : cib.up[y] = x
          BY <1>3, <4>1, <4>2, <4>3
        <5>2. y \in Primitives
          BY <1>2, <4>3, <5>1, MemberKind
        <5>3. y \notin E \cup M
          BY <1>3, <5>1, <5>2, Disjoint DEF Containers
        <5> QED
          BY <1>12, <5>1, <5>3
      <4>4. CASE x \in Clones
        <5>1. z # r
          BY <1>1, <4>1, <4>2, <4>4, Disjoint, Kinds
        <5>2. z # c
          BY <1>1, <4>1, <4>2, Kinds
        <5>3. z \notin E
          <6> SUFFICES ASSUME z \in E
                       PROVE  FALSE
            OBVIOUS
          <6>1. cib.up[r] = z
            BY <1>2, <1>3
          <6>2. cib.up[z] = Top
            BY <1>1, <6>1, Kinds
          <6> QED
            BY <4>1, <4>2, <6>2, Kinds
        <5> QED
          BY <1>12, <4>2, <5>1, <5>2, <5>3
      <4>5. CASE x \in SetConstraints \cup Ruled
        <5>1. z \in Sets \cup Rules
          BY <1>2, <4>2, <4>5, MemberKind
        <5>2. z \notin Resources
          BY <5>1, Disjoint
        <5>3. z \notin E \cup M
          BY <1>2, <1>3, <5>2 DEF Resources
        <5> QED
          BY <1>12, <4>2, <5>3
      <4> QED
        BY <4>3, <4>4, <4>5 DEF Containers
    <3> QED
      BY <3>1, <3>2
  <2> QED
    BY <2>1, <2>2, <2>3 DEF Placed
<1>17. Resolved(d) \/ MayBreak("clone")
  <2> SUFFICES ASSUME NEW x \in Present(d) \ (Levels \cup Permissions), NEW y \in d.refs[x],
                      y \notin Present(d)
               PROVE  MayBreak("clone")
    BY DEF Resolved
  <2>1. x \in Elements /\ y \in cib.refs[x]
    <3>1. x \in Elements
      BY DEF Present
    <3>2. y # c
      BY <1>13
    <3> QED
      BY <1>12, <3>1, <3>2
  <2>2. x \in Present(cib)
    BY <1>2, <2>1, InPlace
  <2>3. y \in Present(cib)
    BY <1>2, <2>1, <2>2 DEF Sound
  <2>4. y \in E
    BY <1>13, <2>3
  <2>5. Named(y)
    BY <2>1, <2>2 DEF Named
  <2>6. y \in Groups /\ Inner(cib, y) = {r} /\ r \in Primitives
    <3>1. y \in Groups /\ Inner(cib, y) = {r} /\ cib.up[r] = y
      BY <1>2, <1>3, <2>4
    <3> QED
      BY <1>2, <3>1, MemberKind
  <2> QED
    BY <2>5, <2>6 DEF MayBreak
<1>18. Sound(d) \/ MayBreak("clone")
  BY <1>2, <1>14, <1>16, <1>17, RegroupedSound
<1>19. "clone" \in Names
  BY DEF Names
<1> QED
  BY <1>1, <1>15, <1>18, <1>19, CommandStep

\* remove_resource_references leaves a sound document, the resources where
\* they were, and no reference to the group or clone but in a fencing level.
LEMMA ForgottenGood ==
    ASSUME IInv, NEW r \in Groups \cup Clones
    PROVE  /\ Forgotten(cib, r) \in Document /\ Good(Forgotten(cib, r))
           /\ \A x \in Resources : Forgotten(cib, r).up[x] = cib.up[x]
           /\ \A x \in Elements : /\ Forgotten(cib, r).up[x] \in {cib.up[x], Absent}
                                  /\ Forgotten(cib, r).refs[x] \subseteq cib.refs[x]
           /\ \A x \in Elements \ Levels : r \notin Forgotten(cib, r).refs[x]
<1> DEFINE tags   == {t \in Tags : cib.refs[t] = {r}}
           named  == {e \in Referring : cib.refs[e] \cap (tags \cup {r}) # {}}
           rules  == {y \in Rules : cib.up[y] \in named}
           empty  == {s \in Sets : cib.refs[s] = {r}}
           hollow == {k \in SetConstraints : Inner(cib, k) # {} /\ Inner(cib, k) \subseteq empty}
           E      == tags \cup named \cup rules \cup empty \cup hollow
           b      == Without(cib, E)
           refs   == [e \in Elements |-> IF e \in Holders THEN b.refs[e] \ {r} ELSE b.refs[e]]
           d      == [b EXCEPT !.refs = refs]
<1>1. Forgotten(cib, r) = d
  BY DEF Forgotten
<1>2. cib \in Document /\ Shape(cib) /\ Sound(cib) /\ r \in Elements /\ r \in Resources
  BY Edited, Fitting DEF Resources
<1>3. /\ tags \subseteq Tags /\ named \subseteq Referring /\ rules \subseteq Rules
      /\ empty \subseteq Sets /\ hollow \subseteq SetConstraints
      /\ \A t \in Tags \ tags : cib.refs[t] # {r}
      /\ \A e \in Referring \ named : cib.refs[e] \cap tags = {} /\ r \notin cib.refs[e]
      /\ \A y \in Rules : y \in rules <=> cib.up[y] \in named
      /\ \A s \in Sets \ empty : cib.refs[s] # {r}
      /\ \A y \in Elements : cib.up[y] \in hollow => y \in empty
      /\ \A k \in SetConstraints \ hollow : (\E y \in Elements : cib.up[y] = k) =>
            \E y \in Elements : cib.up[y] = k /\ y \notin empty
  BY DEF Inner
<1> HIDE DEF tags, named, rules, empty, hollow
<1>4. /\ b \in Document
      /\ \A x \in Elements : /\ b.up[x] = IF x \in E THEN Absent ELSE cib.up[x]
                             /\ b.refs[x] = IF x \in E THEN {} ELSE cib.refs[x]
  BY <1>2, WithoutFields
<1> HIDE DEF b
<1>5. /\ refs \in [Elements -> SUBSET Elements]
      /\ \A e \in Elements : refs[e] = IF e \in Holders THEN b.refs[e] \ {r} ELSE b.refs[e]
  <2>1. b.refs \in [Elements -> SUBSET Elements]
    BY <1>4 DEF Document
  <2> QED
    BY <2>1
<1> HIDE DEF refs
<1>6. d \in Document /\ d.up = b.up /\ d.refs = refs
  BY <1>4, <1>5, RefsFields
<1> HIDE DEF d
<1>7. /\ \A x \in E : x \notin Resources
      /\ \A x \in E : x \in Resources \cup Tags => x \in tags
      /\ E \subseteq Elements
  <2>1. \A x \in named \cup rules \cup empty \cup hollow : x \notin Resources \cup Tags
    BY <1>3, Disjoint DEF Referring, Constraints
  <2>2. \A x \in tags : x \notin Resources
    BY <1>3, Disjoint
  <2> QED
    BY <1>3, <2>1, <2>2, Kinds DEF Constraints
<1>8. \A x \in Elements \cap E : d.up[x] = Absent /\ d.refs[x] = {}
  BY <1>4, <1>5, <1>6
<1>9. \A x \in Elements \ E : /\ d.up[x] = cib.up[x] /\ d.refs[x] \subseteq cib.refs[x]
                              /\ cib.up[x] \notin E
  <2> SUFFICES ASSUME NEW x \in Elements \ E
               PROVE  cib.up[x] \notin E
    BY <1>4, <1>5, <1>6
  <2>1. cib.up[x] \in Containers \cup {Top, Absent}
    BY <1>2, ParentKind
  <2>2. cib.up[x] \notin tags \cup rules \cup empty
    BY <1>3, <2>1, Disjoint, Kinds DEF Holders
  <2>3. cib.up[x] \notin hollow
    BY <1>3
  <2>4. cib.up[x] \notin named
    <3> SUFFICES ASSUME cib.up[x] \in named
                 PROVE  FALSE
      OBVIOUS
    <3>1. cib.up[x] \in Elements /\ cib.up[x] \in Referring
      BY <1>3, Kinds
    <3>2. cib.up[x] \in Containers
      BY <2>1, <3>1, Kinds
    <3>3. cib.up[x] \in Ruled
      BY <3>1, <3>2, Disjoint DEF Referring, Containers, Constraints, Resources
    <3>4. x \in Rules
      BY <1>2, <3>3, MemberKind
    <3> QED
      BY <1>3, <3>4
  <2> QED
    BY <2>2, <2>3, <2>4
<1>10. \A x \in Present(cib) \ (E \cup Levels \cup Permissions) : d.refs[x] \cap E = {}
  <2> SUFFICES ASSUME NEW x \in Present(cib) \ (E \cup Levels \cup Permissions),
                      NEW y \in d.refs[x], y \in E
               PROVE  FALSE
    OBVIOUS
  <2>1. x \in Elements \ Permissions /\ y \in cib.refs[x]
    BY <1>9 DEF Present
  <2>2. y \in Resources \cup Tags
    BY <1>2, <2>1 DEF Shape, Targets
  <2>3. y \in tags
    BY <1>7, <2>2
  <2>4. x \in Referring \cup Holders
    BY <1>2, <2>1 DEF Shape, Targets
  <2>5. CASE x \in Referring
    BY <1>3, <2>1, <2>3, <2>5
  <2>6. CASE x \in Holders
    <3>1. y \in Resources
      BY <1>2, <2>1, <2>6 DEF Shape, Targets
    <3> QED
      BY <1>7, <3>1
  <2> QED
    BY <2>4, <2>5, <2>6
<1>11. \A x \in (Present(cib) \cap Containers) \ E :
          \E y \in Elements : cib.up[y] = x /\ y \notin E
  <2> SUFFICES ASSUME NEW x \in (Present(cib) \cap Containers) \ E
               PROVE  \E y \in Elements : cib.up[y] = x /\ y \notin E
    OBVIOUS
  <2>1. PICK z \in Elements : cib.up[z] = x
    BY <1>2 DEF Sound, Inner, Containers
  <2>2. CASE x \in Groups \cup Clones
    <3>1. z \in Resources
      BY <1>2, <2>1, <2>2, MemberKind DEF Resources
    <3> QED
      BY <1>7, <2>1, <3>1
  <2>3. CASE x \in SetConstraints
    <3>1. PICK y \in Elements : cib.up[y] = x /\ y \notin empty
      BY <1>3, <2>1, <2>3
    <3>2. y \in Sets
      BY <1>2, <2>3, <3>1, MemberKind
    <3>3. y \notin tags \cup named \cup rules \cup hollow
      BY <1>3, <3>2, Disjoint DEF Referring, Constraints, Holders, Containers
    <3> QED
      BY <3>1, <3>3
  <2>4. CASE x \in Ruled
    <3>1. z \in Rules
      BY <1>2, <2>1, <2>4, MemberKind
    <3>2. z \notin rules
      BY <1>3, <2>1, <3>1
    <3>3. z \notin tags \cup named \cup empty \cup hollow
      BY <1>3, <3>1, Disjoint DEF Referring, Holders, Containers
    <3> QED
      BY <2>1, <3>2, <3>3
  <2> QED
    BY <2>2, <2>3, <2>4 DEF Containers
<1>12. \A x \in (Present(cib) \cap (Holders \cup Levels)) \ E : d.refs[x] # {}
  <2> SUFFICES ASSUME NEW x \in (Present(cib) \cap (Holders \cup Levels)) \ E
               PROVE  d.refs[x] # {}
    OBVIOUS
  <2>1. x \in Elements /\ cib.refs[x] # {} /\ b.refs[x] = cib.refs[x]
    BY <1>2, <1>4 DEF Sound, Present
  <2>2. CASE x \in Holders
    <3>1. cib.refs[x] # {r}
      BY <1>3, <2>2 DEF Holders
    <3> QED
      BY <1>5, <1>6, <2>1, <2>2, <3>1
  <2>3. CASE x \notin Holders
    BY <1>5, <1>6, <2>1, <2>3
  <2> QED
    BY <2>2, <2>3
<1>13. \A x \in Elements \ Levels : r \notin d.refs[x]
  <2> SUFFICES ASSUME NEW x \in Elements \ Levels, r \in d.refs[x]
               PROVE  FALSE
    OBVIOUS
  <2>1. x \notin E /\ r \in cib.refs[x] /\ x \notin Holders
    BY <1>5, <1>6, <1>8, <1>9
  <2>2. x \in Referring
    BY <1>2, <2>1 DEF Shape, Targets
  <2> QED
    BY <1>3, <2>1, <2>2
<1>14. \A x \in Elements : d.up[x] \in {cib.up[x], Absent} /\ d.refs[x] \subseteq cib.refs[x]
  BY <1>8, <1>9
<1>15. \A x \in Resources : d.up[x] = cib.up[x]
  BY <1>7, <1>9, Kinds
<1> HIDE DEF E
<1>16. Good(d)
  BY <1>2, <1>6, <1>8, <1>9, <1>10, <1>11, <1>12, Lessened DEF Good
<1> QED
  BY <1>1, <1>6, <1>13, <1>14, <1>15, <1>16

\* One of several members leaves a cloned group.
LEMMA LeaveGroup ==
    ASSUME IInv, NEW r \in Elements, cib.up[r] \in Groups, Inner(cib, cib.up[r]) # {r}
    PROVE  Good(With(cib, r, Top, {}))
<1> DEFINE d == With(cib, r, Top, {})
           M == {r}
<1>1. /\ cib \in Document /\ Shape(cib) /\ Sound(cib) /\ r \in Primitives
      /\ r \in Resources /\ r \in Present(cib)
  <2>1. cib \in Document /\ Shape(cib) /\ Sound(cib)
    BY Edited
  <2>2. r \in Primitives
    BY <2>1, MemberKind
  <2> QED
    BY <2>1, <2>2, Kinds, Fitting DEF Resources, Present
<1>2. /\ d \in Document
      /\ \A x \in Elements : /\ d.up[x] = IF x = r THEN Top ELSE cib.up[x]
                             /\ d.refs[x] = IF x = r THEN {} ELSE cib.refs[x]
  BY <1>1, WithFields
<1> HIDE DEF d
<1>3. Present(d) = Present(cib)
  BY <1>1, <1>2, Kinds DEF Present
<1>4. \A e \in Elements : RefsOf(e, cib.refs[e])
  BY <1>1, ShapeByElement
<1>5. Regroups(cib, d, {}, M)
  BY <1>1, <1>2, <1>4, Fitting, Kinds DEF Regroups
<1>6. Placed(cib, d, {}, M)
  <2>1. ASSUME NEW x \in Present(d) \cap Containers
        PROVE  \E y \in Elements : d.up[y] = x
    <3>1. PICK z \in Elements : cib.up[z] = x
      BY <1>1, <1>3 DEF Sound, Inner, Containers
    <3>2. CASE z # r
      BY <1>2, <3>1, <3>2
    <3>3. CASE z = r
      <4>1. PICK y \in Elements : cib.up[y] = x /\ y # r
        BY <3>1, <3>3 DEF Inner
      <4> QED
        BY <1>2, <4>1
    <3> QED
      BY <3>2, <3>3
  <2> QED
    BY <1>2, <2>1 DEF Placed
<1>7. Resolved(d)
  BY <1>1, <1>2, <1>3 DEF Resolved, Sound, Present
<1>8. Good(d)
  BY <1>1, <1>5, <1>6, <1>7, RegroupedShape, RegroupedSound DEF Good
<1> QED
  BY <1>8 DEF d

\* A clone goes, with a group whose last member leaves: if something refers to
\* that group, the document keeps its shape only.
LEMMA UncloneStep ==
    ASSUME IInv, NEW r \in Primitives \cup Groups, NEW c \in Clones, Unclone(r, c)
    PROVE  Kept
<1> DEFINE in == cib.up[r]
           several == in \in Groups /\ Inner(cib, in) # {r}
           E == {in, c}
           M == {r}
           f == Forgotten(cib, c)
           b == Without(f, E)
           d == With(b, r, Top, {})
<1>1. /\ in = c \/ (in \in Groups /\ cib.up[in] = c)
      /\ several => Command("unclone", With(cib, r, Top, {}))
      /\ ~several => Command("unclone", d)
  BY DEF Unclone
<1>2. r \in Elements /\ c \in Elements /\ r \in Resources /\ c \in Resources /\ r # c
  BY Fitting, Disjoint DEF Resources, Containers
<1>3. CASE several
  <2>1. Good(With(cib, r, Top, {}))
    BY <1>2, <1>3, LeaveGroup
  <2> QED
    BY <1>1, <1>3, <2>1, GoodStep
<1>4. CASE ~several
  <2>1. /\ f \in Document /\ Good(f)
        /\ \A x \in Resources : f.up[x] = cib.up[x]
        /\ \A x \in Elements : f.up[x] \in {cib.up[x], Absent} /\ f.refs[x] \subseteq cib.refs[x]
        /\ \A x \in Elements \ Levels : c \notin f.refs[x]
    BY ForgottenGood
  <2> HIDE DEF f
  <2>2. /\ cib \in Document /\ Shape(cib) /\ Sound(cib) /\ Shape(f) /\ Sound(f)
        /\ in \in Resources /\ in \in Elements /\ in # r
    <3>1. cib \in Document /\ Shape(cib) /\ Sound(cib) /\ Shape(f) /\ Sound(f)
      BY <2>1, Edited DEF Good
    <3>2. in \in Resources
      BY <1>1, <1>2 DEF Resources
    <3>3. in # r
      <4>1. r \in Primitives => r \notin Groups \cup Clones
        BY Disjoint DEF Containers
      <4>2. in \in Groups => r \in Primitives
        BY <1>2, <3>1, MemberKind
      <4> QED
        BY <1>1, <1>2, <4>1, <4>2
    <3> QED
      BY <3>1, <3>2, <3>3, Kinds
  <2>3. /\ b \in Document
        /\ \A x \in Elements : /\ b.up[x] = IF x \in E THEN Absent ELSE f.up[x]
                               /\ b.refs[x] = IF x \in E THEN {} ELSE f.refs[x]
    BY <2>1, WithoutFields
  <2> HIDE DEF b
  <2>4. /\ d \in Document
        /\ \A x \in Elements : /\ d.up[x] = IF x = r THEN Top ELSE b.up[x]
                               /\ d.refs[x] = IF x = r THEN {} ELSE b.refs[x]
    <3>1. /\ b \in Document /\ r \in Elements /\ Top \in Elements \cup {Top}
          /\ {} \in SUBSET Elements
      BY <1>2, <2>3
    <3> QED
      BY ONLY <3>1, WithFields
  <2> HIDE DEF d
  <2>5. /\ d.up[r] = Top /\ d.refs[r] = {}
        /\ \A x \in E : d.up[x] = Absent /\ d.refs[x] = {}
        /\ \A x \in Elements \ (E \cup M) : d.up[x] = f.up[x] /\ d.refs[x] = f.refs[x]
    BY <1>2, <2>2, <2>3, <2>4
  <2>6. Present(d) = (Present(f) \ E) \cup M
    BY <1>2, <2>2, <2>5, Kinds DEF Present
  <2>7. Regroups(f, d, E, M)
    <3>1. \A e \in Elements : RefsOf(e, f.refs[e])
      BY <2>1, <2>2, ShapeByElement
    <3>2. PlaceOf(r, Top)
      BY Fitting
    <3> QED
      BY <1>2, <2>4, <2>5, <3>1, <3>2, Kinds DEF Regroups
  <2>8. Shape(d)
    BY <2>2, <2>7, RegroupedShape
  <2>9. ASSUME Single(cib)
        PROVE  Placed(f, d, E, M)
    <3>1. \A y \in Elements : cib.up[y] = in => y = r
      <4>1. CASE in = c
        BY <1>2, <2>9, <4>1 DEF Single
      <4>2. CASE in # c
        BY <1>1, <1>4, <4>2 DEF Inner
      <4> QED
        BY <4>1, <4>2
    <3>2. \A y \in Elements : cib.up[y] = c => y \in {r, in}
      BY <1>1, <1>2, <2>2, <2>9 DEF Single
    <3>3. \A x \in Elements \ (E \cup M) : f.up[x] \notin E
      BY <1>2, <2>1, <2>2, <3>1, <3>2, Kinds
    <3>4. ASSUME NEW x \in Present(d) \cap Containers
          PROVE  \E y \in Elements : d.up[y] = x
      <4>1. x \in Elements \ E
        BY <2>5 DEF Present
      <4>2. CASE x = r
        <5>1. r \in Groups
          BY <4>2, Disjoint
        <5>2. r \in Present(cib)
          BY <1>2, <2>2, Kinds DEF Present
        <5>3. PICK y \in Elements : cib.up[y] = r
          BY <2>2, <5>1, <5>2 DEF Sound, Inner
        <5>4. y \in Primitives /\ y \in Resources
          BY <2>2, <5>1, <5>3, MemberKind DEF Resources
        <5>5. y # in /\ y # c /\ y # r
          BY <1>1, <5>1, <5>4, Disjoint DEF Containers
        <5> QED
          BY <2>1, <2>5, <4>2, <5>3, <5>4, <5>5
      <4>3. CASE x # r
        <5>1. x \in Present(f)
          BY <2>6, <4>3
        <5>2. PICK y \in Elements : f.up[y] = x
          BY <2>2, <5>1 DEF Sound, Inner, Containers
        <5>3. y # r
          BY <1>2, <2>1, <4>1, <5>2
        <5>4. y # c
          <6>1. f.up[c] \in {Top, Absent}
            BY <2>2 DEF Shape, Places
          <6> QED
            BY <4>1, <5>2, <6>1, Kinds
        <5>5. y # in
          BY <1>1, <2>1, <2>2, <4>1, <5>2, <5>4
        <5> QED
          BY <2>5, <5>2, <5>3, <5>4, <5>5
      <4> QED
        BY <4>2, <4>3
    <3> QED
      BY <2>5, <3>3, <3>4 DEF Placed
  <2>10. Resolved(d) \/ MayBreak("unclone")
    <3> SUFFICES ASSUME NEW x \in Present(d) \ (Levels \cup Permissions), NEW y \in d.refs[x],
                        y \notin Present(d)
                 PROVE  MayBreak("unclone")
      BY DEF Resolved
    <3>1. x \in Elements /\ y \in f.refs[x] /\ y # c
      BY <2>1, <2>5 DEF Present
    <3>2. x \in Present(f)
      BY <2>2, <3>1, InPlace
    <3>3. y \in Present(f)
      BY <2>2, <3>1, <3>2 DEF Sound
    <3>4. y = in /\ in \in Groups /\ Inner(cib, in) = {r}
      BY <1>1, <1>4, <2>6, <3>1, <3>3
    <3>5. y \in cib.refs[x] /\ x \in Present(cib)
      BY <2>1, <2>2, <3>1, InPlace
    <3>6. Named(in)
      BY <3>4, <3>5 DEF Named
    <3>7. r \in Primitives
      BY <1>2, <2>2, <3>4, MemberKind
    <3> QED
      BY <3>4, <3>6, <3>7 DEF MayBreak
  <2>11. Single(cib) => Sound(d) \/ MayBreak("unclone")
    BY <2>2, <2>7, <2>9, <2>10, RegroupedSound
  <2>12. "unclone" \in Names
    BY DEF Names
  <2> QED
    BY <1>1, <1>4, <2>8, <2>11, <2>12, CommandStep
<1> QED
  BY <1>3, <1>4

\* A group left empty goes, with the references to it.  The clone around it is
\* left empty when its members, of which there are several, go to the top.
LEMMA GroupRemoveStep ==
    ASSUME IInv, NEW g \in Groups, NEW P \in SUBSET Primitives, P # {}, NEW twice,
           GroupRemove(g, P, twice)
    PROVE  Kept
<1> DEFINE members == Inner(cib, g)
           several == cib.up[g] \in Clones /\ Cardinality(members) > 1
           to == IF several THEN Top ELSE cib.up[g]
           all == P = members
           E == IF all THEN {g} ELSE {}
           f == IF all THEN Forgotten(cib, g) ELSE cib
           b == IF all THEN Without(Forgotten(cib, g), {g}) ELSE cib
           up == [x \in Elements |-> IF x \in P THEN to ELSE b.up[x]]
           d == [b EXCEPT !.up = up]
<1>1. P \subseteq members /\ Command("group_remove", d)
  BY DEF GroupRemove
<1>2. /\ cib \in Document /\ Shape(cib) /\ Sound(cib) /\ g \in Elements /\ g \in Resources
      /\ P \subseteq Elements /\ P \subseteq Resources /\ \A p \in P : cib.up[p] = g
      /\ g \notin P
  BY <1>1, Edited, Fitting, Disjoint DEF Inner, Resources, Containers
<1>3. g \in Present(cib) /\ cib.up[g] \in {Top} \cup Clones /\ cib.up[g] \in Present(cib) \cup {Top}
  <2>1. PICK p \in P : TRUE
    OBVIOUS
  <2>2. p \in Present(cib) /\ cib.up[p] = g
    BY <1>2, <2>1, Kinds DEF Present
  <2>3. g \in Present(cib)
    BY <1>2, <2>2, Kinds DEF Sound
  <2> QED
    BY <1>2, <2>3 DEF Present, Shape, Places, Sound
<1>4. /\ to \in {Top, cib.up[g]} /\ to \in Elements \cup {Top, Absent} /\ to # Absent
      /\ ~several => to = cib.up[g]
  BY <1>3, Kinds DEF Present
<1> HIDE DEF to
<1>5. /\ f \in Document /\ Shape(f) /\ Sound(f)
      /\ \A x \in Resources : f.up[x] = cib.up[x]
      /\ \A x \in Elements : f.up[x] \in {cib.up[x], Absent}
      /\ all => \A x \in Elements \ Levels : g \notin f.refs[x]
  BY <1>2, ForgottenGood DEF Good
<1>6. /\ b \in Document
      /\ \A x \in Elements : /\ b.up[x] = IF x \in E THEN Absent ELSE f.up[x]
                             /\ b.refs[x] = IF x \in E THEN {} ELSE f.refs[x]
  <2>1. CASE all
    <3>1. Forgotten(cib, g) \in Document
      BY <1>5, <2>1
    <3>2. b = Without(Forgotten(cib, g), {g}) /\ f = Forgotten(cib, g) /\ E = {g}
      BY <2>1
    <3> HIDE DEF b, f, E
    <3> QED
      BY <3>1, <3>2, WithoutFields
  <2>2. CASE ~all
    BY <1>2, <2>2
  <2> QED
    BY <2>1, <2>2
<1> HIDE DEF b, f
<1>7. E \subseteq {g} /\ (g \in E <=> all)
  OBVIOUS
<1>8. all => \A y \in Elements : cib.up[y] = g => y \in P
  BY DEF Inner
<1>9. ~all => \E y \in Elements \ P : cib.up[y] = g
  BY <1>1 DEF Inner
<1> HIDE DEF E, all
<1>10. /\ up \in [Elements -> Elements \cup {Top, Absent}]
       /\ \A x \in Elements : up[x] = IF x \in P THEN to ELSE b.up[x]
  <2>1. b.up \in [Elements -> Elements \cup {Top, Absent}]
    BY <1>6 DEF Document
  <2> QED
    BY <1>4, <2>1
<1> HIDE DEF up
<1>11. d \in Document /\ d.up = up /\ d.refs = b.refs
  BY <1>6, <1>10, UpFields
<1> HIDE DEF d
<1>12. \A e \in Elements : PlaceOf(e, f.up[e]) /\ RefsOf(e, f.refs[e])
  BY <1>5, ShapeByElement
<1>13. /\ \A x \in P : d.up[x] = to /\ d.refs[x] = {}
       /\ \A x \in E : d.up[x] = Absent /\ d.refs[x] = {}
       /\ \A x \in Elements \ (E \cup P) : d.up[x] = f.up[x] /\ d.refs[x] = f.refs[x]
  <2>1. \A x \in P : x \in Elements /\ x \notin Referring \cup Holders \cup Levels
    BY <1>2, Disjoint DEF Resources, Referring, Holders, Constraints
  <2>2. \A x \in P : f.refs[x] = {}
    BY <1>12, <2>1 DEF RefsOf
  <2> QED
    BY <1>2, <1>6, <1>7, <1>10, <1>11, <2>1, <2>2
<1>14. Present(d) = Present(f) \ E /\ P \subseteq Present(d)
  <2>1. P \subseteq Present(f) /\ P \cap E = {}
    BY <1>2, <1>5, <1>7, Kinds DEF Present
  <2> QED
    BY <1>2, <1>4, <1>7, <1>13, <2>1 DEF Present
<1>15. Regroups(f, d, E, P)
  <2>1. \A p \in P : PlaceOf(p, to)
    BY <1>3, <1>4, Fitting
  <2> QED
    BY <1>2, <1>4, <1>11, <1>12, <1>13, <2>1 DEF Regroups
<1>16. Shape(d)
  BY <1>5, <1>15, RegroupedShape
<1>17. ASSUME ~(several /\ all)
       PROVE  Placed(f, d, E, P)
  <2>1. \A x \in Elements \ (E \cup P) : f.up[x] \notin E
    BY <1>2, <1>5, <1>7, <1>8, Kinds
  <2>2. to \in Present(d) \cup {Top}
    <3>1. cib.up[g] \notin E
      BY <1>2, <1>3, <1>7, Disjoint, Kinds
    <3>2. cib.up[g] \in Present(f) \cup {Top}
      <4>1. ASSUME cib.up[g] \in Clones
            PROVE  cib.up[g] \in Present(f)
        <5>1. cib.up[g] \in Resources /\ cib.up[g] \in Elements
          BY <4>1, Kinds DEF Resources
        <5>2. cib.up[g] \in Present(cib)
          BY <1>3, <5>1, Kinds
        <5> QED
          BY <1>5, <5>1, <5>2 DEF Present
      <4> QED
        BY <1>3, <4>1
    <3> QED
      BY <1>4, <1>14, <3>1, <3>2
  <2>3. ASSUME NEW x \in Present(d) \cap Containers
        PROVE  \E y \in Elements : d.up[y] = x
    <3>1. x \in Present(f) \ E
      BY <1>14
    <3>2. PICK z \in Elements : f.up[z] = x
      BY <1>5, <3>1 DEF Sound, Inner, Containers
    <3>3. CASE z \in P
      <4>1. x = g
        BY <1>2, <1>5, <3>2, <3>3
      <4>2. PICK y \in Elements \ P : cib.up[y] = g
        BY <1>7, <1>9, <3>1, <4>1
      <4>3. y \in Resources
        BY <1>2, <4>2, MemberKind DEF Resources
      <4>4. y # g
        BY <1>3, <4>2, Disjoint, Kinds
      <4> QED
        BY <1>5, <1>7, <1>13, <4>1, <4>2, <4>3, <4>4
    <3>4. CASE z \in E
      <4>1. z = g /\ all /\ x = cib.up[g] /\ to = cib.up[g]
        BY <1>2, <1>4, <1>5, <1>7, <1>17, <3>2, <3>4, <1>3
      <4>2. PICK p \in P : TRUE
        OBVIOUS
      <4> QED
        BY <1>2, <1>13, <4>1, <4>2
    <3>5. CASE z \notin E \cup P
      BY <1>13, <3>2, <3>5
    <3> QED
      BY <3>3, <3>4, <3>5
  <2> QED
    BY <1>13, <2>1, <2>2, <2>3 DEF Placed
<1>18. Resolved(d)
  <2> SUFFICES ASSUME NEW x \in Present(d) \ (Levels \cup Permissions), NEW y \in d.refs[x]
               PROVE  y \in Present(d)
    BY DEF Resolved
  <2>1. x \in Elements /\ x \in Present(f) /\ y \in f.refs[x]
    BY <1>13, <1>14 DEF Present
  <2>2. y \in Present(f)
    BY <1>5, <2>1 DEF Sound
  <2> QED
    BY <1>5, <1>7, <1>14, <2>1, <2>2
<1>19. Sound(d) \/ MayBreak("group_remove")
  <2>1. CASE several /\ all
    BY <2>1 DEF MayBreak
  <2>2. CASE ~(several /\ all)
    BY <1>5, <1>15, <1>17, <1>18, <2>2, RegroupedSound
  <2> QED
    BY <2>1, <2>2
<1>20. "group_remove" \in Names
  BY DEF Names
<1> QED
  BY <1>1, <1>16, <1>19, <1>20, CommandStep

\* A ticket constraint loses a resource; what becomes empty goes.
LEMMA TicketRemoveStep ==
    ASSUME IInv, NEW r, NEW K \in SUBSET (Plains \cup SetConstraints), TicketRemove(r, K)
    PROVE  Kept
<1> DEFINE sets   == {s \in Sets : cib.up[s] \in K /\ r \in cib.refs[s]}
           empty  == {s \in sets : cib.refs[s] = {r}}
           plain  == {k \in K \cap Plains : cib.refs[k] = {r}}
           hollow == {k \in K \cap SetConstraints : Inner(cib, k) \subseteq empty}
           E      == empty \cup plain \cup hollow
           b      == Without(cib, E)
           refs   == [e \in Elements |-> IF e \in sets THEN b.refs[e] \ {r} ELSE b.refs[e]]
           d      == [b EXCEPT !.refs = refs]
<1>1. Command("ticket_remove", d)
  BY DEF TicketRemove
<1>2. cib \in Document /\ Shape(cib) /\ Sound(cib)
  BY Edited
<1>3. /\ b \in Document
      /\ \A x \in Elements : /\ b.up[x] = IF x \in E THEN Absent ELSE cib.up[x]
                             /\ b.refs[x] = IF x \in E THEN {} ELSE cib.refs[x]
  BY <1>2, WithoutFields
<1>4. /\ sets \subseteq Sets /\ empty \subseteq sets /\ plain \subseteq Plains
      /\ hollow \subseteq SetConstraints
      /\ \A s \in sets : cib.up[s] \in K /\ r \in cib.refs[s]
      /\ \A s \in sets \ empty : cib.refs[s] # {r}
      /\ \A y \in Elements : cib.up[y] \in hollow => y \in empty
      /\ \A x \in (K \cap SetConstraints) \ hollow :
            \E y \in Elements : cib.up[y] = x /\ y \notin empty
  BY DEF Inner
<1> HIDE DEF b, sets, empty, plain, hollow
<1>5. b.up \in [Elements -> Elements \cup {Top, Absent}]
      /\ b.refs \in [Elements -> SUBSET Elements] /\ b = [up |-> b.up, refs |-> b.refs]
  BY <1>3 DEF Document
<1>6. /\ refs \in [Elements -> SUBSET Elements]
      /\ \A e \in Elements : refs[e] = IF e \in sets THEN b.refs[e] \ {r} ELSE b.refs[e]
  BY <1>5
<1> HIDE DEF refs
<1>7. d = [up |-> b.up, refs |-> refs]
  BY <1>5
<1>8. d \in Document /\ d.up = b.up /\ d.refs = refs
  BY <1>5, <1>6, <1>7 DEF Document
<1> HIDE DEF d
<1>9. E \subseteq Sets \cup Plains \cup SetConstraints /\ E \subseteq Elements
  BY <1>4, Kinds DEF Constraints
<1>10. \A x \in Elements \cap E : d.up[x] = Absent /\ d.refs[x] = {}
  BY <1>3, <1>6, <1>8
<1>11. \A x \in Elements \ E : /\ d.up[x] = cib.up[x] /\ d.refs[x] \subseteq cib.refs[x]
                               /\ cib.up[x] \notin E
  <2> SUFFICES ASSUME NEW x \in Elements \ E
               PROVE  cib.up[x] \notin E
    BY <1>3, <1>6, <1>8
  <2>1. cib.up[x] \notin Sets \cup Plains
    BY <1>2, ParentKind, Disjoint, Kinds DEF Containers, Holders, Constraints, Resources
  <2>2. cib.up[x] \notin hollow
    BY <1>4
  <2> QED
    BY <1>4, <2>1, <2>2
<1>12. \A x \in Present(cib) \ (E \cup Levels \cup Permissions) : d.refs[x] \cap E = {}
  <2> SUFFICES ASSUME NEW x \in Present(cib) \ (E \cup Levels \cup Permissions),
                      NEW y \in d.refs[x], y \in E
               PROVE  FALSE
    OBVIOUS
  <2>1. x \in Elements \ Permissions /\ y \in cib.refs[x]
    BY <1>11 DEF Present
  <2>2. y \in Resources \cup Tags
    BY <1>2, <2>1 DEF Shape, Targets
  <2> QED
    BY <1>9, <2>2, Disjoint DEF Constraints
<1>13. \A x \in (Present(cib) \cap Containers) \ E :
          \E y \in Elements : cib.up[y] = x /\ y \notin E
  <2> SUFFICES ASSUME NEW x \in (Present(cib) \cap Containers) \ E
               PROVE  \E y \in Elements : cib.up[y] = x /\ y \notin empty
    <3>1. \A x \in Containers, y \in Elements : cib.up[y] = x => y \notin plain \cup hollow
      BY <1>2, <1>4, Kinds DEF Shape, Places
    <3> QED
      BY <3>1
  <2>1. CASE x \in K \cap SetConstraints
    BY <1>4, <2>1
  <2>2. CASE x \notin K \cap SetConstraints
    <3>1. PICK y \in Elements : cib.up[y] = x
      BY <1>2 DEF Sound, Inner, Containers
    <3>2. y \notin empty
      <4> SUFFICES ASSUME y \in empty
                   PROVE  FALSE
        OBVIOUS
      <4>1. y \in Sets /\ x \in K
        BY <1>4, <3>1
      <4>2. x \in SetConstraints
        BY <1>2, <3>1, <4>1, Kinds DEF Shape, Places
      <4> QED
        BY <2>2, <4>1, <4>2
    <3> QED
      BY <3>1, <3>2
  <2> QED
    BY <2>1, <2>2
<1>14. \A x \in (Present(cib) \cap (Holders \cup Levels)) \ E : d.refs[x] # {}
  <2> SUFFICES ASSUME NEW x \in (Present(cib) \cap (Holders \cup Levels)) \ E
               PROVE  d.refs[x] # {}
    OBVIOUS
  <2>1. x \in Elements /\ cib.refs[x] # {} /\ b.refs[x] = cib.refs[x]
    BY <1>2, <1>3 DEF Sound, Present
  <2>2. CASE x \in sets
    <3>1. r \in cib.refs[x] /\ cib.refs[x] # {r}
      BY <1>4, <2>2
    <3> QED
      BY <1>6, <1>8, <2>1, <2>2, <3>1
  <2>3. CASE x \notin sets
    BY <1>6, <1>8, <2>1, <2>3
  <2> QED
    BY <2>2, <2>3
<1> HIDE DEF E
<1>15. Good(d)
  BY <1>2, <1>8, <1>10, <1>11, <1>12, <1>13, <1>14, Lessened DEF Good
<1> QED
  BY <1>1, <1>15, GoodStep

-----------------------------------------------------------------------------
(* The steps of a removal keep the types, and its end pushes a sound document. *)

LEMMA StartRemoveKept ==
    ASSUME IInv, NEW ids \in Some(Now(Removable)), StartRemove(ids)
    PROVE  Kept
<1>1. /\ ids # {} /\ ids \subseteq Removable
  BY DEF Some, Now
<1>2. /\ asked' = ids /\ wip' = cib /\ todo' = ids
      /\ UNCHANGED <<cib, refTodo, gone, lost, rejected>>
  BY DEF StartRemove
<1>3. TypeOK'
  BY <1>1, <1>2, Kinds DEF IInv, TypeOK
<1>4. OnlyRegroupingBreaks => OnlyRegroupingBreaks'
  BY <1>2 DEF OnlyRegroupingBreaks, MayBreak, Named, Inner, Present
<1>5. DocInv' /\ CopyInv' /\ WorkInv'
  BY <1>1, StartRemoveStep
<1> QED
  BY <1>3, <1>4, <1>5 DEF Kept, IInv

LEMMA TakeElementKept ==
    ASSUME IInv, NEW e \in todo, TakeElement(e)
    PROVE  Kept
<1>1. UNCHANGED <<cib, asked, rejected>>
  BY DEF TakeElement
<1>2. TypeOK /\ Shape(cib) /\ asked # {} /\ e \in Elements
  BY DEF IInv, DocInv, TypeOK, WorkInv, Idle
<1>3. OnlyRegroupingBreaks => OnlyRegroupingBreaks'
  BY <1>1 DEF OnlyRegroupingBreaks, MayBreak, Named, Inner, Present
<1>4. CASE e \in gone
  <2>1. todo' = todo \ {e} /\ UNCHANGED <<refTodo, gone, lost, wip>>
    BY <1>4 DEF TakeElement
  <2>2. TypeOK'
    BY <1>1, <1>2, <2>1 DEF TypeOK
  <2> QED
    BY <1>3, <1>4, <2>2, SkipStep DEF Kept, IInv
<1>5. CASE e \notin gone
  <2> DEFINE levels == LevelsWith(wip, e)
             emptied == {l \in levels : wip.refs[l] = {e}}
             parent == wip.up[e]
  <2>1. /\ gone' = gone \cup {e}
        /\ todo' = (todo \ {e}) \cup ReferringTo(wip, e) \cup InnerResources(wip, e)
                     \cup emptied \cup {p \in {parent} : EmptyAfter(wip, p)}
        /\ refTodo' = refTodo \cup {<<h, e>> : h \in HoldersOf(wip, e)}
        /\ lost' = lost \cup {<<c, e>> : c \in levels \cup ({parent} \ {Top, Absent})}
        /\ wip' = [up |-> [wip.up EXCEPT ![e] = Absent],
                   refs |-> [x \in Elements |-> IF x \in levels THEN wip.refs[x] \ {e}
                                                                ELSE wip.refs[x]]]
    BY <1>5 DEF TakeElement, ProcessElement
  <2>2. /\ levels \subseteq Elements /\ emptied \subseteq Elements
        /\ ReferringTo(wip, e) \subseteq Elements /\ HoldersOf(wip, e) \subseteq Holders
        /\ InnerResources(wip, e) \subseteq Elements
    BY Kinds DEF LevelsWith, ReferringTo, HoldersOf, InnerResources, Inner
  <2>3. /\ wip.up \in [Elements -> Elements \cup {Top, Absent}]
        /\ wip.refs \in [Elements -> SUBSET Elements]
        /\ parent \in Elements \cup {Top, Absent}
    BY <1>2 DEF TypeOK, Document
  <2>4. {p \in {parent} : EmptyAfter(wip, p)} \subseteq Elements
    BY Kinds DEF EmptyAfter, Containers
  <2> HIDE DEF levels, emptied, parent
  <2>5. wip' \in Document
    <3> DEFINE up == [wip.up EXCEPT ![e] = Absent]
               refs == [x \in Elements |-> IF x \in levels THEN wip.refs[x] \ {e}
                                                           ELSE wip.refs[x]]
    <3>1. /\ up \in [Elements -> Elements \cup {Top, Absent}]
          /\ refs \in [Elements -> SUBSET Elements]
      BY <1>2, <2>3
    <3>2. wip' = [up |-> up, refs |-> refs]
      BY <2>1
    <3> HIDE DEF up, refs
    <3> QED
      BY <3>1, <3>2 DEF Document
  <2>6. todo' \subseteq Elements /\ gone' \subseteq Elements
    BY <1>2, <2>1, <2>2, <2>4 DEF TypeOK
  <2>7. refTodo' \subseteq Holders \X Elements /\ lost' \subseteq Elements \X Elements
    BY <1>2, <2>1, <2>2, <2>3 DEF TypeOK
  <2>8. TypeOK'
    BY <1>1, <1>2, <2>5, <2>6, <2>7 DEF TypeOK
  <2> QED
    BY <1>3, <1>5, <2>8, ProcessElementStep DEF Kept, IInv
<1> QED
  BY <1>4, <1>5

LEMMA TakeReferenceKept ==
    ASSUME IInv, NEW r \in refTodo, TakeReference(r[1], r[2])
    PROVE  Kept
<1> DEFINE h == r[1]
           e == r[2]
<1>1. h \in Holders /\ e \in Elements /\ h \in Elements
  BY Kinds DEF IInv, TypeOK
<1>2. TakeReference(h, e) /\ TypeOK
  BY DEF IInv
<1> HIDE DEF h, e
<1>3. /\ refTodo' = refTodo \ {<<h, e>>}
      /\ todo' = todo \cup {x \in {h} : Cardinality(wip.refs[h]) = 1}
      /\ wip' = [wip EXCEPT !.refs[h] = @ \ {e}]
      /\ lost' = lost \cup {<<h, e>>}
      /\ UNCHANGED <<cib, asked, gone, rejected>>
  BY <1>2 DEF TakeReference
<1>4. wip' \in Document
  BY <1>1, <1>2, <1>3 DEF TypeOK, Document
<1>5. TypeOK'
  BY <1>1, <1>2, <1>3, <1>4 DEF TypeOK
<1>6. OnlyRegroupingBreaks => OnlyRegroupingBreaks'
  BY <1>3 DEF OnlyRegroupingBreaks, MayBreak, Named, Inner, Present
<1>7. DocInv' /\ CopyInv' /\ WorkInv'
  BY <1>2, TakeReferenceStep
<1> QED
  BY <1>5, <1>6, <1>7 DEF Kept, IInv

LEMMA EndRemoveKept ==
    ASSUME IInv, EndRemove
    PROVE  Kept
<1>1. /\ Searched /\ asked' = {} /\ wip' = NoDocument /\ gone' = {} /\ lost' = {}
      /\ todo' = {} /\ refTodo' = {}
      /\ cib' = IF Sound(Pruned) /\ AclSound(Pruned) THEN Pruned ELSE cib
      /\ rejected' = CASE Sound(Pruned) /\ AclSound(Pruned) -> "no"
                       [] Sound(Pruned) -> "acl"
                       [] OTHER -> "remove_elements"
  BY DEF EndRemove, Push, Searched
<1>2. Shape(Pruned) /\ Sound(Pruned)
  BY <1>1, PrunedSound
<1>3. rejected' \in {"no", "acl"}
  BY <1>1, <1>2
<1>4. DocInv'
  <2>1. CASE AclSound(Pruned)
    <3>1. cib' = Pruned
      BY <1>1, <1>2, <2>1
    <3> QED
      BY <1>2, <3>1 DEF DocInv
  <2>2. CASE ~AclSound(Pruned)
    <3>1. cib' = cib
      BY <1>1, <2>2
    <3> QED
      BY <3>1 DEF IInv, DocInv
  <2> QED
    BY <2>1, <2>2
<1>5. NoDocument \in Document
  BY DEF NoDocument, Document
<1>6. TypeOK'
  <2>1. cib' \in Document
    BY <1>4 DEF DocInv, Shape
  <2> QED
    BY <1>1, <1>3, <1>5, <2>1 DEF TypeOK
<1>7. CopyInv' /\ Idle'
  BY <1>1 DEF CopyInv, Idle
<1>8. WorkInv'
  BY <1>4, <1>7, IdleWorkNext
<1> QED
  BY <1>3, <1>4, <1>6, <1>7, <1>8 DEF Kept, IInv, OnlyRegroupingBreaks

-----------------------------------------------------------------------------
(* The specification.                                                      *)

LEMMA Initially == Init => IInv
<1> SUFFICES ASSUME Init
             PROVE  IInv
  OBVIOUS
<1>1. /\ cib = NoDocument /\ wip = NoDocument /\ asked = {} /\ rejected = "no"
      /\ todo = {} /\ refTodo = {} /\ gone = {} /\ lost = {}
  BY DEF Init
<1>2. /\ NoDocument \in Document
      /\ \A x \in Elements : NoDocument.up[x] = Absent /\ NoDocument.refs[x] = {}
  BY DEF NoDocument, Document
<1>3. TypeOK
  BY <1>1, <1>2 DEF TypeOK
<1>4. Shape(cib)
  <2>1. \A e \in Elements : /\ PlaceOf(e, cib.up[e]) /\ RefsOf(e, cib.refs[e])
                            /\ cib.up[e] = Absent => cib.refs[e] = {}
    BY <1>1, <1>2 DEF PlaceOf, RefsOf
  <2> QED
    BY <1>1, <1>2, <2>1, ShapeByElement
<1>5. Sound(cib)
  BY <1>1, <1>2 DEF Sound, Present
<1>6. DocInv /\ Idle /\ CopyInv
  BY <1>1, <1>4, <1>5 DEF DocInv, Idle, CopyInv
<1> QED
  BY <1>1, <1>3, <1>6, IdleWork DEF IInv

LEMMA ResourcesKept ==
    ASSUME IInv, EditResources
    PROVE  Kept
<1>1. CASE \E p \in Primitives \cup Devices : Create(p)
  BY <1>1, CreateStep
<1>2. CASE \E p \in Primitives, c \in Clones : CreateAsClone(p, c)
  BY <1>2, CreateAsCloneStep
<1>3. CASE \E p \in Primitives, g \in Groups : CreateInGroup(p, g)
  BY <1>3, CreateInGroupStep
<1>4. CASE \E r \in Now(Primitives \cup Groups), c \in Clones :
              \E tickets \in SUBSET {k \in Plains : cib.refs[k] = {r}} :
                 CloneResource(r, c, tickets)
  BY <1>4, CloneResourceStep
<1>5. CASE \E r \in Now(Primitives \cup Groups), c \in Now(Clones) : Unclone(r, c)
  BY <1>5, UncloneStep DEF Now
<1>6. Some(Now(Primitives)) \subseteq SUBSET Primitives /\ {} \notin Some(Now(Primitives))
  BY DEF Some, Now
<1>7. CASE \E g \in Groups, P \in Some(Now(Primitives)) : GroupAdd(g, P)
  BY <1>6, <1>7, GroupAddStep
<1>8. CASE \E g \in Groups, P \in Some(Now(Primitives)), twice \in BOOLEAN :
              GroupRemove(g, P, twice)
  BY <1>6, <1>8, GroupRemoveStep
<1> QED
  BY <1>1, <1>2, <1>3, <1>4, <1>5, <1>7, <1>8 DEF EditResources

LEMMA ConstraintsKept ==
    ASSUME IInv, EditConstraints
    PROVE  Kept
<1>1. CASE \E k \in Plains, r, r2 \in Now(Resources) : CreatePlain(k, {r, r2})
  <2>1. PICK k \in Plains, r \in Now(Resources), r2 \in Now(Resources) : CreatePlain(k, {r, r2})
    BY <1>1
  <2>2. {r, r2} \in SUBSET Now(Resources)
    OBVIOUS
  <2> QED
    BY <2>1, <2>2, CreatePlainStep
<1>2. CASE \E k \in Plains, t \in Tags : CibPush(k, t)
  BY <1>2, CibPushStep
<1>3. CASE \E k \in SetConstraints, s, s2 \in Sets, R, R2 \in Some(Now(Resources)) :
              CreateWithSet(k, s, R, s2, R2)
  BY <1>3, CreateWithSetStep
<1>4. CASE \E k \in Ruled, r \in Rules, x \in Now(Resources) : CreateWithRule(k, r, x)
  BY <1>4, CreateWithRuleStep
<1>5. CASE \E x \in Now(Resources), K \in Some(Now(Plains \cup SetConstraints)) :
              TicketRemove(x, K)
  <2>1. Some(Now(Plains \cup SetConstraints)) \subseteq SUBSET (Plains \cup SetConstraints)
    BY DEF Some, Now
  <2> QED
    BY <1>5, <2>1, TicketRemoveStep
<1> QED
  BY <1>1, <1>2, <1>3, <1>4, <1>5 DEF EditConstraints

LEMMA OthersKept ==
    ASSUME IInv, EditOthers
    PROVE  Kept
<1>1. CASE \E t \in Tags, R \in Some(Now(Resources)) : TagCreate(t, R)
  BY <1>1, TagCreateStep
<1>2. CASE \E t \in Now(Tags), add \in SUBSET Now(Resources), adjacent \in BOOLEAN :
              \E remove \in SUBSET cib.refs[t] : TagUpdate(t, add, remove, adjacent)
  <2>1. Now(Tags) \subseteq Tags
    BY DEF Now
  <2> QED
    BY <1>2, <2>1, TagUpdateStep
<1>3. CASE \E T \in Some(Now(Tags)) : TagRemove(T)
  <2>1. Some(Now(Tags)) \subseteq SUBSET Tags
    BY DEF Some, Now
  <2> QED
    BY <1>3, <2>1, TagRemoveStep
<1>4. CASE \E l \in Levels, D \in Some(Devices) : AddLevel(l, D)
  BY <1>4, AddLevelStep
<1>5. CASE \E L \in Some(Now(Levels)) : RemoveLevels(L)
  <2>1. Some(Now(Levels)) \subseteq SUBSET Levels
    BY DEF Some, Now
  <2> QED
    BY <1>5, <2>1, RemoveLevelsStep
<1>6. CASE \E a \in Permissions, e \in Now(Elements) : AddPermission(a, e)
  <2>1. Now(Elements) \subseteq Elements
    BY DEF Now
  <2> QED
    BY <1>6, <2>1, AddPermissionStep
<1>7. CASE \E a \in Permissions : RemovePermission(a)
  BY <1>7, RemovePermissionStep
<1> QED
  BY <1>1, <1>2, <1>3, <1>4, <1>5, <1>6, <1>7 DEF EditOthers

LEMMA Steps == IInv /\ [Next]_vars => Kept
<1> SUFFICES ASSUME IInv, [Next]_vars
             PROVE  Kept
  OBVIOUS
<1>1. CASE EditResources \/ EditConstraints \/ EditOthers
  BY <1>1, ResourcesKept, ConstraintsKept, OthersKept
<1>2. CASE RemoveElements
  BY <1>2, StartRemoveKept, TakeElementKept, TakeReferenceKept, EndRemoveKept
     DEF RemoveElements
<1>3. CASE UNCHANGED vars
  <2>1. UNCHANGED <<cib, asked, wip, todo, refTodo, gone, lost, rejected>>
    BY <1>3 DEF vars, removal
  <2>2. TypeOK' /\ DocInv' /\ CopyInv'
    BY <2>1 DEF IInv, TypeOK, DocInv, CopyInv, Cut
  <2>4. OnlyRegroupingBreaks => OnlyRegroupingBreaks'
    BY <2>1 DEF OnlyRegroupingBreaks, MayBreak, Named, Inner, Present
  <2>3. WorkInv'
    BY <2>1 DEF IInv, WorkInv, Idle, ReferringInv, InnerInv, EmptyInv, BareInv, HolderInv,
                LevelInv, CutInv, Cut
  <2> QED
    BY <2>2, <2>3, <2>4 DEF Kept, IInv
<1> QED
  BY <1>1, <1>2, <1>3 DEF Next

LEMMA Inductive == Spec => []IInv
<1>1. Init => IInv
  BY Initially
<1>2. IInv /\ [Next]_vars => IInv'
  BY Steps DEF Kept
<1> QED
  BY <1>1, <1>2, PTL DEF Spec

\* The document, its copy and the worklist of a removal keep their types,
\* whatever the commands and however many elements there are.
THEOREM TypeCorrect == Spec => []TypeOK
<1>1. IInv => TypeOK
  BY DEF IInv
<1> QED
  BY <1>1, Inductive, PTL

\* Whatever the order in which _get_dependencies_to_remove took the entries,
\* the document "remove elements" pushes has no empty container, no reference
\* that is left dangling, and nothing that refers to an element it removed.
THEOREM RemovalIsClean == Spec => []RemovalClean
<1>1. IInv => RemovalClean
  BY PrunedSound DEF RemovalClean
<1> QED
  BY <1>1, Inductive, PTL

=============================================================================
