-------------------------------- MODULE Cib --------------------------------
(***************************************************************************)
(* The commands that add, regroup and remove elements of the CIB, the      *)
(* configuration pacemaker keeps: resources in groups and clones, the      *)
(* constraints, tags, fencing levels and ACL permissions that refer to     *)
(* them, and "remove elements" (lib/cib/remove_elements.py), which also    *)
(* removes whatever the removed elements leave dangling or empty.          *)
(*                                                                         *)
(* A document gives every id its place (another element, the section       *)
(* Top, or Absent) and the ids it refers to.  A command edits a copy and   *)
(* pushes it; pacemaker refuses an invalid one.  The removal is the only   *)
(* command with steps of its own: its worklist is processed one entry at   *)
(* a time, in any order.                                                   *)
(***************************************************************************)
EXTENDS Naturals, FiniteSets

CONSTANTS
    Primitives, Devices,     \* primitives; those that are stonith devices
    Groups, Clones,
    Tags, Levels,            \* refer through obj_ref and a devices attribute
    Plains,                  \* constraints that name their resources
    SetConstraints, Sets,    \* constraints made of resource sets
    Ruled, Rules,            \* location constraints made of rules
    Permissions,             \* acl_permission with a reference
    Top, Absent,
    MaxElements              \* bound on the elements present

Resources   == Primitives \cup Devices \cup Groups \cup Clones
Constraints == Plains \cup SetConstraints \cup Ruled
Elements    == Resources \cup Constraints \cup Tags \cup Levels \cup Sets
                 \cup Rules \cup Permissions

\* An element has one tag.
Classes == <<Primitives, Devices, Groups, Clones, Tags, Levels, Plains, SetConstraints,
             Sets, Ruled, Rules, Permissions>>

ASSUME ElementsAssumption ==
    /\ \A i, j \in 1 .. 12 : i # j => Classes[i] \cap Classes[j] = {}
    /\ Top # Absent
    /\ {Top, Absent} \cap Elements = {}

\* Elements that refer by an attribute of their own: they go with the target.
Referring == Plains \cup Ruled \cup Permissions

\* Elements that hold references without an id: obj_ref, resource_ref.
Holders == Tags \cup Sets

VARIABLES
    cib,        \* the document in pacemaker
    asked,      \* ids given to a removal that is under way, or none
    wip,        \* wip_cib, the copy the dependencies are searched in
    todo,       \* elements_to_process, the entries that are elements
    refTodo,    \* elements_to_process, the obj_ref and resource_ref entries
    gone,       \* element_ids_to_remove
    lost,       \* removing_references_from, as <<container, id>>
    rejected    \* why pacemaker refused the last push, or "no"

removal == <<asked, wip, todo, refTodo, gone, lost>>
vars == <<cib, removal, rejected>>

Document == [up : [Elements -> Elements \cup {Top, Absent}],
             refs : [Elements -> SUBSET Elements]]

NoDocument == [up |-> [e \in Elements |-> Absent],
               refs |-> [e \in Elements |-> {}]]

Present(d) == {e \in Elements : d.up[e] # Absent}

Inner(d, e) == {x \in Elements : d.up[x] = e}

\* What pacemaker's schema asks of everything but the permissions: elements
\* are in existing ones, refer to existing ones, and are not empty.  The
\* devices of a fencing level need not exist.
Sound(d) ==
    /\ \A e \in Present(d) : d.up[e] \in Present(d) \cup {Top}
    /\ \A e \in Present(d) \ (Levels \cup Permissions) : d.refs[e] \subseteq Present(d)
    /\ \A e \in Present(d) \cap (Groups \cup Clones \cup SetConstraints \cup Ruled) :
          Inner(d, e) # {}
    /\ \A e \in Present(d) \cap (Holders \cup Levels) : d.refs[e] # {}

AclSound(d) == \A e \in Present(d) \cap Permissions : d.refs[e] \subseteq Present(d)

-----------------------------------------------------------------------------
(* The commands that edit the document at once *)

\* env.push_cib: pacemaker takes the document or refuses it.
Push(command, d) ==
    /\ cib' = IF Sound(d) /\ AclSound(d) THEN d ELSE cib
    /\ rejected' = CASE Sound(d) /\ AclSound(d) -> "no"
                     [] Sound(d) -> "acl"
                     [] OTHER -> command

Command(command, d) ==
    /\ asked = {}
    /\ Cardinality(Present(d)) <= MaxElements
    /\ Push(command, d)
    /\ UNCHANGED removal

\* The document with element e added in place p, referring to R.
With(d, e, p, R) == [up |-> [d.up EXCEPT ![e] = p],
                     refs |-> [d.refs EXCEPT ![e] = R]]

\* The document without the elements of E, references to them kept.
Without(d, E) == [up |-> [x \in Elements |-> IF x \in E THEN Absent ELSE d.up[x]],
                  refs |-> [x \in Elements |-> IF x \in E THEN {} ELSE d.refs[x]]]

\* Resource and stonith create; create_as_clone; create_in_group.
Create(p) ==
    /\ cib.up[p] = Absent
    /\ Command("create", With(cib, p, Top, {}))

CreateAsClone(p, c) ==
    /\ cib.up[p] = Absent
    /\ cib.up[c] = Absent
    /\ Command("create", With(With(cib, c, Top, {}), p, c, {}))

CreateInGroup(p, g) ==
    /\ cib.up[p] = Absent
    /\ Command("create",
          IF cib.up[g] = Absent THEN With(With(cib, g, Top, {}), p, g, {})
                                ELSE With(cib, p, g, {}))

\* resource clone of a group, or of a primitive, that is in no clone yet.  A
\* group that loses its last member is deleted, references to it stay.  The
\* constraints that name the resource then name the clone, but for those of
\* tickets (constraint_resource_update).
CloneResource(r, c, tickets) ==
    /\ cib.up[r] = Top \/ (cib.up[r] \in Groups /\ cib.up[cib.up[r]] = Top)
    /\ cib.up[c] = Absent
    /\ LET renamed == {k \in (Plains \cup Ruled) \ tickets : r \in cib.refs[k]}
           b == Without(cib, {g \in Groups : Inner(cib, g) = {r}})
           d == With(With(b, c, Top, {}), r, c, {})
       IN  Command("clone",
              [d EXCEPT !.refs = [x \in Elements |->
                  IF x \in renamed THEN (@[x] \ {r}) \cup {c} ELSE @[x]]])

\* remove_resource_references of a group or clone: it goes from the tags and
\* sets, and what is left empty goes, a tag with all that names it; so do the
\* constraints and permissions that name it.
Forgotten(d, x) ==
    LET tags   == {t \in Tags : d.refs[t] = {x}}
        named  == {e \in Referring : d.refs[e] \cap (tags \cup {x}) # {}}
        rules  == {r \in Rules : d.up[r] \in named}
        empty  == {s \in Sets : d.refs[s] = {x}}
        hollow == {k \in SetConstraints : Inner(d, k) # {} /\ Inner(d, k) \subseteq empty}
        b      == Without(d, tags \cup named \cup rules \cup empty \cup hollow)
    IN  [b EXCEPT !.refs = [e \in Elements |-> IF e \in Holders THEN @[e] \ {x}
                                                                ELSE @[e]]]

\* resource unclone of a resource in clone c.  One of several members of a
\* cloned group just leaves it; otherwise clone c goes, with the group whose
\* last member leaves: references to that group stay.
Unclone(r, c) ==
    LET in == cib.up[r]
    IN  /\ in = c \/ (in \in Groups /\ cib.up[in] = c)
        /\ Command("unclone",
              IF in \in Groups /\ Inner(cib, in) # {r}
              THEN With(cib, r, Top, {})
              ELSE With(Without(Forgotten(cib, c), {in, c}), r, Top, {}))

\* resource group remove, also called ungroup: a group left empty goes.  Not
\* all of several members of a cloned group may leave it, but that is checked
\* by counting the names, one of which may have been given twice.
GroupRemove(g, P, twice) ==
    LET members == Inner(cib, g)
        several == cib.up[g] \in Clones /\ Cardinality(members) > 1
        count   == Cardinality(P) + (IF twice THEN 1 ELSE 0)
        to      == IF several THEN Top ELSE cib.up[g]
        b       == IF P = members THEN Without(Forgotten(cib, g), {g}) ELSE cib
    IN  /\ P \subseteq members
        /\ ~(several /\ count = Cardinality(members))
        /\ Command("group_remove",
              [b EXCEPT !.up = [x \in Elements |-> IF x \in P THEN to ELSE @[x]]])

\* A group left empty is deleted, with the clone around it; references to
\* them stay (move_resources_to_group).
EmptiedBy(d, P) ==
    LET empty == {h \in Groups : Inner(d, h) # {} /\ Inner(d, h) \subseteq P}
    IN  empty \cup {c \in Clones : \E h \in empty : d.up[h] = c}

\* group_add: move resources that are at the top or in another group into an
\* existing or new group.
GroupAdd(g, P) ==
    /\ \A p \in P : cib.up[p] \in {Top} \cup (Groups \ {g})
    /\ LET d == Without(cib, EmptiedBy(cib, P))
           at == IF d.up[g] = Absent THEN Top ELSE d.up[g]
       IN  Command("group_add",
              [d EXCEPT !.up = [x \in Elements |-> IF x \in P THEN g
                                                   ELSE IF x = g THEN at ELSE @[x]]])

\* constraint ticket, colocation, order: a resource in a clone needs --force
\* and, named as one of a pair, is replaced by its clone.
CreatePlain(k, R) ==
    /\ cib.up[k] = Absent
    /\ R \subseteq Present(cib)
    /\ Cardinality(R) = 2 => \A r \in R : cib.up[r] \notin Clones
    /\ Command("constraint", With(cib, k, Top, R))

\* cluster cib-push: the user's own document; here a constraint of a tag.
CibPush(k, t) ==
    /\ cib.up[k] = Absent
    /\ cib.up[t] # Absent
    /\ Command("cib_push", With(cib, k, Top, {t}))

\* constraint ... set: one set or two.
CreateWithSet(k, s, R, s2, R2) ==
    /\ {cib.up[k], cib.up[s], cib.up[s2]} = {Absent}
    /\ R \cup R2 \subseteq Present(cib)
    /\ LET one == With(With(cib, k, Top, {}), s, k, R)
       IN  Command("constraint", IF s = s2 THEN one ELSE With(one, s2, k, R2))

\* constraint location with a rule.
CreateWithRule(k, r, x) ==
    /\ {cib.up[k], cib.up[r]} = {Absent}
    /\ x \in Present(cib)
    /\ Command("constraint", With(With(cib, k, Top, {x}), r, k, {}))

\* constraint ticket remove: the constraints of K have the ticket; sets and
\* constraints left empty go as well, permissions on them do not.
TicketRemove(x, K) ==
    LET sets   == {s \in Sets : cib.up[s] \in K /\ x \in cib.refs[s]}
        empty  == {s \in sets : cib.refs[s] = {x}}
        plain  == {k \in K \cap Plains : cib.refs[k] = {x}}
        hollow == {k \in K \cap SetConstraints : Inner(cib, k) \subseteq empty}
        d      == Without(cib, empty \cup plain \cup hollow)
    IN  /\ K \subseteq Present(cib)
        /\ Command("ticket_remove",
              [d EXCEPT !.refs = [e \in Elements |-> IF e \in sets THEN @[e] \ {x}
                                                                   ELSE @[e]]])

\* tag create.
TagCreate(t, R) ==
    /\ cib.up[t] = Absent
    /\ R \subseteq Present(cib)
    /\ Command("tag_create", With(cib, t, Top, R))

\* Faulty variant of TagUpdateAllowed: the last references may be removed.
TagUpdateAllowedEmpty(t, add, remove, adjacent) ==
    /\ cib.up[t] # Absent
    /\ add \cup remove # {}
    /\ add \cap remove = {}
    /\ add \subseteq Present(cib)
    /\ remove \subseteq cib.refs[t]
    /\ add = {} => ~adjacent
    /\ IF adjacent THEN cib.refs[t] \ (add \cup remove) # {}
                   ELSE add \cap cib.refs[t] = {}

\* ValidateTagUpdateByIds.  Ids already in the tag may be added only as a
\* move next to an id that is neither added nor removed.
TagUpdateAllowed(t, add, remove, adjacent) ==
    /\ cib.up[t] # Absent
    /\ add \cup remove # {}
    /\ add \cap remove = {}
    /\ add \subseteq Present(cib)
    /\ remove \subseteq cib.refs[t]
    /\ add = {} => /\ ~adjacent
                   /\ cib.refs[t] \ remove # {}
    /\ IF adjacent THEN cib.refs[t] \ (add \cup remove) # {}
                   ELSE add \cap cib.refs[t] = {}

TagUpdate(t, add, remove, adjacent) ==
    /\ TagUpdateAllowed(t, add, remove, adjacent)
    /\ LET R == (cib.refs[t] \cup add) \ remove
       IN  Command("tag_update", IF R = {} THEN Without(cib, {t})
                                           ELSE With(cib, t, Top, R))

\* validate_remove_tag: no constraint refers to it.
TagRemovable(t) ==
    /\ cib.up[t] # Absent
    /\ \A k \in Plains \cup Ruled \cup Sets : t \notin cib.refs[k]

TagRemove(T) ==
    /\ \A t \in T : TagRemovable(t)
    /\ Command("tag_remove", Without(cib, T))

\* stonith level add: a device that does not exist needs --force.
AddLevel(l, D) ==
    /\ cib.up[l] = Absent
    /\ Command("add_level", With(cib, l, Top, D))

RemoveLevels(L) ==
    /\ L \subseteq Present(cib)
    /\ Command("remove_levels", Without(cib, L))

\* acl permission add: any id of the document.
AddPermission(a, e) ==
    /\ cib.up[a] = Absent
    /\ e \in Present(cib)
    /\ Command("add_permission", With(cib, a, Top, {e}))

RemovePermission(a) ==
    /\ cib.up[a] # Absent
    /\ Command("remove_permission", Without(cib, {a}))

-----------------------------------------------------------------------------
(* remove_elements *)

\* _validate_element_types.
Removable == Resources \cup Constraints \cup Rules

StartRemove(ids) ==
    /\ asked = {}
    /\ ids \subseteq Present(cib)
    /\ asked' = ids
    /\ wip' = cib
    /\ todo' = ids
    /\ UNCHANGED <<cib, refTodo, gone, lost, rejected>>

\* Whether an element can still be found from the root of the copy.
Attached(d, e) == \/ d.up[e] = Top
                  \/ d.up[e] \in Elements /\ d.up[d.up[e]] = Top

\* Faulty variant of HoldersOf: references in resource sets are not searched for.
HoldersOfTagsOnly(d, e) == {h \in Tags : Attached(d, h) /\ e \in d.refs[h]}

\* find_elements_referencing_id.
ReferringTo(d, e) == {x \in Referring : d.up[x] = Top /\ e \in d.refs[x]}

HoldersOf(d, e) == {h \in Holders : Attached(d, h) /\ e \in d.refs[h]}

\* find_levels_with_device.
LevelsWith(d, e) == {l \in Levels : d.up[l] = Top /\ e \in d.refs[l]}

\* _get_inner_references.
InnerResources(d, e) == IF e \in Resources THEN Inner(d, e) ELSE {}

\* Faulty variant of EmptyAfter: a container with two members counts as empty.
EmptyAfterOneLeft(d, p) ==
    \/ p \in Clones
    \/ p \in Groups \cup SetConstraints \cup Ruled /\ Cardinality(Inner(d, p)) <= 2

\* _is_empty_after_inner_el_removal of the place an element is removed from.
EmptyAfter(d, p) ==
    \/ p \in Clones
    \/ p \in Groups \cup SetConstraints \cup Ruled /\ Cardinality(Inner(d, p)) = 1

\* Faulty variant of ProcessElement: a place without an id is recorded as well.
ProcessElementNoId(e) ==
    LET levels == LevelsWith(wip, e)
        emptied == {l \in levels : wip.refs[l] = {e}}
        parent == wip.up[e]
    IN  /\ gone' = gone \cup {e}
        /\ todo' = (todo \ {e}) \cup ReferringTo(wip, e) \cup InnerResources(wip, e)
                     \cup emptied \cup {p \in {parent} : EmptyAfter(wip, p)}
        /\ refTodo' = refTodo \cup {<<h, e>> : h \in HoldersOf(wip, e)}
        /\ lost' = lost \cup {<<c, e>> : c \in levels \cup {parent}}
        /\ wip' = [up |-> [wip.up EXCEPT ![e] = Absent],
                   refs |-> [x \in Elements |-> IF x \in levels THEN wip.refs[x] \ {e}
                                                                ELSE wip.refs[x]]]

\* One turn of the loop of _get_dependencies_to_remove for an element.
ProcessElement(e) ==
    LET levels == LevelsWith(wip, e)
        emptied == {l \in levels : wip.refs[l] = {e}}
        parent == wip.up[e]
    IN  /\ gone' = gone \cup {e}
        /\ todo' = (todo \ {e}) \cup ReferringTo(wip, e) \cup InnerResources(wip, e)
                     \cup emptied \cup {p \in {parent} : EmptyAfter(wip, p)}
        /\ refTodo' = refTodo \cup {<<h, e>> : h \in HoldersOf(wip, e)}
        /\ lost' = lost \cup {<<c, e>> : c \in levels \cup ({parent} \ {Top, Absent})}
        /\ wip' = [up |-> [wip.up EXCEPT ![e] = Absent],
                   refs |-> [x \in Elements |-> IF x \in levels THEN wip.refs[x] \ {e}
                                                                ELSE wip.refs[x]]]

TakeElement(e) ==
    /\ e \in todo
    /\ IF e \in gone
       THEN /\ todo' = todo \ {e}
            /\ UNCHANGED <<refTodo, gone, lost, wip>>
       ELSE ProcessElement(e)
    /\ UNCHANGED <<cib, asked, rejected>>

\* The same for a reference without an id, removed from its holder.
TakeReference(h, e) ==
    /\ <<h, e>> \in refTodo
    /\ refTodo' = refTodo \ {<<h, e>>}
    /\ todo' = todo \cup {x \in {h} : Cardinality(wip.refs[h]) = 1}
    /\ wip' = [wip EXCEPT !.refs[h] = @ \ {e}]
    /\ lost' = lost \cup {<<h, e>>}
    /\ UNCHANGED <<cib, asked, gone, rejected>>

\* What is in an element goes with it.
Below(d, E) == {x \in Elements : \/ x \in E
                                 \/ d.up[x] \in E
                                 \/ d.up[x] \in Elements /\ d.up[d.up[x]] \in E}

\* remove_specified_elements.
Pruned ==
    LET d == Without(cib, Below(cib, gone))
    IN  [d EXCEPT !.refs = [x \in Elements |->
            IF x \in Holders \cup Levels THEN @[x] \ {e \in Elements : <<x, e>> \in lost}
                                         ELSE @[x]]]

Searched == asked # {} /\ todo = {} /\ refTodo = {}

EndRemove ==
    /\ Searched
    /\ Push("remove_elements", Pruned)
    /\ asked' = {}
    /\ wip' = NoDocument
    /\ gone' = {}
    /\ lost' = {}
    /\ UNCHANGED <<todo, refTodo>>

-----------------------------------------------------------------------------

Init ==
    /\ cib = NoDocument
    /\ asked = {}
    /\ wip = NoDocument
    /\ todo = {}
    /\ refTodo = {}
    /\ gone = {}
    /\ lost = {}
    /\ rejected = "no"

Some(S) == (SUBSET S) \ {{}}

Now(S) == S \cap Present(cib)

EditResources ==
    \/ \E p \in Primitives \cup Devices : Create(p)
    \/ \E p \in Primitives, c \in Clones : CreateAsClone(p, c)
    \/ \E p \in Primitives, g \in Groups : CreateInGroup(p, g)
    \/ \E r \in Now(Primitives \cup Groups), c \in Clones :
          \E tickets \in SUBSET {k \in Plains : cib.refs[k] = {r}} :
             CloneResource(r, c, tickets)
    \/ \E r \in Now(Primitives \cup Groups), c \in Now(Clones) : Unclone(r, c)
    \/ \E g \in Groups, P \in Some(Now(Primitives)) : GroupAdd(g, P)
    \/ \E g \in Groups, P \in Some(Now(Primitives)), twice \in BOOLEAN :
          GroupRemove(g, P, twice)

EditConstraints ==
    \/ \E k \in Plains, r, r2 \in Now(Resources) : CreatePlain(k, {r, r2})
    \/ \E k \in Plains, t \in Tags : CibPush(k, t)
    \/ \E k \in SetConstraints, s, s2 \in Sets, R, R2 \in Some(Now(Resources)) :
          CreateWithSet(k, s, R, s2, R2)
    \/ \E k \in Ruled, r \in Rules, x \in Now(Resources) : CreateWithRule(k, r, x)
    \/ \E x \in Now(Resources), K \in Some(Now(Plains \cup SetConstraints)) :
          TicketRemove(x, K)

EditOthers ==
    \/ \E t \in Tags, R \in Some(Now(Resources)) : TagCreate(t, R)
    \/ \E t \in Now(Tags), add \in SUBSET Now(Resources), adjacent \in BOOLEAN :
          \E remove \in SUBSET cib.refs[t] : TagUpdate(t, add, remove, adjacent)
    \/ \E T \in Some(Now(Tags)) : TagRemove(T)
    \/ \E l \in Levels, D \in Some(Devices) : AddLevel(l, D)
    \/ \E L \in Some(Now(Levels)) : RemoveLevels(L)
    \/ \E a \in Permissions, e \in Now(Elements) : AddPermission(a, e)
    \/ \E a \in Permissions : RemovePermission(a)

RemoveElements ==
    \/ \E ids \in Some(Now(Removable)) : StartRemove(ids)
    \/ \E e \in todo : TakeElement(e)
    \/ \E r \in refTodo : TakeReference(r[1], r[2])
    \/ EndRemove

Next ==
    \/ asked = {} /\ (EditResources \/ EditConstraints \/ EditOthers)
    \/ RemoveElements

Spec == Init /\ [][Next]_vars
=============================================================================
