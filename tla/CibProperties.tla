--------------------------- MODULE CibProperties ---------------------------
(***************************************************************************)
(* What the commands that edit the CIB are expected to guarantee.          *)
(***************************************************************************)
EXTENDS Cib

Names == {"create", "clone", "unclone", "group_add", "group_remove", "constraint",
          "cib_push", "ticket_remove", "tag_create", "tag_update", "tag_remove",
          "add_level", "remove_levels", "add_permission", "remove_permission",
          "remove_elements"}

\* The variables hold documents, worklists and sets of ids.
TypeOK ==
    /\ cib \in Document
    /\ wip \in Document
    /\ asked \subseteq Removable
    /\ todo \subseteq Elements
    /\ refTodo \subseteq Holders \X Elements
    /\ gone \subseteq Elements
    /\ lost \subseteq Elements \X Elements
    /\ rejected \in {"no", "acl"} \cup Names

\* One round of the rule remove_elements.py follows, on the whole document:
\* what refers to a removed element goes, resources in a removed one go, and
\* what would be left without members or references goes.
Also(d, R) ==
    R \cup {x \in Referring : d.refs[x] \cap R # {}}
      \cup {x \in Resources : d.up[x] \in R}
      \cup {x \in Groups \cup Clones \cup SetConstraints \cup Ruled :
               x \in Present(d) /\ Inner(d, x) \subseteq R}
      \cup {x \in Holders \cup Levels : x \in Present(d) /\ d.refs[x] \subseteq R}

\* The elements in every set that holds the ids asked for and is closed under
\* the rule: the least such set.
Closure(d, ids) ==
    {x \in Present(d) : \A R \in SUBSET Present(d) :
                           ids \subseteq R /\ Also(d, R) \subseteq R => x \in R}

\* Permissions of a set, a rule or another permission.  Whether these go with
\* a constraint depends on the order of the ids (a set or rule is looked at
\* only when its constraint is still in the copy), so nothing is said of them.
Nested == {a \in Permissions : cib.refs[a] \cap (Sets \cup Rules \cup Permissions) # {}}

\* The removal takes exactly the closure of what was asked for, whatever
\* order the worklist was in: every other element stays, where it was, and
\* keeps its references to everything but the elements removed.
RemovalExact ==
    Searched =>
        LET all == Below(cib, Closure(cib, asked))
        IN  \A x \in Elements \ Nested :
               /\ Pruned.up[x] = IF x \in all THEN Absent ELSE cib.up[x]
               /\ x \notin all => Pruned.refs[x] = cib.refs[x] \ all

\* What is pushed after a removal is a document pacemaker takes: nothing is
\* left empty and nothing refers to an element that was removed by its id.
RemovalClean ==
    Searched => /\ Sound(Pruned)
                /\ \A x \in Elements : Pruned.refs[x] \cap gone = {}

Named(x) == \E e \in Present(cib) \ (Levels \cup Permissions) : x \in cib.refs[e]

\* When a command may push resources and constraints that are not valid: the
\* last member of a group that something refers to is cloned or uncloned, or
\* moved to another group, which also deletes the clone around the group; or
\* all members are taken out of a cloned group by giving a name twice.
MayBreak(command) ==
    \/ /\ command \in {"clone", "unclone"}
       /\ \E g \in Groups, p \in Primitives : Named(g) /\ Inner(cib, g) = {p}
    \/ command = "group_add" /\ \E g \in Groups : Named(g) \/ Named(cib.up[g])
    \/ /\ command = "group_remove"
       /\ \E g \in Groups : cib.up[g] \in Clones /\ Cardinality(Inner(cib, g)) > 1

\* Pacemaker refuses the resources and constraints of a command only in these
\* cases: every other command, and these in all other cases, leave nothing
\* dangling and nothing empty.  A command that removes something may also be
\* refused over a permission that names it.
OnlyRegroupingBreaks == rejected \in {"no", "acl"} \/ MayBreak(rejected)
=============================================================================
