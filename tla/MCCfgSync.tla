----------------------------- MODULE MCCfgSync -----------------------------
(* Values for the constants of the runs of CfgSync. *)
EXTENDS CfgSyncProperties, TLC

CONSTANTS n1, n2, n3, c1, c2, e1, e2

\* One command adds one entry; c1 runs on n1, c2 on n2.
AtFirstTwo == [c \in Commands |-> IF c = c1 THEN n1 ELSE n2]
OneEntryEach ==
    [c \in Commands |-> {IF c = c1 THEN e1 ELSE e2}]
NoRemoves == [c \in Commands |-> {}]

\* c2 removes what c1 adds.
SecondRemoves == [c \in Commands |-> IF c = c2 THEN {e1} ELSE {}]

\* The order of the hashes is that of the entries as bits of a number.
BitOrder ==
    [S \in SUBSET Entries |-> (IF e1 \in S THEN 1 ELSE 0)
                                + (IF e2 \in S THEN 2 ELSE 0)]

\* No file on any node.
NoFiles == {[version |-> 0, entries |-> {}]}

\* Two commands of the same version reached some nodes each.
HalfPushed == NoFiles \cup {[version |-> 1, entries |-> {e}] : e \in {e1, e2}}
=============================================================================
