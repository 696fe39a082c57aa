---------------------------- MODULE MCMembership ----------------------------
(* Values for the constants of the runs of Membership. *)
EXTENDS MembershipProperties, TLC

\* A command killed before "enable" does what one without the options does.
EnableAndStart == {[enable |-> TRUE, start |-> TRUE]}

Symmetry ==
    Permutations(Members) \cup Permutations(Hosts \ Members)
      \cup Permutations(Commands)
=============================================================================
