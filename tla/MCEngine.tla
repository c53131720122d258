------------------------------ MODULE MCEngine ------------------------------
(* Instances of Engine for TLC.  The members of each set are alike. *)
EXTENDS Engine, TLC

Symmetry ==
  Permutations(Projects) \cup Permutations(Runs) \cup Permutations(Insts)
    \cup Permutations(Snaps) \cup Permutations(Reqs)
=============================================================================
