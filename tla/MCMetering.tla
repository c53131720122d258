----------------------------- MODULE MCMetering -----------------------------
(* Instances of Metering for TLC.  The members of each set are alike. *)
EXTENDS Metering, TLC

Symmetry ==
  Permutations(Projects) \cup Permutations(Runs) \cup Permutations(Insts)
    \cup Permutations(Snaps) \cup Permutations(Reqs)
=============================================================================
