----------------------------- MODULE MCClients ------------------------------
(* Instances of Clients for TLC.  The members of each set are alike. *)
EXTENDS Clients, TLC

Symmetry ==
  Permutations(Clients) \cup Permutations(Threads) \cup Permutations(Runs)
    \cup Permutations(Insts) \cup Permutations(Snaps)
=============================================================================
