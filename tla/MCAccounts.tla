----------------------------- MODULE MCAccounts -----------------------------
(* Instances of Accounts for TLC.  Daemons are alike, and so are keys. *)
EXTENDS Accounts, TLC

Symmetry == Permutations(Daemons) \cup Permutations(Keys)
=============================================================================
