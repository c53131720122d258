--------------------------- MODULE MCForkProtocol ---------------------------
(* Instances of ForkProtocol for TLC: a source VM, one fork, the snapshots *)
(* of either.                                                              *)
EXTENDS ForkProtocol
=============================================================================
