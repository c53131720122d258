----------------------------- MODULE MCChunking -----------------------------
(* Instances of Chunking for TLC: a small gear table. *)
EXTENDS Chunking

MCGear == [b \in Bytes |-> 2 ^ b]
=============================================================================
