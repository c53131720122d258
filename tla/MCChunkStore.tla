---------------------------- MODULE MCChunkStore ----------------------------
(* Instances of ChunkStore for TLC: images of one and two blocks that      *)
(* share a chunk.  Threads are alike, and so are snapshots and inodes.     *)
EXTENDS ChunkStore, TLC

CONSTANTS a, b

MCImages == {<<a, b>>, <<b>>}

Symmetry == Permutations(Threads) \cup Permutations(Snaps) \cup Permutations(Inodes)
=============================================================================
