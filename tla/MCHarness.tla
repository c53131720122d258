----------------------------- MODULE MCHarness ------------------------------
(* Instances of Harness for TLC: every spike beside one that it shares     *)
(* nothing with, and spike i beside another spike i.                       *)
EXTENDS Harness

CONSTANTS r1, r2

MCForks == [r \in Runs |-> IF r = r1 THEN 2 ELSE 1]

MCPlans == {[r \in Runs |-> IF r = r1 THEN s ELSE "c"] : s \in Kinds \ {"i"}}
             \cup {[r \in Runs |-> "i"]}
=============================================================================
