--------------------------- MODULE TimelineProofs ---------------------------
(***************************************************************************)
(* Proofs about Timeline, for every set of projects, runs, instances and   *)
(* snapshots: the abstract database stays a DAG per run and never rewrites *)
(* its history.  The proofs about Engine and Clients rest on the step      *)
(* lemmas.                                                                 *)
(***************************************************************************)
EXTENDS Timeline, TLAPS

LEMMA TablesStep ==
  ASSUME TablesOK, [TimelineNext]_tables PROVE TablesOK'
<1> USE TimelineAssumption DEF TablesOK
<1>1. ASSUME NEW r \in Runs, NEW i \in Insts, NEW p \in Projects, InsertRun(r, i, p)
      PROVE  TablesOK'
  BY <1>1 DEF InsertRun
<1>2. ASSUME NEW s \in Snaps, NEW i \in Insts, NEW q \in Snaps \cup {None},
             InsertSnapshot(s, i, q)
      PROVE  TablesOK'
  BY <1>2 DEF InsertSnapshot
<1>3. ASSUME NEW K \in SUBSET Insts, NEW s \in Snaps, InsertForks(K, s)
      PROVE  TablesOK'
  BY <1>3 DEF InsertForks
<1>4. ASSUME NEW i \in Insts, MarkDestroyed(i) PROVE TablesOK'
  BY <1>4 DEF MarkDestroyed
<1>5. CASE UNCHANGED tables
  BY <1>5 DEF tables
<1> QED BY <1>1, <1>2, <1>3, <1>4, <1>5 DEF TimelineNext

LEMMA ImmutableStep ==
  ASSUME TablesOK, TimelineIsDAG, [TimelineNext]_tables PROVE Immutable
<1> USE TimelineAssumption DEF TablesOK, Immutable
<1>0. \A i \in Insts : instRun[i] # None <=> instState[i] # "none"
  BY DEF TimelineIsDAG, InstOK
<1>1. ASSUME NEW r \in Runs, NEW i \in Insts, NEW p \in Projects, InsertRun(r, i, p)
      PROVE  Immutable
  BY <1>0, <1>1 DEF InsertRun
<1>2. ASSUME NEW s \in Snaps, NEW i \in Insts, NEW q \in Snaps \cup {None},
             InsertSnapshot(s, i, q)
      PROVE  Immutable
  BY <1>2 DEF InsertSnapshot
<1>3. ASSUME NEW K \in SUBSET Insts, NEW s \in Snaps, InsertForks(K, s)
      PROVE  Immutable
  BY <1>0, <1>3 DEF InsertForks
<1>4. ASSUME NEW i \in Insts, MarkDestroyed(i) PROVE Immutable
  BY <1>4 DEF MarkDestroyed
<1>5. CASE UNCHANGED tables
  BY <1>5 DEF tables
<1> QED BY <1>1, <1>2, <1>3, <1>4, <1>5 DEF TimelineNext

LEMMA DAGStep ==
  ASSUME TablesOK, TimelineIsDAG, [TimelineNext]_tables PROVE TimelineIsDAG'
<1> USE TimelineAssumption DEF TablesOK, SnapOK, InstOK
<1>0. (\A s \in Snaps : SnapOK(s)) /\ (\A i \in Insts : InstOK(i))
  BY DEF TimelineIsDAG
<1>1. ASSUME NEW r \in Runs, NEW i \in Insts, NEW p \in Projects, InsertRun(r, i, p)
      PROVE  TimelineIsDAG'
  <2>1. ASSUME NEW s \in Snaps PROVE SnapOK(s)'
    BY <1>0, <1>1 DEF InsertRun
  <2>2. ASSUME NEW j \in Insts PROVE InstOK(j)'
    BY <1>0, <1>1 DEF InsertRun
  <2> QED BY <2>1, <2>2 DEF TimelineIsDAG
<1>2. ASSUME NEW s \in Snaps, NEW i \in Insts, NEW q \in Snaps \cup {None},
             Ancestor(q, i), InsertSnapshot(s, i, q)
      PROVE  TimelineIsDAG'
  <2>1. ASSUME NEW t \in Snaps PROVE SnapOK(t)'
    <3>1. CASE t = s
      BY <1>0, <1>2, <3>1 DEF InsertSnapshot, Ancestor
    <3>2. CASE t # s
      BY <1>0, <1>2, <3>2 DEF InsertSnapshot
    <3> QED BY <3>1, <3>2
  <2>2. ASSUME NEW j \in Insts PROVE InstOK(j)'
    BY <1>0, <1>2 DEF InsertSnapshot
  <2> QED BY <2>1, <2>2 DEF TimelineIsDAG
<1>3. ASSUME NEW K \in SUBSET Insts, NEW s \in Snaps, InsertForks(K, s)
      PROVE  TimelineIsDAG'
  <2>1. ASSUME NEW t \in Snaps PROVE SnapOK(t)'
    BY <1>0, <1>3 DEF InsertForks
  <2>2. ASSUME NEW j \in Insts PROVE InstOK(j)'
    BY <1>0, <1>3 DEF InsertForks
  <2> QED BY <2>1, <2>2 DEF TimelineIsDAG
<1>4. ASSUME NEW i \in Insts, MarkDestroyed(i) PROVE TimelineIsDAG'
  BY <1>0, <1>4 DEF MarkDestroyed, TimelineIsDAG
<1>5. CASE UNCHANGED tables
  BY <1>0, <1>5 DEF tables, TimelineIsDAG
<1> QED BY <1>1, <1>2, <1>3, <1>4, <1>5 DEF TimelineNext

LEMMA NoTablesOK == NoTables => TablesOK /\ TimelineIsDAG
  BY TimelineAssumption DEF NoTables, TablesOK, TimelineIsDAG, SnapOK, InstOK

(* Every behaviour of the abstract timeline is a DAG. *)
THEOREM TimelineDAG == TimelineSpec => [](TablesOK /\ TimelineIsDAG)
<1>1. TablesOK /\ TimelineIsDAG /\ [TimelineNext]_tables => (TablesOK /\ TimelineIsDAG)'
  BY TablesStep, DAGStep
<1> QED BY <1>1, NoTablesOK, PTL DEF TimelineSpec

(* No step of the abstract timeline rewrites history. *)
THEOREM TimelineImmutable == TimelineSpec => HistoryIsImmutable
<1>1. TablesOK /\ TimelineIsDAG /\ [TimelineNext]_tables => [Immutable]_tables
  BY ImmutableStep
<1> QED BY <1>1, TimelineDAG, PTL DEF TimelineSpec, HistoryIsImmutable

-----------------------------------------------------------------------------
(* More of what a transaction keeps. *)

(* A run keeps its project. *)
RunsKept == \A d \in Runs : runs[d] # None => runs'[d] = runs[d]

LEMMA RunsStep ==
  ASSUME TablesOK, [TimelineNext]_tables PROVE RunsKept
  BY DEF TablesOK, RunsKept, TimelineNext, InsertRun, InsertSnapshot, InsertForks,
         MarkDestroyed, tables

(* The clock does not go back, and stamps a new snapshot later than all    *)
(* that was there.                                                         *)
Stamped ==
  /\ now <= now'
  /\ \A s \in Snaps : snapRun[s] = None /\ snapRun'[s] # None => snapTime'[s] > now

LEMMA StampStep ==
  ASSUME TablesOK, [TimelineNext]_tables PROVE Stamped
  BY DEF TablesOK, Stamped, TimelineNext, InsertRun, InsertSnapshot, InsertForks,
         MarkDestroyed, tables
=============================================================================
