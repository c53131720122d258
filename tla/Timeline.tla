------------------------------ MODULE Timeline ------------------------------
(***************************************************************************)
(* What the engine promises of its SQLite database (kladosd.py): a run     *)
(* owns a DAG of immutable snapshots and the instances forked from them.   *)
(* Each action is one committed transaction.                               *)
(***************************************************************************)
EXTENDS Naturals

CONSTANTS Projects, Runs, Insts, Snaps, None

ASSUME TimelineAssumption ==
  None \notin Projects \cup Runs \cup Insts \cup Snaps

VARIABLES
  runs,        \* table runs: run -> project
  instRun,     \* table instances: instance -> run
  instSnap,    \* instances.snapshot_id, the lineage pointer
  instState,   \* instances.state
  snapRun,     \* table snapshots: snapshot -> run
  snapParent,  \* snapshots.parent_id
  snapTime,    \* snapshots.created_at
  now          \* the clock the rows are stamped with

tables == <<runs, instRun, instSnap, instState, snapRun, snapParent, snapTime, now>>

TablesOK ==
  /\ runs \in [Runs -> Projects \cup {None}]
  /\ instRun \in [Insts -> Runs \cup {None}]
  /\ instSnap \in [Insts -> Snaps \cup {None}]
  /\ instState \in [Insts -> {"none", "RUNNING", "DESTROYED"}]
  /\ snapRun \in [Snaps -> Runs \cup {None}]
  /\ snapParent \in [Snaps -> Snaps \cup {None}]
  /\ snapTime \in [Snaps -> Nat]
  /\ now \in Nat

NoTables ==
  /\ runs = [r \in Runs |-> None]
  /\ instRun = [i \in Insts |-> None]
  /\ instSnap = [i \in Insts |-> None]
  /\ instState = [i \in Insts |-> "none"]
  /\ snapRun = [s \in Snaps |-> None]
  /\ snapParent = [s \in Snaps |-> None]
  /\ snapTime = [s \in Snaps |-> 0]
  /\ now = 0

(* create_run: the run and its genesis instance. *)
InsertRun(r, i, p) ==
  /\ runs[r] = None /\ instRun[i] = None
  /\ runs' = [runs EXCEPT ![r] = p]
  /\ instRun' = [instRun EXCEPT ![i] = r]
  /\ instState' = [instState EXCEPT ![i] = "RUNNING"]
  /\ UNCHANGED <<instSnap, snapRun, snapParent, snapTime, now>>

(* Mutant: the lineage pointer of the instance is not advanced. *)
InsertSnapshotOnly(s, i, par) ==
  /\ snapRun[s] = None /\ instRun[i] # None
  /\ snapRun' = [snapRun EXCEPT ![s] = instRun[i]]
  /\ snapParent' = [snapParent EXCEPT ![s] = par]
  /\ snapTime' = [snapTime EXCEPT ![s] = now + 1]
  /\ now' = now + 1
  /\ UNCHANGED <<runs, instRun, instSnap, instState>>

(* Mutant: the parent is read after the pointer has moved. *)
InsertSnapshotSelf(s, i, par) ==
  /\ snapRun[s] = None /\ instRun[i] # None
  /\ snapRun' = [snapRun EXCEPT ![s] = instRun[i]]
  /\ snapParent' = [snapParent EXCEPT ![s] = s]
  /\ snapTime' = [snapTime EXCEPT ![s] = now + 1]
  /\ now' = now + 1
  /\ instSnap' = [instSnap EXCEPT ![i] = s]
  /\ UNCHANGED <<runs, instRun, instState>>

(* Mutant: the UPDATE rewrites the state read with the pointer. *)
InsertSnapshotRevives(s, i, par) ==
  /\ snapRun[s] = None /\ instRun[i] # None
  /\ snapRun' = [snapRun EXCEPT ![s] = instRun[i]]
  /\ snapParent' = [snapParent EXCEPT ![s] = par]
  /\ snapTime' = [snapTime EXCEPT ![s] = now + 1]
  /\ now' = now + 1
  /\ instSnap' = [instSnap EXCEPT ![i] = s]
  /\ instState' = [instState EXCEPT ![i] = "RUNNING"]
  /\ UNCHANGED <<runs, instRun>>

(* snapshot_instance: the snapshot row, and the instance's lineage pointer *)
(* moves to it.                                                            *)
InsertSnapshot(s, i, par) ==
  /\ snapRun[s] = None /\ instRun[i] # None
  /\ snapRun' = [snapRun EXCEPT ![s] = instRun[i]]
  /\ snapParent' = [snapParent EXCEPT ![s] = par]
  /\ snapTime' = [snapTime EXCEPT ![s] = now + 1]
  /\ now' = now + 1
  /\ instSnap' = [instSnap EXCEPT ![i] = s]
  /\ UNCHANGED <<runs, instRun, instState>>

(* fork_snapshot: all the children of one fork at once. *)
InsertForks(K, s) ==
  /\ snapRun[s] # None
  /\ \A i \in K : instRun[i] = None
  /\ instRun' = [i \in Insts |-> IF i \in K THEN snapRun[s] ELSE instRun[i]]
  /\ instSnap' = [i \in Insts |-> IF i \in K THEN s ELSE instSnap[i]]
  /\ instState' = [i \in Insts |-> IF i \in K THEN "RUNNING" ELSE instState[i]]
  /\ UNCHANGED <<runs, snapRun, snapParent, snapTime, now>>

(* destroy_instance *)
MarkDestroyed(i) ==
  /\ instRun[i] # None
  /\ instState' = [instState EXCEPT ![i] = "DESTROYED"]
  /\ UNCHANGED <<runs, instRun, instSnap, snapRun, snapParent, snapTime, now>>

(* The parent of a snapshot is the lineage pointer its instance had at     *)
(* some earlier time: another snapshot of the run, or genesis.             *)
Ancestor(par, i) == par = None \/ (par \in Snaps /\ snapRun[par] = instRun[i])

TimelineNext ==
  \/ \E r \in Runs, i \in Insts, p \in Projects : InsertRun(r, i, p)
  \/ \E s \in Snaps, i \in Insts, par \in Snaps \cup {None} :
       Ancestor(par, i) /\ InsertSnapshot(s, i, par)
  \/ \E K \in SUBSET Insts, s \in Snaps : InsertForks(K, s)
  \/ \E i \in Insts : MarkDestroyed(i)

TimelineSpec == NoTables /\ [][TimelineNext]_tables

-----------------------------------------------------------------------------
(***************************************************************************)
(* The timeline is a DAG per run: a snapshot's parent is a snapshot of the *)
(* same run created before it, so timeline(), which lists snapshots by     *)
(* created_at, shows parents before children; an instance's lineage        *)
(* pointer names a snapshot of its own run; every row belongs to a run.    *)
(***************************************************************************)
SnapOK(s) ==
  snapRun[s] # None =>
    /\ runs[snapRun[s]] # None
    /\ snapTime[s] <= now
    /\ snapParent[s] # None =>
         /\ snapRun[snapParent[s]] = snapRun[s]
         /\ snapTime[snapParent[s]] < snapTime[s]

InstOK(i) ==
  /\ instRun[i] # None => runs[instRun[i]] # None
  /\ instRun[i] # None <=> instState[i] # "none"
  /\ instSnap[i] # None => instRun[i] # None /\ snapRun[instSnap[i]] = instRun[i]

TimelineIsDAG == (\A s \in Snaps : SnapOK(s)) /\ (\A i \in Insts : InstOK(i))

(***************************************************************************)
(* Snapshots are immutable and never removed, an instance stays in its     *)
(* run, and a DESTROYED instance never runs again.                         *)
(***************************************************************************)
Immutable ==
  /\ \A s \in Snaps : snapRun[s] # None =>
       /\ snapRun'[s] = snapRun[s]
       /\ snapParent'[s] = snapParent[s]
       /\ snapTime'[s] = snapTime[s]
  /\ \A i \in Insts :
       /\ instRun[i] # None => instRun'[i] = instRun[i]
       /\ instState[i] = "DESTROYED" => instState'[i] = "DESTROYED"

HistoryIsImmutable == [][Immutable]_tables
=============================================================================
