---------------------------- MODULE EngineProofs ----------------------------
(***************************************************************************)
(* Proofs about Engine and Metering, for every interval and every set of   *)
(* projects, runs, instances, snapshots and handler threads, with any      *)
(* failures and crashes: the engine's database implements Timeline, a VM   *)
(* in LIVE is up or exited by itself, a paused one is about to be resumed, *)
(* a row is written only by its owner; no instance is charged for more     *)
(* than its uptime and one interval, a bill is the sum of the charges of   *)
(* its own instances, and an instance is charged once at most after its    *)
(* destroy, or was destroyed before its boot had ended.                    *)
(***************************************************************************)
EXTENDS Metering, TimelineProofs, FiniteSetTheorems

-----------------------------------------------------------------------------
(* Engine. *)

LEMMA IdleRequest == Idle \in Request
  BY DEF Idle, Request, Steps

(***************************************************************************)
(* What a request under way relies on: its instance and snapshot are ids,  *)
(* and the parent a snapshot request has read stays a snapshot of the run  *)
(* of its instance.                                                        *)
(***************************************************************************)
Capturing == {"pause", "create", "seal", "resume", "store"}

ReqOK(r) ==
  /\ req[r].op \in Capturing \cup {"genesis", "insert", "kill", "update"}
       => req[r].iid \in Insts
  /\ req[r].op \in Capturing \cup {"fork", "insert"} => req[r].sid \in Snaps
  /\ req[r].op \in Capturing =>
       instRun[req[r].iid] # None /\ Ancestor(req[r].par, req[r].iid)

EngineInv == TypeOK /\ TimelineIsDAG /\ \A r \in Reqs : ReqOK(r)

LEMMA StepRefines ==
  ASSUME EngineInv, [Next]_vars PROVE [TimelineNext]_tables
<1> USE DEF EngineInv, ReqOK, Capturing, At
<1>0. \A r \in Reqs : req[r] \in Request
  BY DEF TypeOK
<1>1. ASSUME NEW r \in Reqs, NEW p \in Projects, Start(r, p)
      PROVE  [TimelineNext]_tables
  BY <1>1 DEF Start, CreateRun, StartSnapshot, StartFork, StartDestroy, TimelineNext
<1>2. ASSUME NEW r \in Reqs, Step(r) PROVE [TimelineNext]_tables
  <2>1. CASE StoreSnapshot(r)
    <3>1. /\ req[r].sid \in Snaps /\ req[r].iid \in Insts
          /\ req[r].par \in Snaps \cup {None}
          /\ Ancestor(req[r].par, req[r].iid)
      BY <1>0, <2>1 DEF StoreSnapshot, Request
    <3> QED BY <2>1, <3>1 DEF StoreSnapshot, TimelineNext
  <2>2. CASE CommitFork(r)
    <3>1. req[r].sid \in Snaps /\ req[r].kids \in SUBSET Insts
      BY <1>0, <2>2 DEF CommitFork, Request
    <3> QED BY <2>2, <3>1 DEF CommitFork, TimelineNext
  <2>3. CASE CommitDestroy(r)
    BY <2>3 DEF CommitDestroy, TimelineNext
  <2>4. CASE ~(StoreSnapshot(r) \/ CommitFork(r) \/ CommitDestroy(r))
    <3>1. UNCHANGED tables
      BY <1>2, <2>4 DEF Step, BootGenesis, BootGenesisFails, PauseVm, CreateImage,
        SealDisk, ResumeVm, SnapshotFails, BootFork, BootForkFails, InsertFork,
        InsertForkFails, KillVm, DestroyFails, Abort
    <3> QED BY <3>1
  <2> QED BY <2>1, <2>2, <2>3, <2>4
<1>3. ASSUME NEW i \in Insts, GuestWrites(i) \/ VmExits(i) PROVE UNCHANGED tables
  BY <1>3 DEF GuestWrites, VmExits
<1>4. ASSUME NEW killed \in BOOLEAN, Crash(killed) PROVE UNCHANGED tables
  BY <1>4 DEF Crash
<1> QED BY <1>1, <1>2, <1>3, <1>4 DEF Next, vars

(* The part of TypeOK that is not about the tables. *)
StateOK ==
  /\ live \subseteq Insts
  /\ vm \in [Insts -> {"none", "running", "paused", "exited", "leaked", "dead"}]
  /\ disk \in [Insts -> Nat]
  /\ memAt \in [Snaps -> Nat]
  /\ diskAt \in [Snaps -> Nat]
  /\ lock \in Reqs \cup {None}
  /\ taken \subseteq Runs \cup Insts \cup Snaps
  /\ req \in [Reqs -> Request]

LEMMA StartStep ==
  ASSUME EngineInv, NEW r \in Reqs, NEW p \in Projects, Start(r, p)
  PROVE  StateOK'
<1> USE DEF StateOK, machines, images
<1>0. StateOK /\ TablesOK
  BY DEF EngineInv, TypeOK
<1>1. ASSUME NEW rid \in Runs, NEW i \in Insts, CreateRun(r, p, rid, i) PROVE StateOK'
  <2>1. [Idle EXCEPT !.op = "genesis", !.who = p, !.iid = i] \in Request
    BY DEF Idle, Request, Steps
  <2> QED BY <1>0, <1>1, <2>1 DEF CreateRun, Serve
<1>2. ASSUME NEW i \in Insts, NEW s \in Snaps, StartSnapshot(r, p, i, s) PROVE StateOK'
  <2>1. [Idle EXCEPT !.op = "pause", !.who = p, !.iid = i, !.sid = s,
                     !.par = instSnap[i]] \in Request
    BY <1>0 DEF Idle, Request, Steps, TablesOK
  <2> QED BY <1>0, <1>2, <2>1 DEF StartSnapshot, Serve, New
<1>3. ASSUME NEW s \in Snaps, NEW K \in SUBSET Insts, StartFork(r, p, s, K) PROVE StateOK'
  <2>1. [Idle EXCEPT !.op = "fork", !.who = p, !.sid = s, !.todo = K] \in Request
    BY DEF Idle, Request, Steps
  <2> QED BY <1>0, <1>3, <2>1 DEF StartFork, Serve
<1>4. ASSUME NEW i \in Insts, StartDestroy(r, p, i) PROVE StateOK'
  <2>1. [Idle EXCEPT !.op = IF i \in live THEN "kill" ELSE "update",
                     !.who = p, !.iid = i] \in Request
    BY DEF Idle, Request, Steps
  <2> QED BY <1>0, <1>4, <2>1 DEF StartDestroy, Serve
<1> QED BY <1>1, <1>2, <1>3, <1>4 DEF Start

LEMMA GotoRequest ==
  ASSUME StateOK, NEW r \in Reqs, NEW l \in Steps, Goto(r, l)
  PROVE  req' \in [Reqs -> Request]
<1>1. [req[r] EXCEPT !.op = l] \in Request
  BY DEF StateOK, Request
<1> QED BY <1>1 DEF StateOK, Goto

LEMMA AbortState ==
  ASSUME StateOK, NEW r \in Reqs, Abort(r)
  PROVE  /\ req' \in [Reqs -> Request] /\ lock' \in Reqs \cup {None}
         /\ memAt' = memAt /\ diskAt' = diskAt
  BY IdleRequest DEF StateOK, Abort, Serve, images

LEMMA StepState ==
  ASSUME EngineInv, NEW r \in Reqs, Step(r)
  PROVE  StateOK'
<1>0. StateOK /\ ReqOK(r) /\ req[r] \in Request
  BY DEF EngineInv, TypeOK, StateOK
<1>s. {"create", "seal", "resume", "store", "fork", "insert", "update"} \subseteq Steps
  BY DEF Steps
<1> USE DEF machines, images
<1>1. CASE BootGenesis(r)
  BY <1>0, <1>1, IdleRequest DEF BootGenesis, BootUp, Serve, StateOK, ReqOK, At
<1>2. CASE BootGenesisFails(r)
  BY <1>0, <1>2, AbortState DEF BootGenesisFails, BootDown, StateOK, ReqOK, At
<1>3. CASE PauseVm(r)
  BY <1>0, <1>3, <1>s, GotoRequest DEF PauseVm, SetVm, StateOK
<1>4. CASE CreateImage(r)
  <2>1. disk[req[r].iid] \in Nat
    BY <1>0, <1>4 DEF CreateImage, At, ReqOK, Capturing, StateOK
  <2> QED BY <1>0, <1>4, <1>s, <2>1, GotoRequest DEF CreateImage, StateOK
<1>5. CASE SealDisk(r)
  <2>1. disk[req[r].iid] \in Nat
    BY <1>0, <1>5 DEF SealDisk, At, ReqOK, Capturing, StateOK
  <2> QED BY <1>0, <1>5, <1>s, <2>1, GotoRequest DEF SealDisk, StateOK
<1>6. CASE ResumeVm(r)
  BY <1>0, <1>6, <1>s, GotoRequest DEF ResumeVm, SetVm, StateOK
<1>7. CASE StoreSnapshot(r)
  BY <1>0, <1>7, IdleRequest DEF StoreSnapshot, Serve, StateOK
<1>8. CASE SnapshotFails(r)
  BY <1>0, <1>8, AbortState DEF SnapshotFails, StateOK
<1>9. ASSUME NEW i \in Insts, BootFork(r, i) PROVE StateOK'
  <2>1. [req[r] EXCEPT !.op = "insert", !.iid = i] \in Request
    BY <1>0, <1>s DEF Request
  <2>2. diskAt[req[r].sid] \in Nat
    BY <1>0, <1>9 DEF BootFork, At, ReqOK, StateOK
  <2> QED BY <1>0, <1>9, <2>1, <2>2 DEF BootFork, Serve, StateOK
<1>10. ASSUME NEW i \in Insts, BootForkFails(r, i) PROVE StateOK'
  BY <1>0, <1>10, AbortState DEF BootForkFails, BootDown, StateOK
<1>11. CASE InsertFork(r)
  <2>1. req[r].iid \in Insts
    BY <1>0, <1>11 DEF InsertFork, At, ReqOK
  <2>2. [req[r] EXCEPT !.op = "fork", !.todo = @ \ {req[r].iid},
                       !.kids = @ \cup {req[r].iid}] \in Request
    BY <1>0, <1>s, <2>1 DEF Request
  <2> QED BY <1>0, <1>11, <2>2 DEF InsertFork, Serve, StateOK
<1>12. CASE InsertForkFails(r)
  BY <1>0, <1>12, AbortState DEF InsertForkFails, StateOK
<1>13. CASE CommitFork(r)
  BY <1>0, <1>13, IdleRequest DEF CommitFork, Serve, StateOK
<1>14. CASE KillVm(r)
  BY <1>0, <1>14, <1>s, GotoRequest DEF KillVm, StateOK
<1>15. CASE CommitDestroy(r)
  BY <1>0, <1>15, IdleRequest DEF CommitDestroy, Serve, StateOK
<1>16. CASE DestroyFails(r)
  BY <1>0, <1>16, AbortState DEF DestroyFails, StateOK
<1> QED BY <1>1, <1>2, <1>3, <1>4, <1>5, <1>6, <1>7, <1>8, <1>9, <1>10, <1>11,
           <1>12, <1>13, <1>14, <1>15, <1>16 DEF Step

(* A request that did not move still has what it relies on: committed rows *)
(* stay in their run.                                                      *)
LEMMA ReqFrame ==
  ASSUME EngineInv, Immutable, NEW x \in Reqs,
         req'[x].iid = req[x].iid, req'[x].sid = req[x].sid,
         req'[x].par = req[x].par,
         \/ req'[x].op = req[x].op
         \/ req[x].op \in Capturing /\ req'[x].op \in Capturing
         \/ req[x].op = "kill" /\ req'[x].op = "update"
  PROVE  ReqOK(x)'
<1>1. ReqOK(x) /\ TablesOK
  BY DEF EngineInv, TypeOK
<1>2. req'[x].op \in Capturing =>
        instRun'[req[x].iid] # None /\ Ancestor(req[x].par, req[x].iid)'
  <2> SUFFICES ASSUME req'[x].op \in Capturing
               PROVE  instRun'[req[x].iid] # None /\ Ancestor(req[x].par, req[x].iid)'
    OBVIOUS
  <2>1. /\ req[x].iid \in Insts
        /\ instRun[req[x].iid] # None /\ Ancestor(req[x].par, req[x].iid)
    BY <1>1 DEF ReqOK, Capturing
  <2>2. instRun'[req[x].iid] = instRun[req[x].iid]
    BY <2>1 DEF Immutable
  <2> QED BY <2>1, <2>2 DEF Immutable, Ancestor
<1> QED BY <1>1, <1>2 DEF ReqOK, Capturing

LEMMA IdleOK == ASSUME NEW x \in Reqs, req'[x] = Idle PROVE ReqOK(x)'
  BY DEF ReqOK, Idle, Capturing

LEMMA StartReq ==
  ASSUME EngineInv, Immutable, NEW r \in Reqs, NEW p \in Projects, Start(r, p)
  PROVE  \A x \in Reqs : ReqOK(x)'
<1>0. req \in [Reqs -> Request] /\ TablesOK
  BY DEF EngineInv, TypeOK
<1>a. ASSUME NEW x \in Reqs, x # r, NEW q, Serve(r, q) PROVE ReqOK(x)'
  <2>1. req'[x] = req[x]
    BY <1>0, <1>a DEF Serve
  <2> QED BY <2>1, ReqFrame
<1>1. ASSUME NEW rid \in Runs, NEW i \in Insts, CreateRun(r, p, rid, i)
      PROVE  ReqOK(r)' /\ \E q : Serve(r, q)
  BY <1>0, <1>1 DEF CreateRun, Serve, ReqOK, Capturing, Idle
<1>2. ASSUME NEW i \in Insts, NEW s \in Snaps, StartSnapshot(r, p, i, s)
      PROVE  ReqOK(r)' /\ \E q : Serve(r, q)
  <2>1. instRun[i] # None /\ InstOK(i) /\ instSnap[i] \in Snaps \cup {None}
    BY <1>0, <1>2 DEF StartSnapshot, OwnsInst, EngineInv, TimelineIsDAG, TablesOK
  <2>2. instRun' = instRun /\ snapRun' = snapRun
    BY <1>2 DEF StartSnapshot, tables
  <2>3. Ancestor(instSnap[i], i)'
    <3>1. Ancestor(instSnap[i], i)
      BY <2>1 DEF InstOK, Ancestor
    <3>2. instSnap' = instSnap
      BY <1>2 DEF StartSnapshot, tables
    <3> QED BY <2>2, <3>1, <3>2 DEF Ancestor
  <2>4. req'[r] = [Idle EXCEPT !.op = "pause", !.who = p, !.iid = i, !.sid = s,
                               !.par = instSnap[i]]
    BY <1>0, <1>2 DEF StartSnapshot, Serve
  <2>5. instSnap' = instSnap
    BY <1>2 DEF StartSnapshot, tables
  <2>6. /\ req'[r].op = "pause" /\ req'[r].iid = i /\ req'[r].sid = s
        /\ req'[r].par = instSnap[i]
    BY <2>4 DEF Idle
  <2>7. Ancestor(req[r].par, req[r].iid)'
    BY <2>3, <2>5, <2>6 DEF Ancestor
  <2> QED BY <1>2, <2>1, <2>2, <2>6, <2>7 DEF StartSnapshot, ReqOK, Capturing
<1>3. ASSUME NEW s \in Snaps, NEW K \in SUBSET Insts, StartFork(r, p, s, K)
      PROVE  ReqOK(r)' /\ \E q : Serve(r, q)
  BY <1>0, <1>3 DEF StartFork, Serve, ReqOK, Capturing, Idle
<1>4. ASSUME NEW i \in Insts, StartDestroy(r, p, i)
      PROVE  ReqOK(r)' /\ \E q : Serve(r, q)
  BY <1>0, <1>4 DEF StartDestroy, Serve, ReqOK, Capturing, Idle
<1>5. ReqOK(r)' /\ \E q : Serve(r, q)
  BY <1>1, <1>2, <1>3, <1>4 DEF Start
<1> QED BY <1>a, <1>5

LEMMA StepReq ==
  ASSUME EngineInv, Immutable, NEW r \in Reqs, Step(r)
  PROVE  \A x \in Reqs : ReqOK(x)'
<1>0. req \in [Reqs -> Request] /\ ReqOK(r) /\ req[r] \in Request
  BY DEF EngineInv, TypeOK
<1>a. ASSUME NEW q, Serve(r, q)
      PROVE  req'[r] = q /\ \A x \in Reqs \ {r} : ReqOK(x)'
  <2>1. req'[r] = q /\ \A x \in Reqs \ {r} : req'[x] = req[x]
    BY <1>0, <1>a DEF Serve
  <2> QED BY <2>1, ReqFrame
<1>b. ASSUME Serve(r, Idle) PROVE \A x \in Reqs : ReqOK(x)'
  BY <1>a, <1>b, IdleOK
<1>c. ASSUME NEW l \in Capturing \cup {"update"}, Goto(r, l),
             \/ l \in Capturing /\ req[r].op \in Capturing
             \/ l = "update" /\ req[r].op = "kill"
      PROVE  \A x \in Reqs : ReqOK(x)'
  <2>1. ASSUME NEW x \in Reqs
        PROVE  /\ req'[x].iid = req[x].iid /\ req'[x].sid = req[x].sid
               /\ req'[x].par = req[x].par
               /\ req'[x].op = IF x = r THEN l ELSE req[x].op
    BY <1>0, <1>c DEF Goto, Request
  <2> QED BY <1>c, <2>1, ReqFrame
<1>1. CASE BootGenesis(r) \/ StoreSnapshot(r) \/ CommitFork(r) \/ CommitDestroy(r)
  BY <1>1, <1>b DEF BootGenesis, StoreSnapshot, CommitFork, CommitDestroy
<1>2. CASE BootGenesisFails(r) \/ SnapshotFails(r) \/ InsertForkFails(r) \/ DestroyFails(r)
  BY <1>2, <1>b DEF BootGenesisFails, SnapshotFails, InsertForkFails, DestroyFails, Abort
<1>3. CASE PauseVm(r) \/ CreateImage(r) \/ SealDisk(r) \/ ResumeVm(r)
  BY <1>3, <1>c DEF PauseVm, CreateImage, SealDisk, ResumeVm, At, Capturing
<1>4. CASE KillVm(r)
  BY <1>4, <1>c DEF KillVm, At
<1>5. ASSUME NEW i \in Insts, BootFork(r, i) PROVE \A x \in Reqs : ReqOK(x)'
  <2>1. req'[r] = [req[r] EXCEPT !.op = "insert", !.iid = i]
    BY <1>5, <1>a DEF BootFork
  <2>2. req'[r].op = "insert" /\ req'[r].iid = i /\ req'[r].sid = req[r].sid
    BY <1>0, <2>1 DEF Request
  <2>3. ReqOK(r)'
    BY <1>0, <1>5, <2>2 DEF BootFork, At, ReqOK, Capturing
  <2> QED BY <1>5, <1>a, <2>3 DEF BootFork
<1>6. ASSUME NEW i \in Insts, BootForkFails(r, i) PROVE \A x \in Reqs : ReqOK(x)'
  BY <1>6, <1>b DEF BootForkFails, Abort
<1>7. CASE InsertFork(r)
  <2>1. req'[r] = [req[r] EXCEPT !.op = "fork", !.todo = @ \ {req[r].iid},
                                 !.kids = @ \cup {req[r].iid}]
    BY <1>7, <1>a DEF InsertFork
  <2>2. req'[r].op = "fork" /\ req'[r].sid = req[r].sid
    BY <1>0, <2>1 DEF Request
  <2>3. ReqOK(r)'
    BY <1>0, <1>7, <2>2 DEF InsertFork, At, ReqOK, Capturing
  <2> QED BY <1>7, <1>a, <2>3 DEF InsertFork
<1> QED BY <1>1, <1>2, <1>3, <1>4, <1>5, <1>6, <1>7 DEF Step

LEMMA EngineStep ==
  ASSUME EngineInv, [Next]_vars PROVE EngineInv' /\ Immutable
<1>0. StateOK /\ TablesOK /\ TimelineIsDAG
  BY DEF EngineInv, TypeOK, StateOK
<1>1. [TimelineNext]_tables
  BY StepRefines
<1>2. TablesOK' /\ TimelineIsDAG' /\ Immutable
  BY <1>0, <1>1, TablesStep, DAGStep, ImmutableStep
<1>3. ASSUME NEW r \in Reqs, NEW p \in Projects, Start(r, p)
      PROVE  StateOK' /\ \A x \in Reqs : ReqOK(x)'
  BY <1>2, <1>3, StartStep, StartReq
<1>4. ASSUME NEW r \in Reqs, Step(r)
      PROVE  StateOK' /\ \A x \in Reqs : ReqOK(x)'
  BY <1>2, <1>4, StepState, StepReq
<1>5. ASSUME NEW i \in Insts, GuestWrites(i) \/ VmExits(i)
      PROVE  StateOK' /\ \A x \in Reqs : ReqOK(x)'
  <2>1. StateOK' /\ req' = req
    BY <1>0, <1>5 DEF GuestWrites, VmExits, StateOK, images
  <2> QED BY <1>2, <2>1, ReqFrame
<1>6. ASSUME NEW killed \in BOOLEAN, Crash(killed)
      PROVE  StateOK' /\ \A x \in Reqs : ReqOK(x)'
  <2>1. StateOK'
    BY <1>0, <1>6, IdleRequest DEF Crash, StateOK, images
  <2>2. \A x \in Reqs : req'[x] = Idle
    BY <1>6 DEF Crash
  <2> QED BY <2>1, <2>2, IdleOK
<1>7. ASSUME UNCHANGED vars PROVE StateOK' /\ \A x \in Reqs : ReqOK(x)'
  <2>1. StateOK' /\ req' = req
    BY <1>0, <1>7 DEF vars, machines, images, StateOK
  <2> QED BY <1>2, <2>1, ReqFrame
<1>8. StateOK' /\ \A x \in Reqs : ReqOK(x)'
  BY <1>3, <1>4, <1>5, <1>6, <1>7 DEF Next
<1> QED BY <1>2, <1>8 DEF EngineInv, TypeOK, StateOK

LEMMA EngineInit == Init => EngineInv
<1> SUFFICES ASSUME Init PROVE EngineInv
  OBVIOUS
<1>1. TablesOK /\ TimelineIsDAG
  BY NoTablesOK DEF Init
<1>2. TypeOK
  BY <1>1, IdleRequest DEF Init, TypeOK
<1>3. \A r \in Reqs : ReqOK(r)
  BY DEF Init, ReqOK, Idle, Capturing
<1> QED BY <1>1, <1>2, <1>3 DEF EngineInv

LEMMA EngineInvariant == Spec => []EngineInv
<1>1. EngineInv /\ [Next]_vars => EngineInv'
  BY EngineStep
<1> QED BY <1>1, EngineInit, PTL DEF Spec

(* The engine's state is always well formed, whatever its threads, its     *)
(* failures and its crashes interleave.                                    *)
THEOREM TypeCorrect == Spec => []TypeOK
<1>1. EngineInv => TypeOK
  BY DEF EngineInv
<1> QED BY <1>1, EngineInvariant, PTL

(* The handlers of kladosd.py implement the abstract timeline: every step  *)
(* of every handler commits one of its transactions or leaves the          *)
(* database alone.                                                         *)
THEOREM EngineRefinesTimeline == Spec => RefinesTimeline
<1>1. Init => NoTables
  BY DEF Init
<1>2. EngineInv /\ [Next]_vars => [TimelineNext]_tables
  BY StepRefines
<1> QED BY <1>1, <1>2, EngineInvariant, PTL DEF Spec, RefinesTimeline, TimelineSpec

(* The timeline the engine serves is a DAG per run. *)
THEOREM EngineDAG == Spec => []TimelineIsDAG
<1>1. TablesOK /\ TimelineIsDAG => TimelineIsDAG
  OBVIOUS
<1> QED BY <1>1, EngineRefinesTimeline, TimelineDAG, PTL DEF RefinesTimeline

(* No handler rewrites a snapshot or revives a destroyed instance. *)
THEOREM EngineImmutable == Spec => HistoryIsImmutable
  BY EngineRefinesTimeline, TimelineImmutable, PTL DEF RefinesTimeline

-----------------------------------------------------------------------------
(* LIVE. *)

(* The instances a request has still to boot. *)
Booting(r) ==
  {i \in Insts : \/ req[r].op = "genesis" /\ i = req[r].iid
                 \/ req[r].op = "fork" /\ i \in req[r].todo
                 \/ req[r].op = "insert" /\ i \in req[r].todo /\ i # req[r].iid}

(***************************************************************************)
(* Why a VM in LIVE is up: an id is booted at most once, by the request    *)
(* that was given it, and what a destroy is about to kill has been booted  *)
(* and is out of LIVE.                                                     *)
(***************************************************************************)
FreshIds ==
  /\ \A r \in Reqs : \A i \in Booting(r) : i \in taken /\ vm[i] = "none"
  /\ \A r, x \in Reqs : r # x => Booting(r) \cap Booting(x) = {}
  /\ \A i \in Insts : i \notin taken => vm[i] = "none"

KillOK ==
  \A r \in Reqs : req[r].op = "kill" => req[r].iid \notin live /\ vm[req[r].iid] # "none"

LiveInv == FreshIds /\ KillOK /\ LiveIsUp

(* A step that only moves requests along, without new ids to boot. *)
LEMMA LiveFrame ==
  ASSUME LiveInv, live' \subseteq live, taken \subseteq taken',
         \A i \in Insts : vm'[i] = vm[i] \/ (Up(i) /\ (Up(i)' \/ vm'[i] = "exited")),
         live \subseteq Insts,
         \A x \in Reqs : Booting(x)' \subseteq Booting(x),
         \A x \in Reqs : req'[x].op = "kill" =>
            /\ req'[x].iid \in Insts /\ req'[x].iid \notin live'
            /\ vm[req'[x].iid] # "none"
  PROVE  LiveInv'
<1>1. \A i \in Insts :
        /\ vm[i] = "none" <=> vm'[i] = "none"
        /\ Up(i) \/ vm[i] = "exited" => Up(i)' \/ vm'[i] = "exited"
  BY DEF Up
<1>2. FreshIds'
  <2>1. ASSUME NEW r \in Reqs, NEW i \in Booting(r)' PROVE i \in taken' /\ vm'[i] = "none"
    <3>1. i \in Insts /\ i \in Booting(r)
      BY <2>1 DEF Booting
    <3> QED BY <1>1, <3>1 DEF LiveInv, FreshIds
  <2>2. ASSUME NEW r \in Reqs, NEW x \in Reqs, r # x PROVE Booting(r)' \cap Booting(x)' = {}
    BY <2>2 DEF LiveInv, FreshIds
  <2>3. ASSUME NEW i \in Insts, i \notin taken' PROVE vm'[i] = "none"
    BY <1>1, <2>3 DEF LiveInv, FreshIds
  <2> QED BY <2>1, <2>2, <2>3 DEF FreshIds
<1>3. KillOK'
  BY <1>1 DEF KillOK
<1>4. LiveIsUp'
  BY <1>1 DEF LiveInv, LiveIsUp
<1> QED BY <1>2, <1>3, <1>4 DEF LiveInv

(* A step that boots one of a request's ids, successfully or not. *)
LEMMA LiveBoot ==
  ASSUME LiveInv, StateOK, NEW r \in Reqs, NEW i \in Insts, i \in Booting(r),
         taken' = taken, NEW st \in {"running", "leaked"},
         vm' = [vm EXCEPT ![i] = st],
         live' = IF st = "running" THEN live \cup {i} ELSE live,
         \A x \in Reqs \ {r} : req'[x] = req[x],
         req'[r].op # "kill", Booting(r)' \subseteq Booting(r) \ {i}
  PROVE  LiveInv'
<1>0. vm[i] = "none" /\ i \in taken
  BY DEF LiveInv, FreshIds
<1>1. i \notin live
  BY <1>0 DEF LiveInv, LiveIsUp, Up
<1>2. \A x \in Reqs : Booting(x)' \subseteq Booting(x) /\ i \notin Booting(x)'
  <2>1. ASSUME NEW x \in Reqs, x # r
        PROVE  Booting(x)' = Booting(x) /\ i \notin Booting(x)
    BY <2>1 DEF Booting, LiveInv, FreshIds
  <2> QED BY <2>1
<1>3. \A j \in Insts : vm'[j] = IF j = i THEN st ELSE vm[j]
  BY DEF StateOK
<1>4. FreshIds'
  <2>1. ASSUME NEW x \in Reqs, NEW j \in Booting(x)' PROVE j \in taken' /\ vm'[j] = "none"
    <3>1. j \in Insts /\ j \in Booting(x) /\ j # i
      BY <1>2, <2>1 DEF Booting
    <3> QED BY <1>3, <3>1 DEF LiveInv, FreshIds
  <2>2. ASSUME NEW y \in Reqs, NEW x \in Reqs, y # x PROVE Booting(y)' \cap Booting(x)' = {}
    BY <1>2, <2>2 DEF LiveInv, FreshIds
  <2>3. ASSUME NEW j \in Insts, j \notin taken' PROVE vm'[j] = "none"
    BY <1>0, <1>3, <2>3 DEF LiveInv, FreshIds
  <2> QED BY <2>1, <2>2, <2>3 DEF FreshIds
<1>5. KillOK'
  <2> SUFFICES ASSUME NEW x \in Reqs, req'[x].op = "kill"
               PROVE  req'[x].iid \notin live' /\ vm'[req'[x].iid] # "none"
    BY DEF KillOK
  <2>1. x # r /\ req'[x] = req[x]
    OBVIOUS
  <2>2. req[x].iid \notin live /\ vm[req[x].iid] # "none"
    BY <2>1 DEF LiveInv, KillOK
  <2>3. req[x].iid # i
    BY <1>0, <2>2
  <2>4. vm'[req[x].iid] = vm[req[x].iid]
    BY <2>3 DEF StateOK
  <2> QED BY <2>1, <2>2, <2>3, <2>4
<1>6. LiveIsUp'
  <2> SUFFICES ASSUME NEW j \in live' PROVE Up(j)' \/ vm'[j] = "exited"
    BY DEF LiveIsUp
  <2>1. CASE j = i
    BY <1>1, <1>3, <2>1 DEF Up
  <2>2. CASE j # i
    <3>1. j \in live /\ j \in Insts
      BY <2>2 DEF StateOK
    <3> QED BY <1>3, <2>2, <3>1 DEF LiveInv, LiveIsUp, Up
  <2> QED BY <2>1, <2>2
<1> QED BY <1>4, <1>5, <1>6 DEF LiveInv

(* A request that is given new ids to boot. *)
LEMMA LiveClaim ==
  ASSUME LiveInv, NEW r \in Reqs, NEW K \in SUBSET Insts, K \cap taken = {},
         taken \cup K \subseteq taken', live' = live, vm' = vm,
         \A x \in Reqs \ {r} : req'[x] = req[x],
         req'[r].op # "kill", Booting(r)' \subseteq K
  PROVE  LiveInv'
<1>1. \A x \in Reqs \ {r} : Booting(x)' = Booting(x)
  BY DEF Booting
<1>2. FreshIds'
  <2>1. ASSUME NEW x \in Reqs, NEW i \in Booting(x)' PROVE i \in taken' /\ vm'[i] = "none"
    BY <1>1, <2>1 DEF LiveInv, FreshIds
  <2>2. ASSUME NEW y \in Reqs, NEW x \in Reqs, y # x PROVE Booting(y)' \cap Booting(x)' = {}
    BY <1>1, <2>2 DEF LiveInv, FreshIds
  <2>3. ASSUME NEW i \in Insts, i \notin taken' PROVE vm'[i] = "none"
    BY <2>3 DEF LiveInv, FreshIds
  <2> QED BY <2>1, <2>2, <2>3 DEF FreshIds
<1>3. KillOK' /\ LiveIsUp'
  BY DEF LiveInv, KillOK, LiveIsUp, Up
<1> QED BY <1>2, <1>3 DEF LiveInv

LEMMA LiveStart ==
  ASSUME EngineInv, LiveInv, NEW r \in Reqs, NEW p \in Projects, Start(r, p)
  PROVE  LiveInv'
<1>0. StateOK
  BY DEF EngineInv, TypeOK, StateOK
<1> USE DEF machines, images
<1>1. ASSUME NEW rid \in Runs, NEW i \in Insts, CreateRun(r, p, rid, i) PROVE LiveInv'
  <2>1. /\ req'[r].op = "genesis" /\ req'[r].iid = i
        /\ \A x \in Reqs \ {r} : req'[x] = req[x]
    BY <1>0, <1>1 DEF CreateRun, Serve, StateOK, Idle
  <2>2. Booting(r)' \subseteq {i}
    BY <2>1 DEF Booting
  <2> QED BY <1>1, <2>1, <2>2, LiveClaim DEF CreateRun
<1>2. ASSUME NEW i \in Insts, NEW s \in Snaps, StartSnapshot(r, p, i, s) PROVE LiveInv'
  <2>1. req'[r].op = "pause" /\ \A x \in Reqs \ {r} : req'[x] = req[x]
    BY <1>0, <1>2 DEF StartSnapshot, Serve, StateOK, Idle
  <2>2. Booting(r)' \subseteq {}
    BY <2>1 DEF Booting
  <2> QED BY <1>2, <2>1, <2>2, LiveClaim DEF StartSnapshot, New
<1>3. ASSUME NEW s \in Snaps, NEW K \in SUBSET Insts, StartFork(r, p, s, K) PROVE LiveInv'
  <2>1. /\ req'[r].op = "fork" /\ req'[r].todo = K
        /\ \A x \in Reqs \ {r} : req'[x] = req[x]
    BY <1>0, <1>3 DEF StartFork, Serve, StateOK, Idle
  <2>2. Booting(r)' \subseteq K
    BY <2>1 DEF Booting
  <2> QED BY <1>3, <2>1, <2>2, LiveClaim DEF StartFork
<1>4. ASSUME NEW i \in Insts, StartDestroy(r, p, i) PROVE LiveInv'
  <2>1. /\ req'[r].op = IF i \in live THEN "kill" ELSE "update"
        /\ req'[r].iid = i
        /\ \A x \in Reqs \ {r} : req'[x] = req[x]
    BY <1>0, <1>4 DEF StartDestroy, Serve, StateOK, Idle
  <2>2. \A x \in Reqs : Booting(x)' \subseteq Booting(x)
    BY <2>1 DEF Booting
  <2>3. ASSUME NEW x \in Reqs, req'[x].op = "kill"
        PROVE  /\ req'[x].iid \in Insts /\ req'[x].iid \notin live'
               /\ vm[req'[x].iid] # "none"
    <3>1. CASE x = r
      BY <1>4, <2>1, <2>3, <3>1 DEF StartDestroy, LiveInv, LiveIsUp, Up
    <3>2. CASE x # r
      <4>1. req'[x] = req[x] /\ ReqOK(x)
        BY <2>1, <3>2 DEF EngineInv
      <4> QED BY <1>4, <2>3, <4>1 DEF StartDestroy, LiveInv, KillOK, ReqOK
    <3> QED BY <3>1, <3>2
  <2>4. vm' = vm /\ live' \subseteq live /\ taken' = taken /\ live \subseteq Insts
    BY <1>0, <1>4 DEF StartDestroy, StateOK
  <2> QED BY <2>2, <2>3, <2>4, LiveFrame
<1> QED BY <1>1, <1>2, <1>3, <1>4 DEF Start

(* What a destroy under way knows stays true while live and vm do. *)
LEMMA KillFrame ==
  ASSUME EngineInv, LiveInv, NEW x \in Reqs, req[x].op = "kill", live' \subseteq live
  PROVE  req[x].iid \in Insts /\ req[x].iid \notin live' /\ vm[req[x].iid] # "none"
<1>1. ReqOK(x)
  BY DEF EngineInv
<1> QED BY <1>1 DEF LiveInv, KillOK, ReqOK

LEMMA LiveStepInv ==
  ASSUME EngineInv, LiveInv, NEW r \in Reqs, Step(r)
  PROVE  LiveInv'
<1>0. StateOK /\ ReqOK(r) /\ req[r] \in Request
  BY DEF EngineInv, TypeOK, StateOK
<1> USE DEF machines, images
<1>a. ASSUME NEW q, Serve(r, q)
      PROVE  req'[r] = q /\ \A x \in Reqs \ {r} : req'[x] = req[x]
  BY <1>0, <1>a DEF Serve, StateOK
(* A request that ends and touches no VM. *)
<1>b. ASSUME Serve(r, Idle), UNCHANGED <<live, vm, taken>> PROVE LiveInv'
  <2>1. req'[r].op = "idle" /\ \A x \in Reqs \ {r} : req'[x] = req[x]
    BY <1>a, <1>b DEF Idle
  <2>2. \A x \in Reqs : Booting(x)' \subseteq Booting(x)
    BY <2>1 DEF Booting
  <2> QED BY <1>0, <1>b, <2>1, <2>2, KillFrame, LiveFrame DEF StateOK
(* A step of a snapshot request: it may pause or resume a VM that is up. *)
<1>c. ASSUME NEW l \in Capturing, Goto(r, l), req[r].op \in Capturing,
             UNCHANGED <<live, taken>>,
             \A i \in Insts : vm'[i] = vm[i] \/ (Up(i) /\ Up(i)')
      PROVE  LiveInv'
  <2>1. req'[r].op = l /\ \A x \in Reqs \ {r} : req'[x] = req[x]
    BY <1>0, <1>c DEF Goto, StateOK, Request
  <2>2. \A x \in Reqs : Booting(x)' \subseteq Booting(x)
    BY <2>1 DEF Booting, Capturing
  <2>3. l # "kill"
    BY DEF Capturing
  <2> QED BY <1>0, <1>c, <2>1, <2>2, <2>3, KillFrame, LiveFrame DEF StateOK
<1>1. CASE BootGenesis(r)
  <2>1. req[r].iid \in Insts /\ req[r].iid \in Booting(r)
    BY <1>0, <1>1 DEF BootGenesis, At, ReqOK, Booting
  <2>2. req'[r].op = "idle" /\ \A x \in Reqs \ {r} : req'[x] = req[x]
    BY <1>1, <1>a DEF BootGenesis, Idle
  <2>3. Booting(r)' \subseteq Booting(r) \ {req[r].iid}
    BY <2>2 DEF Booting
  <2> QED BY <1>0, <1>1, <2>1, <2>2, <2>3, LiveBoot DEF BootGenesis, BootUp
<1>2. CASE BootGenesisFails(r)
  <2>1. req[r].iid \in Insts /\ req[r].iid \in Booting(r)
    BY <1>0, <1>2 DEF BootGenesisFails, At, ReqOK, Booting
  <2>2. req'[r].op = "idle" /\ \A x \in Reqs \ {r} : req'[x] = req[x]
    BY <1>2, <1>a DEF BootGenesisFails, Abort, Idle
  <2>3. Booting(r)' \subseteq Booting(r) \ {req[r].iid}
    BY <2>2 DEF Booting
  <2> QED BY <1>0, <1>2, <2>1, <2>2, <2>3, LiveBoot DEF BootGenesisFails, BootDown
<1>3. CASE PauseVm(r) \/ ResumeVm(r)
  <2>1. \A i \in Insts : vm'[i] = vm[i] \/ (Up(i) /\ Up(i)')
    BY <1>0, <1>3 DEF PauseVm, ResumeVm, SetVm, Up, StateOK
  <2> QED BY <1>3, <1>c, <2>1 DEF PauseVm, ResumeVm, SetVm, At, Capturing
<1>4. CASE CreateImage(r) \/ SealDisk(r)
  BY <1>4, <1>c DEF CreateImage, SealDisk, At, Capturing
<1>5. CASE StoreSnapshot(r) \/ CommitFork(r) \/ CommitDestroy(r)
  BY <1>5, <1>b DEF StoreSnapshot, CommitFork, CommitDestroy
<1>6. CASE SnapshotFails(r) \/ InsertForkFails(r) \/ DestroyFails(r)
  BY <1>6, <1>b DEF SnapshotFails, InsertForkFails, DestroyFails, Abort
<1>7. ASSUME NEW i \in Insts, BootFork(r, i) PROVE LiveInv'
  <2>1. i \in Booting(r)
    BY <1>7 DEF BootFork, At, Booting
  <2>2. /\ req'[r] = [req[r] EXCEPT !.op = "insert", !.iid = i]
        /\ \A x \in Reqs \ {r} : req'[x] = req[x]
    BY <1>7, <1>a DEF BootFork
  <2>3. req'[r].op = "insert" /\ req'[r].iid = i /\ req'[r].todo = req[r].todo
    BY <1>0, <2>2 DEF Request
  <2>4. Booting(r)' \subseteq Booting(r) \ {i}
    BY <1>7, <2>3 DEF BootFork, At, Booting
  <2> QED BY <1>0, <1>7, <2>1, <2>2, <2>3, <2>4, LiveBoot DEF BootFork
<1>8. ASSUME NEW i \in Insts, BootForkFails(r, i) PROVE LiveInv'
  <2>1. i \in Booting(r)
    BY <1>8 DEF BootForkFails, At, Booting
  <2>2. req'[r].op = "idle" /\ \A x \in Reqs \ {r} : req'[x] = req[x]
    BY <1>8, <1>a DEF BootForkFails, Abort, Idle
  <2>3. Booting(r)' \subseteq Booting(r) \ {i}
    BY <2>2 DEF Booting
  <2> QED BY <1>0, <1>8, <2>1, <2>2, <2>3, LiveBoot DEF BootForkFails, BootDown
<1>9. CASE InsertFork(r)
  <2>1. /\ req'[r] = [req[r] EXCEPT !.op = "fork", !.todo = @ \ {req[r].iid},
                                    !.kids = @ \cup {req[r].iid}]
        /\ \A x \in Reqs \ {r} : req'[x] = req[x]
    BY <1>9, <1>a DEF InsertFork
  <2>2. req'[r].op = "fork" /\ req'[r].todo = req[r].todo \ {req[r].iid}
    BY <1>0, <2>1 DEF Request
  <2>3. \A x \in Reqs : Booting(x)' \subseteq Booting(x)
    BY <1>9, <2>1, <2>2 DEF InsertFork, At, Booting
  <2>4. UNCHANGED <<live, vm, taken>>
    BY <1>9 DEF InsertFork
  <2> QED BY <1>0, <2>1, <2>2, <2>3, <2>4, KillFrame, LiveFrame DEF StateOK
<1>10. CASE KillVm(r)
  <2>1. /\ req[r].iid \in Insts /\ req[r].iid \notin live
        /\ vm[req[r].iid] # "none"
    BY <1>10, KillFrame DEF KillVm, At
  <2>2. req'[r].op = "update" /\ \A x \in Reqs \ {r} : req'[x] = req[x]
    BY <1>0, <1>10 DEF KillVm, Goto, StateOK, Request
  <2>3. UNCHANGED <<live, taken>>
    BY <1>10 DEF KillVm
  <2>4. \A j \in Insts : vm'[j] = IF j = req[r].iid THEN "dead" ELSE vm[j]
    BY <1>0, <1>10 DEF KillVm, StateOK
  <2>5. \A x \in Reqs : Booting(x)' \subseteq Booting(x)
    BY <2>2 DEF Booting
  <2>6. FreshIds'
    <3>1. \A j \in Insts : vm[j] = "none" <=> vm'[j] = "none"
      BY <2>1, <2>4
    <3>2. ASSUME NEW x \in Reqs, NEW j \in Booting(x)' PROVE j \in taken' /\ vm'[j] = "none"
      <4>1. j \in Insts /\ j \in Booting(x)
        BY <2>5, <3>2 DEF Booting
      <4> QED BY <2>3, <3>1, <4>1 DEF LiveInv, FreshIds
    <3>3. ASSUME NEW y \in Reqs, NEW x \in Reqs, y # x PROVE Booting(y)' \cap Booting(x)' = {}
      BY <2>5, <3>3 DEF LiveInv, FreshIds
    <3> QED BY <2>3, <3>1, <3>2, <3>3 DEF LiveInv, FreshIds
  <2>7. KillOK'
    <3> SUFFICES ASSUME NEW x \in Reqs, req'[x].op = "kill"
                 PROVE  req'[x].iid \notin live' /\ vm'[req'[x].iid] # "none"
      BY DEF KillOK
    <3>1. req'[x] = req[x]
      BY <2>2
    <3> QED BY <2>3, <2>4, <3>1, KillFrame
  <2>8. LiveIsUp'
    BY <1>0, <2>1, <2>3, <2>4 DEF LiveInv, LiveIsUp, Up, StateOK
  <2> QED BY <2>6, <2>7, <2>8 DEF LiveInv
<1> QED BY <1>1, <1>2, <1>3, <1>4, <1>5, <1>6, <1>7, <1>8, <1>9, <1>10 DEF Step

LEMMA LiveNext ==
  ASSUME EngineInv, LiveInv, [Next]_vars PROVE LiveInv'
<1>0. StateOK
  BY DEF EngineInv, TypeOK, StateOK
<1>a. ASSUME UNCHANGED <<live, vm, taken, req>> PROVE LiveInv'
  BY <1>a DEF LiveInv, FreshIds, KillOK, LiveIsUp, Booting, Up
<1>1. ASSUME NEW i \in Insts, GuestWrites(i) PROVE LiveInv'
  BY <1>1, <1>a DEF GuestWrites
<1>4. ASSUME NEW i \in Insts, VmExits(i) PROVE LiveInv'
  <2>1. UNCHANGED <<live, taken, req>> /\ live \subseteq Insts
    BY <1>0, <1>4 DEF VmExits, StateOK
  <2>2. \A j \in Insts : vm'[j] = vm[j] \/ (Up(j) /\ vm'[j] = "exited")
    BY <1>0, <1>4 DEF VmExits, StateOK
  <2>3. \A x \in Reqs : Booting(x)' \subseteq Booting(x)
    BY <2>1 DEF Booting
  <2> QED BY <2>1, <2>2, <2>3, KillFrame, LiveFrame
<1>2. ASSUME NEW killed \in BOOLEAN, Crash(killed) PROVE LiveInv'
  <2>1. live' = {} /\ taken' = taken /\ \A x \in Reqs : req'[x].op = "idle"
    BY <1>2 DEF Crash, Idle
  <2>2. \A i \in Insts : vm[i] = "none" => vm'[i] = "none"
    BY <1>2 DEF Crash
  <2>3. \A x \in Reqs : Booting(x)' = {}
    BY <2>1 DEF Booting
  <2> QED BY <2>1, <2>2, <2>3 DEF LiveInv, FreshIds, KillOK, LiveIsUp
<1>3. ASSUME UNCHANGED vars PROVE LiveInv'
  BY <1>3, <1>a DEF vars, machines
<1> QED BY <1>1, <1>2, <1>3, <1>4, LiveStart, LiveStepInv DEF Next

LEMMA LiveInvariant == Spec => []LiveInv
<1>1. Init => LiveInv
  BY DEF Init, LiveInv, FreshIds, KillOK, LiveIsUp, Booting, Idle
<1>2. EngineInv /\ LiveInv /\ [Next]_vars => LiveInv'
  BY LiveNext
<1> QED BY <1>1, <1>2, EngineInvariant, PTL DEF Spec

(* No interleaving of create, fork, snapshot and destroy, no failed boot   *)
(* and no crash leaves a VM in LIVE that the engine has killed, left half  *)
(* booted or never booted: a VM in LIVE that is not up exited by itself.   *)
THEOREM LiveVmIsUp == Spec => []LiveIsUp
<1>1. LiveInv => LiveIsUp
  BY DEF LiveInv
<1> QED BY <1>1, LiveInvariant, PTL

-----------------------------------------------------------------------------
(* Paused VMs. *)

Attends(r, i) == req[r].op \in {"create", "seal", "resume"} /\ req[r].iid = i

(* A step of one request keeps every paused VM attended, when the VMs it   *)
(* leaves paused either were so before and have not lost this request, or  *)
(* have it now.                                                            *)
LEMMA AttendFrame ==
  ASSUME PausedIsAttended, NEW r \in Reqs,
         \A x \in Reqs \ {r} : req'[x] = req[x],
         \A i \in live' : vm'[i] = "paused" =>
           \/ Attends(r, i)'
           \/ i \in live /\ vm[i] = "paused" /\ ~Attends(r, i)
  PROVE  PausedIsAttended'
<1> SUFFICES ASSUME NEW i \in live', vm'[i] = "paused"
             PROVE  \E x \in Reqs : Attends(x, i)'
  BY DEF PausedIsAttended, Attends
<1>1. CASE Attends(r, i)'
  BY <1>1
<1>2. CASE i \in live /\ vm[i] = "paused" /\ ~Attends(r, i)
  <2>1. PICK x \in Reqs : Attends(x, i)
    BY <1>2 DEF PausedIsAttended, Attends
  <2>2. x # r /\ req'[x] = req[x]
    BY <1>2, <2>1
  <2> QED BY <2>1, <2>2 DEF Attends
<1> QED BY <1>1, <1>2

LEMMA AttendStart ==
  ASSUME EngineInv, PausedIsAttended, NEW r \in Reqs, NEW p \in Projects, Start(r, p)
  PROVE  PausedIsAttended'
<1>0. StateOK
  BY DEF EngineInv, TypeOK, StateOK
<1>1. /\ req[r].op = "idle" /\ vm' = vm /\ live' \subseteq live
      /\ \E q : Serve(r, q)
  BY DEF Start, CreateRun, StartSnapshot, StartFork, StartDestroy, At, machines
<1>2. \A x \in Reqs \ {r} : req'[x] = req[x]
  BY <1>0, <1>1 DEF Serve, StateOK
<1>3. \A i \in live' : i \in live /\ ~Attends(r, i)
  BY <1>1 DEF Attends
<1> QED BY <1>1, <1>2, <1>3, AttendFrame

LEMMA AttendStep ==
  ASSUME EngineInv, LiveInv, PausedIsAttended, ~ApiFaults, NEW r \in Reqs, Step(r)
  PROVE  PausedIsAttended'
<1>0. StateOK /\ ReqOK(r) /\ req[r] \in Request /\ live \subseteq Insts
  BY DEF EngineInv, TypeOK, StateOK
<1> USE DEF machines, images
<1>a. ASSUME NEW q, Serve(r, q)
      PROVE  req'[r] = q /\ \A x \in Reqs \ {r} : req'[x] = req[x]
  BY <1>0, <1>a DEF Serve, StateOK
<1>b. ASSUME NEW l, Goto(r, l)
      PROVE  /\ req'[r].op = l /\ req'[r].iid = req[r].iid
             /\ \A x \in Reqs \ {r} : req'[x] = req[x]
  BY <1>0, <1>b DEF Goto, StateOK, Request
<1>c. ASSUME req[r].op \notin {"create", "seal", "resume"}
      PROVE  \A i \in Insts : ~Attends(r, i)
  BY <1>c DEF Attends
(* A boot, or a kill: the only VM it touches is not paused afterwards. *)
<1>d. ASSUME NEW i \in Insts, NEW st \in {"running", "leaked", "dead"},
             vm' = [vm EXCEPT ![i] = st], live' \subseteq live \cup {i},
             req[r].op \notin {"create", "seal", "resume"},
             \A x \in Reqs \ {r} : req'[x] = req[x]
      PROVE  PausedIsAttended'
  <2>1. \A j \in Insts : vm'[j] = IF j = i THEN st ELSE vm[j]
    BY <1>0, <1>d DEF StateOK
  <2>2. \A j \in live' : vm'[j] = "paused" => j \in live /\ vm[j] = "paused"
    BY <1>0, <1>d, <2>1
  <2> QED BY <1>0, <1>c, <1>d, <2>2, AttendFrame
(* A step that leaves the VMs alone and was not attending to one. *)
<1>e. ASSUME live' = live, vm' = vm, req[r].op \notin {"create", "seal", "resume"},
             \A x \in Reqs \ {r} : req'[x] = req[x]
      PROVE  PausedIsAttended'
  BY <1>0, <1>c, <1>e, AttendFrame
<1>1. CASE BootGenesis(r)
  <2>1. req[r].iid \in Insts /\ req[r].op = "genesis"
    BY <1>0, <1>1 DEF BootGenesis, At, ReqOK
  <2> QED BY <1>1, <1>a, <1>d, <2>1 DEF BootGenesis, BootUp
<1>2. CASE BootGenesisFails(r)
  <2>1. req[r].iid \in Insts /\ req[r].op = "genesis"
    BY <1>0, <1>2 DEF BootGenesisFails, At, ReqOK
  <2> QED BY <1>2, <1>a, <1>d, <2>1 DEF BootGenesisFails, BootDown, Abort
<1>3. CASE PauseVm(r)
  <2>1. req[r].iid \in Insts /\ req[r].op = "pause"
    BY <1>0, <1>3 DEF PauseVm, At, ReqOK, Capturing
  <2>2. /\ live' = live
        /\ \A j \in Insts : vm'[j] = IF j = req[r].iid THEN "paused" ELSE vm[j]
    BY <1>0, <1>3 DEF PauseVm, SetVm, StateOK
  <2>3. Attends(r, req[r].iid)' /\ \A x \in Reqs \ {r} : req'[x] = req[x]
    BY <1>3, <1>b DEF PauseVm, Attends
  <2>4. \A j \in live' : vm'[j] = "paused" =>
           Attends(r, j)' \/ (j \in live /\ vm[j] = "paused" /\ ~Attends(r, j))
    BY <1>0, <1>3, <1>b, <1>c, <2>1, <2>2 DEF PauseVm, Attends
  <2> QED BY <2>3, <2>4, AttendFrame
<1>4. CASE CreateImage(r) \/ SealDisk(r)
  <2>1. live' = live /\ vm' = vm
    BY <1>4 DEF CreateImage, SealDisk
  <2>2. /\ req'[r].op \in {"seal", "resume"} /\ req'[r].iid = req[r].iid
        /\ \A x \in Reqs \ {r} : req'[x] = req[x]
    BY <1>4, <1>b DEF CreateImage, SealDisk
  <2>3. \A j \in live : Attends(r, j) => Attends(r, j)'
    BY <2>2 DEF Attends
  <2> QED BY <2>1, <2>2, <2>3, AttendFrame
<1>5. CASE ResumeVm(r)
  <2>1. req[r].iid \in Insts
    BY <1>0, <1>5 DEF ResumeVm, At, ReqOK, Capturing
  <2>2. /\ live' = live
        /\ \A j \in Insts : vm'[j] = IF j = req[r].iid THEN "running" ELSE vm[j]
    BY <1>0, <1>5 DEF ResumeVm, SetVm, StateOK
  <2>3. \A j \in live' : vm'[j] = "paused" => vm[j] = "paused" /\ ~Attends(r, j)
    BY <1>0, <2>2 DEF Attends
  <2>4. \A x \in Reqs \ {r} : req'[x] = req[x]
    BY <1>5, <1>b DEF ResumeVm
  <2> QED BY <2>2, <2>3, <2>4, AttendFrame
<1>6. CASE SnapshotFails(r)
  <2>1. live' = live /\ vm' = vm /\ \A x \in Reqs \ {r} : req'[x] = req[x]
    BY <1>6, <1>a DEF SnapshotFails, Abort
  <2>2. \A j \in live : vm[j] = "paused" => ~Attends(r, j)
    BY <1>6 DEF SnapshotFails, At, Attends, Up
  <2> QED BY <2>1, <2>2, AttendFrame
<1>7. CASE StoreSnapshot(r) \/ CommitFork(r) \/ CommitDestroy(r)
  BY <1>7, <1>a, <1>e DEF StoreSnapshot, CommitFork, CommitDestroy, At
<1>8. CASE InsertFork(r) \/ InsertForkFails(r) \/ DestroyFails(r)
  BY <1>8, <1>a, <1>e DEF InsertFork, InsertForkFails, DestroyFails, Abort, At
<1>9. ASSUME NEW i \in Insts, BootFork(r, i) PROVE PausedIsAttended'
  BY <1>9, <1>a, <1>d DEF BootFork, At
<1>10. ASSUME NEW i \in Insts, BootForkFails(r, i) PROVE PausedIsAttended'
  BY <1>10, <1>a, <1>d DEF BootForkFails, BootDown, Abort, At
<1>11. CASE KillVm(r)
  <2>1. req[r].iid \in Insts /\ req[r].op = "kill"
    BY <1>0, <1>11 DEF KillVm, At, ReqOK
  <2> QED BY <1>11, <1>b, <1>d, <2>1 DEF KillVm
<1> QED BY <1>1, <1>2, <1>3, <1>4, <1>5, <1>6, <1>7, <1>8, <1>9, <1>10, <1>11 DEF Step

LEMMA AttendNext ==
  ASSUME EngineInv, LiveInv, PausedIsAttended, ~ApiFaults, [Next]_vars
  PROVE  PausedIsAttended'
<1>1. ASSUME NEW i \in Insts, GuestWrites(i) PROVE PausedIsAttended'
  BY <1>1 DEF GuestWrites, PausedIsAttended
<1>4. ASSUME NEW i \in Insts, VmExits(i) PROVE PausedIsAttended'
  <2>1. UNCHANGED <<live, req>> /\ live \subseteq Insts
    BY <1>4 DEF VmExits, EngineInv, TypeOK
  <2>2. \A j \in Insts : vm'[j] = "paused" => vm[j] = "paused"
    BY <1>4 DEF VmExits, EngineInv, TypeOK
  <2> QED BY <2>1, <2>2 DEF PausedIsAttended
<1>2. ASSUME NEW killed \in BOOLEAN, Crash(killed) PROVE PausedIsAttended'
  BY <1>2 DEF Crash, PausedIsAttended
<1>3. ASSUME UNCHANGED vars PROVE PausedIsAttended'
  BY <1>3 DEF vars, machines, PausedIsAttended
<1> QED BY <1>1, <1>2, <1>3, <1>4, AttendStart, AttendStep DEF Next

(* No interleaving of snapshots, forks and destroys strands a VM in Paused *)
(* while Firecracker and the disk do as they are told: a request that is   *)
(* about to resume a paused VM of LIVE is always there.                    *)
THEOREM PausedVmIsAttended ==
  ASSUME ~ApiFaults PROVE Spec => []PausedIsAttended
<1>1. Init => PausedIsAttended
  BY DEF Init, PausedIsAttended
<1>2. EngineInv /\ LiveInv /\ PausedIsAttended /\ [Next]_vars => PausedIsAttended'
  BY AttendNext
<1> QED BY <1>1, <1>2, EngineInvariant, LiveInvariant, PTL DEF Spec

-----------------------------------------------------------------------------
(* Tenancy. *)

(***************************************************************************)
(* _require_owner is asked once, at the start of a request, and used many  *)
(* steps later.  Its answer stays right: a request's project owns the run  *)
(* of the instance or of the snapshot it was let in for.                   *)
(***************************************************************************)
OwnerOK(r) ==
  /\ req[r].op \in Capturing \cup {"kill", "update"} => OwnsInst(req[r].who, req[r].iid)
  /\ req[r].op \in {"fork", "insert"} => OwnsSnap(req[r].who, req[r].sid)

OwnerInv == \A r \in Reqs : OwnerOK(r)

LEMMA OwnsKept ==
  ASSUME EngineInv, Immutable, RunsKept, NEW p
  PROVE  /\ \A i \in Insts : OwnsInst(p, i) => OwnsInst(p, i)'
         /\ \A s \in Snaps : OwnsSnap(p, s) => OwnsSnap(p, s)'
<1>0. TablesOK /\ TimelineIsDAG
  BY DEF EngineInv, TypeOK
<1>1. ASSUME NEW i \in Insts, OwnsInst(p, i) PROVE OwnsInst(p, i)'
  <2>1. instRun[i] # None /\ instRun[i] \in Runs /\ runs[instRun[i]] = p
    BY <1>0, <1>1 DEF OwnsInst, TablesOK
  <2>2. runs[instRun[i]] # None
    BY <1>0, <2>1 DEF TimelineIsDAG, InstOK
  <2> QED BY <2>1, <2>2 DEF Immutable, RunsKept, OwnsInst
<1>2. ASSUME NEW s \in Snaps, OwnsSnap(p, s) PROVE OwnsSnap(p, s)'
  <2>1. snapRun[s] # None /\ snapRun[s] \in Runs /\ runs[snapRun[s]] = p
    BY <1>0, <1>2 DEF OwnsSnap, TablesOK
  <2>2. runs[snapRun[s]] # None
    BY <1>0, <2>1 DEF TimelineIsDAG, SnapOK
  <2> QED BY <2>1, <2>2 DEF Immutable, RunsKept, OwnsSnap
<1> QED BY <1>1, <1>2

(* A request that goes on for the project it was let in for. *)
LEMMA OwnerFrame ==
  ASSUME EngineInv, OwnerInv, Immutable, RunsKept, NEW x \in Reqs,
         req'[x].who = req[x].who, req'[x].sid = req[x].sid,
         \/ req'[x].op = req[x].op /\ req'[x].iid = req[x].iid
         \/ /\ req[x].op \in Capturing /\ req'[x].op \in Capturing
            /\ req'[x].iid = req[x].iid
         \/ req[x].op = "kill" /\ req'[x].op = "update" /\ req'[x].iid = req[x].iid
         \/ req[x].op \in {"fork", "insert"} /\ req'[x].op \in {"fork", "insert"}
  PROVE  OwnerOK(x)'
<1>1. OwnerOK(x) /\ ReqOK(x)
  BY DEF OwnerInv, EngineInv
<1>2. ASSUME req'[x].op \in Capturing \cup {"kill", "update"}
      PROVE  OwnsInst(req[x].who, req[x].iid)' /\ req'[x].iid = req[x].iid
  <2>1. /\ req[x].iid \in Insts /\ OwnsInst(req[x].who, req[x].iid)
        /\ req'[x].iid = req[x].iid
    BY <1>1, <1>2 DEF OwnerOK, ReqOK, Capturing
  <2>2. instRun'[req[x].iid] # None /\ runs'[instRun'[req[x].iid]] = req[x].who
    BY <2>1, OwnsKept DEF OwnsInst
  <2> QED BY <2>1, <2>2 DEF OwnsInst
<1>3. ASSUME req'[x].op \in {"fork", "insert"} PROVE OwnsSnap(req[x].who, req[x].sid)'
  <2>1. req[x].sid \in Snaps /\ OwnsSnap(req[x].who, req[x].sid)
    BY <1>1, <1>3 DEF OwnerOK, ReqOK, Capturing
  <2>2. snapRun'[req[x].sid] # None /\ runs'[snapRun'[req[x].sid]] = req[x].who
    BY <2>1, OwnsKept DEF OwnsSnap
  <2> QED BY <2>1, <2>2 DEF OwnsSnap
<1> QED BY <1>2, <1>3 DEF OwnerOK, OwnsInst, OwnsSnap

LEMMA OwnerIdle == ASSUME NEW x \in Reqs, req'[x] = Idle PROVE OwnerOK(x)'
  BY DEF OwnerOK, Idle, Capturing

LEMMA OwnerStart ==
  ASSUME EngineInv, OwnerInv, Immutable, RunsKept,
         NEW r \in Reqs, NEW p \in Projects, Start(r, p)
  PROVE  OwnerInv'
<1>0. req \in [Reqs -> Request] /\ TablesOK
  BY DEF EngineInv, TypeOK
<1>a. ASSUME NEW x \in Reqs, x # r, NEW q, Serve(r, q) PROVE OwnerOK(x)'
  <2>1. req'[x] = req[x]
    BY <1>0, <1>a DEF Serve
  <2> QED BY <2>1, OwnerFrame
<1>1. ASSUME NEW rid \in Runs, NEW i \in Insts, CreateRun(r, p, rid, i)
      PROVE  OwnerOK(r)' /\ \E q : Serve(r, q)
  BY <1>0, <1>1 DEF CreateRun, Serve, OwnerOK, Capturing, Idle
<1>2. ASSUME NEW i \in Insts, NEW s \in Snaps, StartSnapshot(r, p, i, s)
      PROVE  OwnerOK(r)' /\ \E q : Serve(r, q)
  <2>1. req'[r].op = "pause" /\ req'[r].iid = i /\ req'[r].who = p
    BY <1>0, <1>2 DEF StartSnapshot, Serve, Idle
  <2>2. OwnsInst(p, i) /\ instRun' = instRun /\ runs' = runs
    BY <1>2 DEF StartSnapshot, tables
  <2> QED BY <1>2, <2>1, <2>2 DEF StartSnapshot, OwnerOK, OwnsInst, Capturing
<1>3. ASSUME NEW s \in Snaps, NEW K \in SUBSET Insts, StartFork(r, p, s, K)
      PROVE  OwnerOK(r)' /\ \E q : Serve(r, q)
  <2>1. req'[r].op = "fork" /\ req'[r].sid = s /\ req'[r].who = p
    BY <1>0, <1>3 DEF StartFork, Serve, Idle
  <2>2. OwnsSnap(p, s) /\ snapRun' = snapRun /\ runs' = runs
    BY <1>3 DEF StartFork, tables
  <2> QED BY <1>3, <2>1, <2>2 DEF StartFork, OwnerOK, OwnsSnap, Capturing
<1>4. ASSUME NEW i \in Insts, StartDestroy(r, p, i)
      PROVE  OwnerOK(r)' /\ \E q : Serve(r, q)
  <2>1. req'[r].op \in {"kill", "update"} /\ req'[r].iid = i /\ req'[r].who = p
    BY <1>0, <1>4 DEF StartDestroy, Serve, Idle
  <2>2. OwnsInst(p, i) /\ instRun' = instRun /\ runs' = runs
    BY <1>4 DEF StartDestroy, tables
  <2> QED BY <1>4, <2>1, <2>2 DEF StartDestroy, OwnerOK, OwnsInst
<1>5. OwnerOK(r)' /\ \E q : Serve(r, q)
  BY <1>1, <1>2, <1>3, <1>4 DEF Start
<1> QED BY <1>a, <1>5 DEF OwnerInv

LEMMA OwnerStep ==
  ASSUME EngineInv, OwnerInv, Immutable, RunsKept, NEW r \in Reqs, Step(r)
  PROVE  OwnerInv'
<1>0. req \in [Reqs -> Request] /\ req[r] \in Request
  BY DEF EngineInv, TypeOK
<1>a. ASSUME NEW q, Serve(r, q)
      PROVE  req'[r] = q /\ \A x \in Reqs \ {r} : OwnerOK(x)'
  <2>1. req'[r] = q /\ \A x \in Reqs \ {r} : req'[x] = req[x]
    BY <1>0, <1>a DEF Serve
  <2> QED BY <2>1, OwnerFrame
<1>b. ASSUME Serve(r, Idle) PROVE OwnerInv'
  BY <1>a, <1>b, OwnerIdle DEF OwnerInv
<1>c. ASSUME NEW l, Goto(r, l),
             \/ l \in Capturing /\ req[r].op \in Capturing
             \/ l = "update" /\ req[r].op = "kill"
      PROVE  OwnerInv'
  <2>1. ASSUME NEW x \in Reqs
        PROVE  /\ req'[x].iid = req[x].iid /\ req'[x].sid = req[x].sid
               /\ req'[x].who = req[x].who
               /\ req'[x].op = IF x = r THEN l ELSE req[x].op
    BY <1>0, <1>c DEF Goto, Request
  <2> QED BY <1>c, <2>1, OwnerFrame DEF OwnerInv
<1>1. CASE BootGenesis(r) \/ StoreSnapshot(r) \/ CommitFork(r) \/ CommitDestroy(r)
  BY <1>1, <1>b DEF BootGenesis, StoreSnapshot, CommitFork, CommitDestroy
<1>2. CASE BootGenesisFails(r) \/ SnapshotFails(r) \/ InsertForkFails(r) \/ DestroyFails(r)
  BY <1>2, <1>b DEF BootGenesisFails, SnapshotFails, InsertForkFails, DestroyFails, Abort
<1>3. CASE PauseVm(r) \/ CreateImage(r) \/ SealDisk(r) \/ ResumeVm(r)
  BY <1>3, <1>c DEF PauseVm, CreateImage, SealDisk, ResumeVm, At, Capturing
<1>4. CASE KillVm(r)
  BY <1>4, <1>c DEF KillVm, At
<1>5. ASSUME NEW i \in Insts, BootFork(r, i) PROVE OwnerInv'
  <2>1. req'[r] = [req[r] EXCEPT !.op = "insert", !.iid = i] /\ req[r].op = "fork"
    BY <1>5, <1>a DEF BootFork, At
  <2>2. req'[r].op = "insert" /\ req'[r].who = req[r].who /\ req'[r].sid = req[r].sid
    BY <1>0, <2>1 DEF Request
  <2> QED BY <1>5, <1>a, <2>1, <2>2, OwnerFrame DEF BootFork, OwnerInv
<1>6. ASSUME NEW i \in Insts, BootForkFails(r, i) PROVE OwnerInv'
  BY <1>6, <1>b DEF BootForkFails, Abort
<1>7. CASE InsertFork(r)
  <2>1. /\ req'[r] = [req[r] EXCEPT !.op = "fork", !.todo = @ \ {req[r].iid},
                                    !.kids = @ \cup {req[r].iid}]
        /\ req[r].op = "insert"
    BY <1>7, <1>a DEF InsertFork, At
  <2>2. req'[r].op = "fork" /\ req'[r].who = req[r].who /\ req'[r].sid = req[r].sid
    BY <1>0, <2>1 DEF Request
  <2> QED BY <1>7, <1>a, <2>1, <2>2, OwnerFrame DEF InsertFork, OwnerInv
<1> QED BY <1>1, <1>2, <1>3, <1>4, <1>5, <1>6, <1>7 DEF Step

LEMMA OwnerNext ==
  ASSUME EngineInv, OwnerInv, [Next]_vars PROVE OwnerInv'
<1>0. Immutable /\ RunsKept
  BY EngineStep, StepRefines, RunsStep DEF EngineInv, TypeOK
<1>a. ASSUME req' = req PROVE OwnerInv'
  BY <1>0, <1>a, OwnerFrame DEF OwnerInv
<1>1. ASSUME NEW i \in Insts, GuestWrites(i) \/ VmExits(i) PROVE OwnerInv'
  BY <1>1, <1>a DEF GuestWrites, VmExits
<1>2. ASSUME NEW killed \in BOOLEAN, Crash(killed) PROVE OwnerInv'
  BY <1>2, OwnerIdle DEF Crash, OwnerInv
<1>3. ASSUME UNCHANGED vars PROVE OwnerInv'
  BY <1>3, <1>a DEF vars
<1> QED BY <1>0, <1>1, <1>2, <1>3, OwnerStart, OwnerStep DEF Next

LEMMA OwnerInvariant == Spec => []OwnerInv
<1>1. Init => OwnerInv
  BY DEF Init, OwnerInv, OwnerOK, Idle, Capturing
<1>2. EngineInv /\ OwnerInv /\ [Next]_vars => OwnerInv'
  BY OwnerNext
<1> QED BY <1>1, <1>2, EngineInvariant, PTL DEF Spec

LEMMA OwnRowsStep ==
  ASSUME EngineInv, OwnerInv, Next PROVE OwnRows
<1>0. req \in [Reqs -> Request] /\ TablesOK
  BY DEF EngineInv, TypeOK
<1>a. ASSUME UNCHANGED tables PROVE OwnRows
  BY <1>a DEF tables, OwnRows
<1>1. ASSUME NEW r \in Reqs, NEW p \in Projects, Start(r, p) PROVE OwnRows
  <2>1. ASSUME NEW rid \in Runs, NEW i \in Insts, CreateRun(r, p, rid, i) PROVE OwnRows
    <3>1. req[r].op = "idle" /\ req'[r].op = "genesis" /\ req'[r].who = p
      BY <1>0, <2>1 DEF CreateRun, Serve, At, Idle
    <3>2. By(p)
      BY <3>1 DEF By
    <3>3. /\ runs'[rid] = p /\ instRun'[i] = rid /\ UNCHANGED <<instSnap, snapRun>>
          /\ \A j \in Insts \ {i} : UNCHANGED <<instRun[j], instState[j]>>
      BY <1>0, <2>1 DEF CreateRun, InsertRun, TablesOK
    <3> QED BY <3>2, <3>3 DEF OwnRows
  <2>2. CASE ~\E rid \in Runs, i \in Insts : CreateRun(r, p, rid, i)
    BY <1>1, <1>a, <2>2 DEF Start, StartSnapshot, StartFork, StartDestroy
  <2> QED BY <2>1, <2>2
<1>2. ASSUME NEW r \in Reqs, Step(r) PROVE OwnRows
  <2>0. OwnerOK(r) /\ ReqOK(r) /\ req[r] \in Request
    BY <1>0 DEF OwnerInv, EngineInv
  <2>a. ASSUME Serve(r, Idle), req[r].op # "idle" PROVE By(req[r].who)
    <3>1. req'[r].op = "idle"
      BY <1>0, <2>a DEF Serve, Idle
    <3> QED BY <2>a, <3>1 DEF By
  <2>1. CASE StoreSnapshot(r)
    <3>1. /\ req[r].iid \in Insts /\ req[r].sid \in Snaps
          /\ OwnsInst(req[r].who, req[r].iid)
      BY <2>0, <2>1 DEF StoreSnapshot, At, OwnerOK, ReqOK, Capturing
    <3>2. By(req[r].who)
      BY <2>1, <2>a DEF StoreSnapshot, At
    <3>3. /\ UNCHANGED <<runs, instRun, instState>>
          /\ snapRun'[req[r].sid] = instRun[req[r].iid]
          /\ \A s \in Snaps \ {req[r].sid} : UNCHANGED snapRun[s]
          /\ \A j \in Insts \ {req[r].iid} : UNCHANGED instSnap[j]
      BY <1>0, <2>1, <3>1 DEF StoreSnapshot, InsertSnapshot, TablesOK
    <3> QED BY <3>1, <3>2, <3>3 DEF OwnRows, OwnsInst
  <2>2. CASE CommitFork(r)
    <3>1. req[r].sid \in Snaps /\ OwnsSnap(req[r].who, req[r].sid)
      BY <2>0, <2>2 DEF CommitFork, At, OwnerOK, ReqOK
    <3>2. By(req[r].who)
      BY <2>2, <2>a DEF CommitFork, At
    <3>3. /\ UNCHANGED <<runs, snapRun>>
          /\ \A j \in Insts : \/ instRun'[j] = snapRun[req[r].sid]
                              \/ UNCHANGED <<instRun[j], instSnap[j], instState[j]>>
      BY <1>0, <2>2 DEF CommitFork, InsertForks, TablesOK
    <3> QED BY <3>1, <3>2, <3>3 DEF OwnRows, OwnsSnap
  <2>3. CASE CommitDestroy(r)
    <3>1. req[r].iid \in Insts /\ OwnsInst(req[r].who, req[r].iid)
      BY <2>0, <2>3 DEF CommitDestroy, At, OwnerOK, ReqOK
    <3>2. By(req[r].who)
      BY <2>3, <2>a DEF CommitDestroy, At
    <3>3. /\ UNCHANGED <<runs, instRun, instSnap, snapRun>>
          /\ \A j \in Insts \ {req[r].iid} : UNCHANGED instState[j]
      BY <1>0, <2>3, <3>1 DEF CommitDestroy, MarkDestroyed, TablesOK
    <3> QED BY <3>1, <3>2, <3>3 DEF OwnRows, OwnsInst
  <2>4. CASE ~(StoreSnapshot(r) \/ CommitFork(r) \/ CommitDestroy(r))
    <3>1. UNCHANGED tables
      BY <1>2, <2>4 DEF Step, BootGenesis, BootGenesisFails, PauseVm, CreateImage,
        SealDisk, ResumeVm, SnapshotFails, BootFork, BootForkFails, InsertFork,
        InsertForkFails, KillVm, DestroyFails, Abort
    <3> QED BY <1>a, <3>1
  <2> QED BY <2>1, <2>2, <2>3, <2>4
<1>3. ASSUME NEW i \in Insts, GuestWrites(i) \/ VmExits(i) PROVE OwnRows
  BY <1>3, <1>a DEF GuestWrites, VmExits
<1>4. ASSUME NEW killed \in BOOLEAN, Crash(killed) PROVE OwnRows
  BY <1>4, <1>a DEF Crash
<1> QED BY <1>1, <1>2, <1>3, <1>4 DEF Next

(* Tenancy: whatever the requests of the projects interleave, a row is     *)
(* written only on behalf of the project that owns its run, although the   *)
(* owner was looked up several steps before the write.                     *)
THEOREM RowsAreOwn == Spec => OwnRowsOnly
<1>1. EngineInv /\ OwnerInv /\ [Next]_vars => [OwnRows]_vars
  BY OwnRowsStep
<1> QED BY <1>1, EngineInvariant, OwnerInvariant, PTL DEF Spec, OwnRowsOnly

-----------------------------------------------------------------------------
(* Metering. *)

(* The handlers and the restarts of Metering are those of Engine, and the  *)
(* metering thread leaves the engine's state alone.                        *)
LEMMA MeterStepIsEngineStep == [MeterNext]_allVars => [Next]_vars
<1>1. ASSUME Handle \/ \E i \in Insts : Exit(i) PROVE Next
  BY <1>1 DEF Handle, Exit, Next
<1>2. ASSUME NEW killed \in BOOLEAN, Restart(killed) PROVE Next
  BY <1>2 DEF Restart, Next
<1>3. ASSUME Pass \/ Sample \/ Commit \/ TickLost \/ \E i \in Insts : Lookup(i)
      PROVE  UNCHANGED vars
  BY <1>3 DEF Pass, Sample, Commit, TickLost, Lookup
<1> QED BY <1>1, <1>2, <1>3 DEF MeterNext, allVars

(* So what is proved of Engine holds with the metering thread beside it. *)
LEMMA MeterIsEngine == MeterSpec => Spec
<1>1. MeterInit => Init
  BY DEF MeterInit
<1> QED BY <1>1, MeterStepIsEngineStep, PTL DEF MeterSpec, Spec

-----------------------------------------------------------------------------
(* Types. *)

ThreadOK ==
  /\ meter \in {"asleep", "tick"}
  /\ sleep \in 0..Interval
  /\ sample \subseteq Insts /\ seen \subseteq Insts
  /\ accr \in [Projects -> Nat] /\ usage \in [Projects -> Nat]
  /\ up \in [Insts -> Nat] /\ charged \in [Insts -> Nat]
  /\ late \in [Insts -> Nat] /\ early \subseteq Insts

LEMMA ThreadInit == MeterInit => ThreadOK
  BY MeteringAssumption DEF MeterInit, ThreadOK, Nobody

LEMMA NobodyOK == Nobody \in [Projects -> Nat]
  BY DEF Nobody

LEMMA ThreadStep ==
  ASSUME EngineInv, EngineInv', ThreadOK, [MeterNext]_allVars PROVE ThreadOK'
<1> USE MeteringAssumption, NobodyOK DEF ThreadOK, thread, billing
<1>1. CASE Pass
  BY <1>1 DEF Pass
<1>2. CASE Sample
  BY <1>2 DEF Sample, EngineInv, TypeOK
<1>3. CASE Commit
  BY <1>3 DEF Commit, AddInterval, SleepAgain
<1>4. CASE TickLost
  BY <1>4 DEF TickLost, SleepAgain
<1>5. ASSUME NEW i \in Insts, Lookup(i) PROVE ThreadOK'
  <2>1. CASE instRun[i] = None
    BY <1>5, <2>1 DEF Lookup
  <2>2. CASE instRun[i] # None
    <3>1. runs[instRun[i]] \in Projects
      BY <2>2 DEF EngineInv, TypeOK, TablesOK, TimelineIsDAG, InstOK
    <3>2. accr[runs[instRun[i]]] + Interval \in Nat
      BY <3>1
    <3>3. accr' \in [Projects -> Nat]
      BY <1>5, <2>2, <3>2 DEF Lookup
    <3> QED BY <1>5, <2>2, <3>3 DEF Lookup
  <2> QED BY <2>1, <2>2
<1>6. CASE Handle
  BY <1>6 DEF Handle
<1>7. ASSUME NEW killed \in BOOLEAN, Restart(killed) PROVE ThreadOK'
  BY <1>7 DEF Restart, SleepAgain
<1>8. CASE UNCHANGED meterVars
  BY <1>8 DEF meterVars
<1> QED BY <1>1, <1>2, <1>3, <1>4, <1>5, <1>6, <1>7, <1>8 DEF MeterNext, Exit, allVars

LEMMA ThreadInvariant == MeterSpec => [](EngineInv /\ LiveInv /\ ThreadOK)
<1>1. EngineInv /\ EngineInv' /\ ThreadOK /\ [MeterNext]_allVars => ThreadOK'
  BY ThreadStep
<1> QED BY <1>1, ThreadInit, MeterIsEngine, EngineInvariant, LiveInvariant, PTL
        DEF MeterSpec

-----------------------------------------------------------------------------
(* Charges and uptime. *)

(***************************************************************************)
(* Why a tick that charges a whole interval never runs ahead of the uptime *)
(* by more than one: an instance in LIVE stays there until it leaves it    *)
(* for good, so while the thread sleeps, what an instance has been charged *)
(* ahead of its uptime shrinks with the time left to sleep, and is gone    *)
(* when the next sample is taken.  An id that was never booted was never   *)
(* sampled or charged.                                                     *)
(***************************************************************************)
Booted(i) == vm[i] # "none"

UptimeOK(i) ==
  /\ ~Booted(i) => charged[i] = 0 /\ i \notin sample \cup seen
  /\ charged[i] <= up[i] + Interval
  /\ meter = "asleep" /\ i \in live => charged[i] <= up[i] + sleep
  /\ meter = "tick" /\ i \in live \cup sample \cup seen => charged[i] <= up[i]

UptimeInv ==
  /\ meter = "asleep" => sample = {} /\ seen = {}
  /\ \A i \in Insts : UptimeOK(i)

(* A VM that enters LIVE was never booted before, and no process is        *)
(* un-booted.                                                              *)
LEMMA LiveGrows ==
  ASSUME EngineInv, LiveInv, [Next]_vars
  PROVE  /\ \A i \in Insts : i \in live' => i \in live \/ ~Booted(i)
         /\ \A i \in Insts : Booted(i) => Booted(i)'
<1>0. StateOK
  BY DEF EngineInv, TypeOK, StateOK
<1> USE DEF machines, images, Booted
<1>1. ASSUME NEW r \in Reqs, NEW p \in Projects, Start(r, p)
      PROVE  live' \subseteq live /\ vm' = vm
  BY <1>1 DEF Start, CreateRun, StartSnapshot, StartFork, StartDestroy
<1>2. ASSUME NEW r \in Reqs, Step(r)
      PROVE  \/ live' = live /\ vm' = vm
             \/ \E i \in Insts, st \in {"running", "paused", "leaked", "dead"} :
                  /\ vm' = [vm EXCEPT ![i] = st]
                  /\ live' = live \/ (live' = live \cup {i} /\ ~Booted(i))
  <2>0. ReqOK(r)
    BY DEF EngineInv
  <2>a. \A i \in Booting(r) : ~Booted(i)
    BY DEF LiveInv, FreshIds
  <2>1. CASE BootGenesis(r)
    <3>1. req[r].iid \in Insts /\ req[r].iid \in Booting(r)
      BY <2>0, <2>1 DEF BootGenesis, At, ReqOK, Booting
    <3> QED BY <2>1, <2>a, <3>1 DEF BootGenesis, BootUp
  <2>2. CASE BootGenesisFails(r)
    BY <2>0, <2>2 DEF BootGenesisFails, BootDown, At, ReqOK
  <2>3. CASE PauseVm(r) \/ ResumeVm(r)
    BY <2>0, <2>3 DEF PauseVm, ResumeVm, SetVm, At, ReqOK, Capturing
  <2>4. CASE CreateImage(r) \/ SealDisk(r) \/ StoreSnapshot(r) \/ SnapshotFails(r)
    BY <2>4 DEF CreateImage, SealDisk, StoreSnapshot, SnapshotFails
  <2>5. ASSUME NEW i \in Insts, BootFork(r, i)
        PROVE  vm' = [vm EXCEPT ![i] = "running"] /\ live' = live \cup {i} /\ ~Booted(i)
    <3>1. i \in Booting(r)
      BY <2>5 DEF BootFork, At, Booting
    <3> QED BY <2>5, <2>a, <3>1 DEF BootFork
  <2>6. ASSUME NEW i \in Insts, BootForkFails(r, i)
        PROVE  vm' = [vm EXCEPT ![i] = "leaked"] /\ live' = live
    BY <2>6 DEF BootForkFails, BootDown
  <2>7. CASE \/ InsertFork(r) \/ InsertForkFails(r) \/ CommitFork(r)
             \/ CommitDestroy(r) \/ DestroyFails(r)
    BY <2>7 DEF InsertFork, InsertForkFails, CommitFork, CommitDestroy, DestroyFails
  <2>8. CASE KillVm(r)
    BY <2>0, <2>8 DEF KillVm, At, ReqOK
  <2> QED BY <1>2, <2>1, <2>2, <2>3, <2>4, <2>5, <2>6, <2>7, <2>8 DEF Step
<1>3. ASSUME NEW i \in Insts, GuestWrites(i) \/ VmExits(i)
      PROVE  live' = live /\ (vm' = vm \/ vm' = [vm EXCEPT ![i] = "exited"])
  BY <1>3 DEF GuestWrites, VmExits
<1>4. ASSUME NEW killed \in BOOLEAN, Crash(killed)
      PROVE  live' = {} /\ \A i \in Insts : Booted(i) => Booted(i)'
  BY <1>4 DEF Crash
<1>5. ASSUME UNCHANGED vars PROVE live' = live /\ vm' = vm
  BY <1>5 DEF vars
<1> QED BY <1>0, <1>1, <1>2, <1>3, <1>4, <1>5 DEF Next, StateOK

LEMMA UptimeStep ==
  ASSUME EngineInv, LiveInv, ThreadOK, ThreadOK', UptimeInv, [MeterNext]_allVars
  PROVE  UptimeInv'
<1>0. Interval \in Nat /\ Interval > 0 /\ live \subseteq Insts
  BY MeteringAssumption DEF EngineInv, TypeOK
<1>1. \A i \in live : Booted(i)
  BY DEF LiveInv, LiveIsUp, Up, Booted
<1>2. ASSUME NEW i \in Insts
      PROVE  /\ i \in live' => i \in live \/ ~Booted(i)
             /\ Booted(i) => Booted(i)'
  BY LiveGrows, MeterStepIsEngineStep
<1>3. ASSUME NEW i \in Insts
      PROVE  /\ up[i] \in Nat /\ charged[i] \in Nat /\ sleep \in Nat /\ sleep <= Interval
             /\ UptimeOK(i)
  BY <1>0 DEF ThreadOK, UptimeInv
<1>4. meter = "asleep" => sample = {} /\ seen = {}
  BY DEF UptimeInv
<1> USE DEF thread, billing
<1>5. CASE Pass
  <2>1. ASSUME NEW i \in Insts PROVE UptimeOK(i)'
    <3>1. /\ UNCHANGED <<live, vm, charged, sample, seen, meter>>
          /\ up'[i] = IF i \in live THEN up[i] + 1 ELSE up[i]
          /\ sleep' = IF sleep > 0 THEN sleep - 1 ELSE 0
      BY <1>5 DEF Pass, vars, machines
    <3> QED BY <1>0, <1>3, <3>1 DEF UptimeOK, Booted
  <2> QED BY <1>4, <1>5, <2>1 DEF Pass, UptimeInv
<1>6. CASE Sample
  <2>1. ASSUME NEW i \in Insts PROVE UptimeOK(i)'
    <3>1. /\ UNCHANGED <<live, vm, charged, up, seen, sleep>>
          /\ meter = "asleep" /\ sleep = 0 /\ meter' = "tick" /\ sample' = live
      BY <1>6 DEF Sample, vars, machines
    <3> QED BY <1>1, <1>3, <1>4, <3>1 DEF UptimeOK, Booted
  <2> QED BY <1>6, <2>1 DEF Sample, UptimeInv
<1>7. ASSUME NEW j \in Insts, Lookup(j) PROVE UptimeInv'
  <2>1. /\ UNCHANGED <<live, vm, charged, up, sleep, meter>> /\ meter = "tick"
        /\ sample' \cup seen' \subseteq sample \cup seen
    BY <1>7 DEF Lookup, vars, machines
  <2>2. ASSUME NEW i \in Insts PROVE UptimeOK(i)'
    BY <1>3, <2>1 DEF UptimeOK, Booted
  <2> QED BY <2>1, <2>2 DEF UptimeInv
<1>8. CASE Commit
  <2>1. ASSUME NEW i \in Insts PROVE UptimeOK(i)'
    <3>1. /\ UNCHANGED <<live, vm, up>> /\ meter = "tick" /\ meter' = "asleep"
          /\ sleep' = Interval /\ sample' = {} /\ seen' = {}
          /\ charged'[i] = IF i \in seen THEN charged[i] + Interval ELSE charged[i]
      BY <1>0, <1>3, <1>8 DEF Commit, AddInterval, Due, SleepAgain, vars, machines
    <3>2. i \in seen => charged[i] <= up[i]
      BY <1>3, <3>1 DEF UptimeOK
    <3>3. i \in seen => Booted(i)
      BY <1>3 DEF UptimeOK
    <3>4. charged'[i] <= up[i] + Interval
      BY <1>0, <1>3, <3>1, <3>2 DEF UptimeOK
    <3> QED BY <1>3, <3>1, <3>3, <3>4 DEF UptimeOK, Booted
  <2> QED BY <1>8, <2>1 DEF Commit, SleepAgain, UptimeInv
<1>9. CASE TickLost
  <2>1. ASSUME NEW i \in Insts PROVE UptimeOK(i)'
    <3>1. /\ UNCHANGED <<live, vm, up, charged>> /\ meter' = "asleep"
          /\ sleep' = Interval /\ sample' = {} /\ seen' = {}
      BY <1>9 DEF TickLost, SleepAgain, vars, machines
    <3> QED BY <1>0, <1>3, <3>1 DEF UptimeOK, Booted
  <2> QED BY <1>9, <2>1 DEF TickLost, SleepAgain, UptimeInv
<1>10. CASE Handle \/ \E i \in Insts : Exit(i)
  <2>1. UNCHANGED <<meter, sleep, sample, seen, charged, up>>
    BY <1>10 DEF Handle, Exit, meterVars
  <2>2. ASSUME NEW i \in Insts PROVE UptimeOK(i)'
    <3>1. CASE i \in live \/ i \notin live'
      BY <1>2, <1>3, <2>1, <3>1 DEF UptimeOK
    <3>2. CASE ~Booted(i)
      BY <1>2, <1>3, <2>1, <3>2 DEF UptimeOK
    <3> QED BY <1>2, <3>1, <3>2
  <2> QED BY <1>4, <2>1, <2>2 DEF UptimeInv
<1>11. ASSUME NEW killed \in BOOLEAN, Restart(killed) PROVE UptimeInv'
  <2>1. ASSUME NEW i \in Insts PROVE UptimeOK(i)'
    <3>1. /\ UNCHANGED <<up, charged>> /\ meter' = "asleep" /\ live' = {}
          /\ sleep' = Interval /\ sample' = {} /\ seen' = {}
      BY <1>11 DEF Restart, Crash, SleepAgain
    <3> QED BY <1>0, <1>2, <1>3, <3>1 DEF UptimeOK
  <2> QED BY <1>11, <2>1 DEF Restart, SleepAgain, UptimeInv
<1>12. CASE UNCHANGED allVars
  BY <1>12 DEF allVars, meterVars, vars, machines, UptimeInv, UptimeOK, Booted
<1> QED BY <1>5, <1>6, <1>7, <1>8, <1>9, <1>10, <1>11, <1>12 DEF MeterNext

(* No instance is charged for more than the time the daemon held its VM    *)
(* and one interval, whatever ticks come late, are lost to a lock, or are  *)
(* cut short by a restart.                                                 *)
THEOREM ChargesFollowUptime == MeterSpec => []ChargedForUptime
<1>1. MeterInit => UptimeInv
  BY MeteringAssumption DEF MeterInit, Init, UptimeInv, UptimeOK, Booted
<1>2. EngineInv /\ LiveInv /\ ThreadOK /\ ThreadOK' /\ UptimeInv /\ [MeterNext]_allVars
        => UptimeInv'
  BY UptimeStep
<1>3. UptimeInv => ChargedForUptime
  BY DEF UptimeInv, UptimeOK, ChargedForUptime
<1> QED BY <1>1, <1>2, <1>3, ThreadInvariant, PTL DEF MeterSpec

-----------------------------------------------------------------------------
(* Charges and the state of the row. *)

(***************************************************************************)
(* Why a destroy ends the charges: an instance whose row is DESTROYED, or  *)
(* about to be, is out of LIVE for good, since what was booted is not      *)
(* booted again; only a destroy that came before the boot (early) is of an *)
(* instance that can still enter LIVE.  So the sample that was taken       *)
(* before is the last one with the instance, and the commit of its tick    *)
(* the last charge.                                                        *)
(***************************************************************************)
Destroying(r, i) == req[r].op \in {"kill", "update"} /\ req[r].iid = i

Doomed(i) == instState[i] = "DESTROYED" \/ \E r \in Reqs : Destroying(r, i)

DoomedInv == \A i \in Insts : Doomed(i) => i \in early \/ (i \notin live /\ Booted(i))

(* An instance is doomed by the start of its destroy only. *)
LEMMA DoomedStep ==
  ASSUME EngineInv, NEW r \in Reqs, NEW i \in Insts,
         (\E p \in Projects : Start(r, p)) \/ Step(r), Doomed(i)', ~Doomed(i)
  PROVE  \E p \in Projects : StartDestroy(r, p, i)
<1>0. StateOK /\ TablesOK /\ ReqOK(r) /\ req[r] \in Request
  BY DEF EngineInv, TypeOK, StateOK
<1> USE DEF Doomed, Destroying
<1>a. ASSUME NEW q, Serve(r, q)
      PROVE  req'[r] = q /\ \A x \in Reqs \ {r} : req'[x] = req[x]
  BY <1>0, <1>a DEF Serve, StateOK
<1>b. ASSUME instState'[i] = instState[i] \/ instState'[i] = "RUNNING",
             \A x \in Reqs \ {r} : req'[x] = req[x],
             req'[r].op \notin {"kill", "update"}
      PROVE  FALSE
  BY <1>b
<1>1. ASSUME NEW p \in Projects, Start(r, p) PROVE StartDestroy(r, p, i)
  <2>1. ASSUME NEW rid \in Runs, NEW j \in Insts, CreateRun(r, p, rid, j) PROVE FALSE
    <3>1. instState'[i] \in {instState[i], "RUNNING"}
      BY <1>0, <2>1 DEF CreateRun, InsertRun, TablesOK
    <3>2. req'[r].op = "genesis" /\ \A x \in Reqs \ {r} : req'[x] = req[x]
      BY <1>0, <2>1 DEF CreateRun, Serve, StateOK, Idle
    <3> QED BY <1>b, <3>1, <3>2
  <2>2. ASSUME NEW j \in Insts, NEW s \in Snaps, StartSnapshot(r, p, j, s) PROVE FALSE
    <3>1. req'[r].op = "pause" /\ \A x \in Reqs \ {r} : req'[x] = req[x]
      BY <1>0, <2>2 DEF StartSnapshot, Serve, StateOK, Idle
    <3> QED BY <1>b, <2>2, <3>1 DEF StartSnapshot, tables
  <2>3. ASSUME NEW s \in Snaps, NEW K \in SUBSET Insts, StartFork(r, p, s, K) PROVE FALSE
    <3>1. req'[r].op = "fork" /\ \A x \in Reqs \ {r} : req'[x] = req[x]
      BY <1>0, <2>3 DEF StartFork, Serve, StateOK, Idle
    <3> QED BY <1>b, <2>3, <3>1 DEF StartFork, tables
  <2>4. ASSUME NEW j \in Insts, StartDestroy(r, p, j) PROVE i = j
    <3>1. req'[r].iid = j /\ instState' = instState
      BY <1>0, <2>4 DEF StartDestroy, Serve, StateOK, tables, Idle
    <3>2. \A x \in Reqs \ {r} : req'[x] = req[x]
      BY <1>a, <2>4 DEF StartDestroy
    <3> QED BY <3>1, <3>2
  <2> QED BY <1>1, <2>1, <2>2, <2>3, <2>4 DEF Start
<1>2. ASSUME Step(r) PROVE FALSE
  <2> USE DEF images
  <2>1. CASE BootGenesis(r) \/ BootGenesisFails(r)
    BY <1>a, <1>b, <2>1 DEF BootGenesis, BootGenesisFails, Abort, tables, Idle
  <2>2. CASE PauseVm(r) \/ CreateImage(r) \/ SealDisk(r) \/ ResumeVm(r)
    <3>1. /\ instState' = instState /\ req'[r].op \in Capturing
          /\ \A x \in Reqs \ {r} : req'[x] = req[x]
      BY <1>0, <2>2 DEF PauseVm, CreateImage, SealDisk, ResumeVm, Goto, tables, StateOK,
                        Request, Capturing
    <3> QED BY <1>b, <3>1 DEF Capturing
  <2>3. CASE StoreSnapshot(r)
    BY <1>a, <1>b, <2>3 DEF StoreSnapshot, InsertSnapshot, Idle
  <2>4. CASE SnapshotFails(r) \/ InsertForkFails(r) \/ DestroyFails(r)
    BY <1>a, <1>b, <2>4 DEF SnapshotFails, InsertForkFails, DestroyFails, Abort, tables, Idle
  <2>5. ASSUME NEW j \in Insts, BootFork(r, j) PROVE FALSE
    <3>1. req'[r] = [req[r] EXCEPT !.op = "insert", !.iid = j]
      BY <1>a, <2>5 DEF BootFork
    <3>2. req'[r].op = "insert"
      BY <1>0, <3>1 DEF Request
    <3> QED BY <1>a, <1>b, <2>5, <3>2 DEF BootFork, tables
  <2>6. ASSUME NEW j \in Insts, BootForkFails(r, j) PROVE FALSE
    BY <1>a, <1>b, <2>6 DEF BootForkFails, Abort, tables, Idle
  <2>7. CASE InsertFork(r)
    <3>1. req'[r] = [req[r] EXCEPT !.op = "fork", !.todo = @ \ {req[r].iid},
                                   !.kids = @ \cup {req[r].iid}]
      BY <1>a, <2>7 DEF InsertFork
    <3>2. req'[r].op = "fork"
      BY <1>0, <3>1 DEF Request
    <3> QED BY <1>a, <1>b, <2>7, <3>2 DEF InsertFork, tables
  <2>8. CASE CommitFork(r)
    <3>1. instState'[i] \in {instState[i], "RUNNING"}
      BY <2>8 DEF CommitFork, InsertForks
    <3> QED BY <1>a, <1>b, <2>8, <3>1 DEF CommitFork, Idle
  <2>9. CASE KillVm(r)
    <3>1. /\ instState' = instState /\ req[r].op = "kill" /\ req'[r].iid = req[r].iid
          /\ \A x \in Reqs \ {r} : req'[x] = req[x]
      BY <1>0, <2>9 DEF KillVm, At, Goto, tables, StateOK, Request
    <3> QED BY <3>1
  <2>10. CASE CommitDestroy(r)
    <3>1. req[r].op = "update" /\ req[r].iid # i
      BY <2>10 DEF CommitDestroy, At
    <3>2. instState'[i] = instState[i]
      BY <1>0, <2>10, <3>1 DEF CommitDestroy, MarkDestroyed, TablesOK
    <3> QED BY <1>a, <1>b, <2>10, <3>2 DEF CommitDestroy, Idle
  <2> QED BY <1>2, <2>1, <2>2, <2>3, <2>4, <2>5, <2>6, <2>7, <2>8, <2>9, <2>10 DEF Step
<1> QED BY <1>1, <1>2

LEMMA DoomedNext ==
  ASSUME EngineInv, LiveInv, DoomedInv, [MeterNext]_allVars PROVE DoomedInv'
<1>0. StateOK
  BY DEF EngineInv, TypeOK, StateOK
<1>1. ASSUME NEW i \in Insts
      PROVE  /\ i \in live' => i \in live \/ ~Booted(i)
             /\ Booted(i) => Booted(i)'
  BY LiveGrows, MeterStepIsEngineStep
<1>2. CASE Handle
  <2> SUFFICES ASSUME NEW i \in Insts, Doomed(i)'
               PROVE  i \in early' \/ (i \notin live' /\ Booted(i)')
    BY DEF DoomedInv
  <2>1. CASE Doomed(i)
    BY <1>1, <1>2, <2>1 DEF Handle, DoomedInv
  <2>2. CASE ~Doomed(i)
    <3>1. PICK r \in Reqs, p \in Projects : StartDestroy(r, p, i)
      BY <1>2, <2>2, DoomedStep DEF Handle
    <3>2. /\ req'[r].op = IF i \in live THEN "kill" ELSE "update"
          /\ req'[r].iid = i /\ At(r, "idle")
      BY <1>0, <3>1 DEF StartDestroy, Serve, StateOK, Idle
    <3>3. CASE Booted(i)
      BY <1>1, <3>1, <3>3 DEF StartDestroy
    <3>4. CASE ~Booted(i)
      <4>1. i \notin live
        BY <3>4 DEF LiveInv, LiveIsUp, Up, Booted
      <4> QED BY <1>2, <3>2, <3>4, <4>1 DEF Handle, Booted
    <3> QED BY <3>3, <3>4
  <2> QED BY <2>1, <2>2
<1>3. ASSUME NEW killed \in BOOLEAN, Restart(killed) PROVE DoomedInv'
  <2>1. ASSUME NEW i \in Insts, Doomed(i)' PROVE Doomed(i)
    BY <1>3, <2>1 DEF Restart, Crash, Doomed, Destroying, Idle, tables
  <2> QED BY <1>1, <1>3, <2>1 DEF Restart, Crash, DoomedInv
<1>4. ASSUME UNCHANGED <<vars, early>> PROVE DoomedInv'
  BY <1>4 DEF vars, tables, machines, DoomedInv, Doomed, Destroying, Booted
<1>5. ASSUME Pass \/ Sample \/ Commit \/ TickLost \/ (\E i \in Insts : Lookup(i))
                \/ UNCHANGED allVars
      PROVE  UNCHANGED <<vars, early>>
  BY <1>5 DEF Pass, Sample, Commit, TickLost, Lookup, allVars, meterVars
<1>6. ASSUME NEW i \in Insts, Exit(i) PROVE DoomedInv'
  <2>1. UNCHANGED <<instState, req, live, early>>
    BY <1>6 DEF Exit, VmExits, tables, meterVars
  <2> QED BY <1>1, <2>1 DEF DoomedInv, Doomed, Destroying
<1> QED BY <1>2, <1>3, <1>4, <1>5, <1>6 DEF MeterNext

LEMMA DoomedInvariant == MeterSpec => []DoomedInv
<1>1. MeterInit => DoomedInv
  BY DEF MeterInit, Init, NoTables, Idle, DoomedInv, Doomed, Destroying
<1>2. EngineInv /\ LiveInv /\ DoomedInv /\ [MeterNext]_allVars => DoomedInv'
  BY DoomedNext
<1> QED BY <1>1, <1>2, ThreadInvariant, PTL DEF MeterSpec

LateOK(i) ==
  i \notin early =>
    /\ late[i] <= Interval
    /\ late[i] > 0 => instState[i] = "DESTROYED" /\ i \notin sample \cup seen

LateInv == \A i \in Insts : LateOK(i)

LEMMA LateStep ==
  ASSUME EngineInv, ThreadOK, DoomedInv, LateInv, [MeterNext]_allVars
  PROVE  LateInv'
<1> SUFFICES ASSUME NEW i \in Insts PROVE LateOK(i)'
  BY DEF LateInv
<1>0. LateOK(i) /\ late[i] \in Nat /\ Interval \in Nat
  BY MeteringAssumption DEF LateInv, ThreadOK
<1>1. instState[i] = "DESTROYED" => instState'[i] = "DESTROYED"
  BY EngineStep, MeterStepIsEngineStep DEF Immutable
<1>2. i \in early => i \in early'
  BY DEF MeterNext, Pass, Sample, Commit, TickLost, Lookup, Handle, Exit, Restart,
         allVars, meterVars
<1> USE DEF thread, billing
(* Only Sample puts an instance into a tick, and only Commit charges one. *)
<1>3. ASSUME late'[i] = late[i], i \in sample' \cup seen' => i \in sample \cup seen
      PROVE  LateOK(i)'
  BY <1>0, <1>1, <1>2, <1>3 DEF LateOK
<1>4. CASE Sample
  <2>1. UNCHANGED <<late, seen, early, instState>> /\ sample' = live
    BY <1>4 DEF Sample, vars, tables
  <2>2. i \notin early /\ instState[i] = "DESTROYED" => i \notin live
    BY DEF DoomedInv, Doomed
  <2> QED BY <1>0, <2>1, <2>2 DEF LateOK
<1>5. CASE Commit
  <2>1. /\ UNCHANGED <<early, instState>> /\ sample' = {} /\ seen' = {}
        /\ late'[i] = late[i] + IF i \in seen /\ instState[i] = "DESTROYED"
                                THEN Interval ELSE 0
    BY <1>5 DEF Commit, AddInterval, SleepAgain, vars, tables
  <2> QED BY <1>0, <2>1 DEF LateOK
<1>6. CASE Pass \/ TickLost \/ Handle \/ UNCHANGED meterVars
  BY <1>3, <1>6 DEF Pass, TickLost, SleepAgain, Handle, meterVars
<1>7. ASSUME NEW j \in Insts, Lookup(j) PROVE LateOK(i)'
  BY <1>3, <1>7 DEF Lookup
<1>8. ASSUME NEW killed \in BOOLEAN, Restart(killed) PROVE LateOK(i)'
  BY <1>3, <1>8 DEF Restart, SleepAgain
<1> QED BY <1>4, <1>5, <1>6, <1>7, <1>8 DEF MeterNext, Exit, allVars

(* After its destroy an instance is charged once at most, by the tick that *)
(* had sampled it before, unless the destroy came while its boot was still *)
(* under way.                                                              *)
THEOREM ChargesEndWithDestroy == MeterSpec => []DestroyEndsCharges
<1>1. MeterInit => LateInv
  BY MeteringAssumption DEF MeterInit, LateInv, LateOK
<1>2. EngineInv /\ ThreadOK /\ DoomedInv /\ LateInv /\ [MeterNext]_allVars => LateInv'
  BY LateStep
<1>3. LateInv => DestroyEndsCharges
  BY DEF LateInv, LateOK, DestroyEndsCharges
<1> QED BY <1>1, <1>2, <1>3, ThreadInvariant, DoomedInvariant, PTL DEF MeterSpec

-----------------------------------------------------------------------------
(* Induction, in a form the provers can use: over naturals and over the    *)
(* subsets of a finite set, with a set for what is shown of its members.   *)

LEMMA LeastNat ==
  ASSUME NEW T \in SUBSET Nat, T # {}
  PROVE  \E m \in T : \A k \in T : m <= k
<1> DEFINE R == {p \in Nat \X Nat : p[1] < p[2]}
<1>1. IsWellFoundedOn(R, Nat)
  BY NatLessThanWellFounded, Zenon DEF OpToRel
<1>2. PICK m \in T : \A k \in T : <<k, m>> \notin R
  <2> HIDE DEF R
  <2> QED BY <1>1, WFMin, Zenon
<1>3. ASSUME NEW k \in T PROVE m <= k
  <2>1. ~(k < m)
    BY <1>2
  <2> QED BY <2>1
<1> QED BY <1>3

(* Induction over a finite set: P collects the subsets of which something  *)
(* holds.                                                                  *)
LEMMA FiniteInduction ==
  ASSUME NEW S, IsFiniteSet(S), NEW P \in SUBSET (SUBSET S), {} \in P,
         \A T \in P, x \in S : x \notin T => T \cup {x} \in P
  PROVE  S \in P
<1> SUFFICES ASSUME S \notin P PROVE FALSE
  OBVIOUS
<1> DEFINE C == {Cardinality(T) : T \in (SUBSET S) \ P}
<1>1. \A T \in SUBSET S : IsFiniteSet(T) /\ Cardinality(T) \in Nat
  BY FS_Subset, FS_CardinalityType
<1>2. PICK m \in C : \A k \in C : m <= k
  <2>1. C \in SUBSET Nat /\ C # {}
    BY <1>1
  <2> HIDE DEF C
  <2> QED BY <2>1, LeastNat
<1>3. PICK T \in (SUBSET S) \ P : m = Cardinality(T)
  BY <1>2
<1>4. PICK x \in T : TRUE
  BY <1>3
<1>5. Cardinality(T \ {x}) = Cardinality(T) - 1
  BY <1>1, <1>4, FS_RemoveElement
<1>6. T \ {x} \in P
  <2>1. SUFFICES ASSUME T \ {x} \notin P PROVE FALSE
    OBVIOUS
  <2>2. Cardinality(T \ {x}) \in C
    BY <2>1
  <2>3. m <= Cardinality(T \ {x}) /\ m \in Nat
    BY <1>1, <1>2, <1>3, <2>2
  <2> HIDE DEF C
  <2> QED BY <1>3, <1>5, <2>3
<1>7. (T \ {x}) \cup {x} = T
  BY <1>4
<1> QED BY <1>3, <1>4, <1>6, <1>7

-----------------------------------------------------------------------------
(* Sums over a finite set. *)

Pick(T) == CHOOSE x \in T : TRUE

(* g is the table of the partial sums of f, as the fold builds it. *)
Sums(g, f, S) ==
  /\ DOMAIN g = SUBSET S
  /\ \A T \in SUBSET S : g[T] = IF T = {} THEN 0 ELSE f[Pick(T)] + g[T \ {Pick(T)}]

LEMMA SumsExist ==
  ASSUME NEW S, IsFiniteSet(S), NEW f, \A x \in S : f[x] \in Int
  PROVE  \E g \in [SUBSET S -> Int] : Sums(g, f, S)
<1> DEFINE Upto(k) == {T \in SUBSET S : Cardinality(T) <= k}
           Add(g, T) == IF T = {} THEN 0 ELSE f[Pick(T)] + g[T \ {Pick(T)}]
           Has(k) == \E g \in [Upto(k) -> Int] : \A T \in Upto(k) : g[T] = Add(g, T)
           C == {k \in Nat : ~Has(k)}
<1>1. \A T \in SUBSET S : IsFiniteSet(T) /\ Cardinality(T) \in Nat
  BY FS_Subset, FS_CardinalityType
<1>2. \A T \in SUBSET S : T # {} => /\ Pick(T) \in T
                                    /\ Cardinality(T \ {Pick(T)}) = Cardinality(T) - 1
  BY <1>1, FS_RemoveElement DEF Pick
<1>3. ASSUME NEW k \in Nat, NEW g \in [Upto(k) -> Int], \A T \in Upto(k) : g[T] = Add(g, T)
      PROVE  Has(k + 1)
  <2> DEFINE h == [T \in Upto(k + 1) |-> Add(g, T)]
  <2>1. \A T \in Upto(k + 1) : T # {} => T \ {Pick(T)} \in Upto(k)
    BY <1>1, <1>2
  <2>2. h \in [Upto(k + 1) -> Int]
    BY <1>2, <2>1
  <2>3. \A T \in Upto(k) : T \in Upto(k + 1) /\ h[T] = g[T]
    BY <1>1, <1>3
  <2>4. \A T \in Upto(k + 1) : Add(g, T) = Add(h, T)
    BY <2>1, <2>3
  <2> HIDE DEF Upto
  <2> QED BY <2>2, <2>4
<1>4. Has(0)
  <2> DEFINE g == [T \in Upto(0) |-> 0]
  <2>1. \A T \in Upto(0) : T = {}
    BY <1>1, FS_EmptySet
  <2>2. g \in [Upto(0) -> Int] /\ \A T \in Upto(0) : g[T] = Add(g, T)
    BY <2>1
  <2> HIDE DEF Upto
  <2> QED BY <2>2
<1>5. C = {}
  <2> SUFFICES ASSUME C # {} PROVE FALSE
    OBVIOUS
  <2>1. PICK m \in C : \A k \in C : m <= k
    <3>1. C \in SUBSET Nat
      OBVIOUS
    <3> HIDE DEF C
    <3> QED BY <3>1, LeastNat
  <2>2. m \in Nat /\ ~Has(m)
    BY <2>1
  <2>3. m # 0
    BY <1>4, <2>2
  <2>4. m - 1 \in Nat /\ (m - 1) + 1 = m /\ ~(m <= m - 1)
    BY <2>2, <2>3
  <2> HIDE DEF Has
  <2>5. Has(m - 1)
    BY <2>1, <2>4
  <2> USE DEF Has
  <2>6. PICK g \in [Upto(m - 1) -> Int] : \A T \in Upto(m - 1) : g[T] = Add(g, T)
    BY <2>5
  <2>7. Has((m - 1) + 1)
    BY <1>3, <2>4, <2>6
  <2> HIDE DEF Has
  <2> QED BY <2>2, <2>4, <2>7
<1>6. Has(Cardinality(S))
  BY <1>1, <1>5
<1>7. Upto(Cardinality(S)) = SUBSET S
  BY FS_Subset
<1> HIDE DEF Upto
<1> QED BY <1>6, <1>7 DEF Sums

(* Two tables agree where both are defined. *)
LEMMA SumsAgree ==
  ASSUME NEW S, IsFiniteSet(S), NEW U \in SUBSET S, NEW f, NEW g, NEW h,
         Sums(g, f, S), Sums(h, f, U)
  PROVE  g[U] = h[U]
<1> DEFINE C == {Cardinality(T) : T \in {V \in SUBSET U : g[V] # h[V]}}
<1>1. \A T \in SUBSET U : IsFiniteSet(T) /\ Cardinality(T) \in Nat
  BY FS_Subset, FS_CardinalityType
<1> SUFFICES ASSUME g[U] # h[U] PROVE FALSE
  OBVIOUS
<1>2. PICK m \in C : \A k \in C : m <= k
  <2>1. C \in SUBSET Nat /\ C # {}
    BY <1>1
  <2> HIDE DEF C
  <2> QED BY <2>1, LeastNat
<1>3. PICK T \in SUBSET U : m = Cardinality(T) /\ g[T] # h[T]
  BY <1>2
<1>4. T # {}
  BY <1>3 DEF Sums
<1>5. Pick(T) \in T /\ Cardinality(T \ {Pick(T)}) = Cardinality(T) - 1
  BY <1>1, <1>4, FS_RemoveElement DEF Pick
<1>6. g[T \ {Pick(T)}] = h[T \ {Pick(T)}]
  <2>1. SUFFICES ASSUME g[T \ {Pick(T)}] # h[T \ {Pick(T)}] PROVE FALSE
    OBVIOUS
  <2>2. Cardinality(T \ {Pick(T)}) \in C
    BY <2>1
  <2>3. m <= Cardinality(T \ {Pick(T)}) /\ m \in Nat
    BY <1>1, <1>2, <1>3, <2>2
  <2> HIDE DEF C
  <2> QED BY <1>3, <1>5, <2>3
<1>7. T \in SUBSET S
  OBVIOUS
<1> QED BY <1>3, <1>4, <1>6, <1>7 DEF Sums

(* The community modules' sum is the last entry of such a table. *)
LEMMA SumIsTable ==
  ASSUME NEW S, IsFiniteSet(S), NEW f, \A x \in S : f[x] \in Int
  PROVE  \E g \in [SUBSET S -> Int] : Sums(g, f, S) /\ SumFunctionOnSet(f, S) = g[S]
<1> DEFINE Add(g, T) == IF T = {} THEN 0 ELSE f[Pick(T)] + g[T \ {Pick(T)}]
           t == CHOOSE g : g = [T \in SUBSET S |-> Add(g, T)]
<1>1. SumFunctionOnSet(f, S) = t[S]
  BY DEF SumFunctionOnSet, FoldFunctionOnSet, MapThenFoldSet, Pick
<1>2. PICK g \in [SUBSET S -> Int] : Sums(g, f, S)
  BY SumsExist
<1>3. g = [T \in SUBSET S |-> Add(g, T)]
  BY <1>2 DEF Sums
<1>4. t = [T \in SUBSET S |-> Add(t, T)]
  BY <1>3
<1> HIDE DEF t
<1>5. Sums(t, f, S)
  BY <1>4 DEF Sums
<1>6. \A T \in SUBSET S : t[T] = g[T]
  <2> TAKE T \in SUBSET S
  <2> DEFINE r == [V \in SUBSET T |-> t[V]]
  <2>1. Sums(r, f, T)
    BY <1>5 DEF Sums, Pick
  <2>2. IsFiniteSet(T)
    BY FS_Subset
  <2> HIDE DEF r
  <2>3. t[T] = r[T] /\ g[T] = r[T]
    BY <1>2, <1>5, <2>1, SumsAgree
  <2> QED BY <2>3
<1>7. t \in [SUBSET S -> Int]
  BY <1>2, <1>4, <1>6
<1> QED BY <1>1, <1>5, <1>7

LEMMA SumEmpty == ASSUME NEW f PROVE SumFunctionOnSet(f, {}) = 0
<1>1. \A x \in {} : f[x] \in Int
  OBVIOUS
<1> QED BY <1>1, SumIsTable, FS_EmptySet DEF Sums

LEMMA SumPick ==
  ASSUME NEW S, IsFiniteSet(S), NEW f, \A x \in S : f[x] \in Int, S # {}
  PROVE  /\ SumFunctionOnSet(f, S) \in Int
         /\ SumFunctionOnSet(f, S)
              = f[Pick(S)] + SumFunctionOnSet(f, S \ {Pick(S)})
<1>1. PICK g \in [SUBSET S -> Int] : Sums(g, f, S) /\ SumFunctionOnSet(f, S) = g[S]
  BY SumIsTable
<1> DEFINE U == S \ {Pick(S)}
<1>2. U \in SUBSET S /\ IsFiniteSet(U) /\ \A x \in U : f[x] \in Int
  BY FS_Subset
<1> HIDE DEF U
<1>3. PICK h \in [SUBSET U -> Int] : Sums(h, f, U) /\ SumFunctionOnSet(f, U) = h[U]
  BY <1>2, SumIsTable
<1>4. g[U] = h[U]
  BY <1>1, <1>2, <1>3, SumsAgree
<1>5. g[S] = f[Pick(S)] + g[U]
  BY <1>1 DEF Sums, U
<1> QED BY <1>1, <1>3, <1>4, <1>5 DEF U

LEMMA SumType ==
  ASSUME NEW S, IsFiniteSet(S), NEW f, \A x \in S : f[x] \in Int
  PROVE  SumFunctionOnSet(f, S) \in Int
<1>1. CASE S = {}
  BY <1>1, SumEmpty
<1>2. CASE S # {}
  BY <1>2, SumPick
<1> QED BY <1>1, <1>2

(* An element may be taken out in any order. *)
LEMMA SumAdd ==
  ASSUME NEW S, IsFiniteSet(S), NEW f, \A x \in S : f[x] \in Int, NEW x \in S
  PROVE  SumFunctionOnSet(f, S) = f[x] + SumFunctionOnSet(f, S \ {x})
<1> DEFINE Out(T) == \A y \in T : SumFunctionOnSet(f, T) = f[y] + SumFunctionOnSet(f, T \ {y})
           C == {Cardinality(T) : T \in {V \in SUBSET S : ~Out(V)}}
<1>1. \A T \in SUBSET S : /\ IsFiniteSet(T) /\ Cardinality(T) \in Nat
                          /\ \A y \in T : f[y] \in Int
  BY FS_Subset, FS_CardinalityType
<1>2. SUFFICES ASSUME ~Out(S) PROVE FALSE
  OBVIOUS
<1> HIDE DEF Out
<1>3. PICK m \in C : \A k \in C : m <= k
  <2>1. C \in SUBSET Nat /\ C # {}
    BY <1>1, <1>2
  <2> HIDE DEF C
  <2> QED BY <2>1, LeastNat
<1>4. PICK T \in SUBSET S : m = Cardinality(T) /\ ~Out(T)
  BY <1>3
<1>5. ASSUME NEW y \in T PROVE Out(T \ {y})
  <2>1. SUFFICES ASSUME ~Out(T \ {y}) PROVE FALSE
    OBVIOUS
  <2>2. Cardinality(T \ {y}) \in C
    BY <2>1
  <2>3. Cardinality(T \ {y}) = Cardinality(T) - 1
    BY <1>1, FS_RemoveElement
  <2>4. m <= Cardinality(T \ {y}) /\ m \in Nat
    BY <1>1, <1>3, <1>4, <2>2
  <2> HIDE DEF C
  <2> QED BY <1>4, <2>3, <2>4
<1>6. PICK y \in T : SumFunctionOnSet(f, T) # f[y] + SumFunctionOnSet(f, T \ {y})
  BY <1>4 DEF Out
<1> DEFINE c == Pick(T)
<1>7. c \in T /\ SumFunctionOnSet(f, T) = f[c] + SumFunctionOnSet(f, T \ {c})
  BY <1>1, <1>6, SumPick DEF Pick
<1> HIDE DEF c
<1>8. c # y
  BY <1>6, <1>7
<1> DEFINE Z == SumFunctionOnSet(f, T \ {c, y})
<1>9. SumFunctionOnSet(f, T \ {c}) = f[y] + Z
  <2>1. (T \ {c}) \ {y} = T \ {c, y}
    OBVIOUS
  <2> QED BY <1>5, <1>7, <1>8, <2>1 DEF Out
<1>10. SumFunctionOnSet(f, T \ {y}) = f[c] + Z
  <2>1. (T \ {y}) \ {c} = T \ {c, y}
    OBVIOUS
  <2> QED BY <1>5, <1>7, <1>8, <2>1 DEF Out
<1>11. f[c] \in Int /\ f[y] \in Int /\ Z \in Int
  <2>1. T \ {c, y} \in SUBSET S
    OBVIOUS
  <2> QED BY <1>1, <1>7, <2>1, SumType
<1> HIDE DEF Z
<1> QED BY <1>6, <1>7, <1>9, <1>10, <1>11

(* Sums of sums, and of what is zero outside a set. *)
LEMMA SumPlus ==
  ASSUME NEW S, IsFiniteSet(S), NEW f, NEW g, NEW h,
         \A x \in S : f[x] \in Int /\ g[x] \in Int /\ h[x] = f[x] + g[x]
  PROVE  SumFunctionOnSet(h, S) = SumFunctionOnSet(f, S) + SumFunctionOnSet(g, S)
<1> DEFINE P == {T \in SUBSET S : SumFunctionOnSet(h, T)
                                    = SumFunctionOnSet(f, T) + SumFunctionOnSet(g, T)}
<1>1. {} \in P
  BY SumEmpty
<1>2. ASSUME NEW T \in P, NEW x \in S, x \notin T PROVE T \cup {x} \in P
  <2> DEFINE U == T \cup {x}
  <2>1. /\ IsFiniteSet(U) /\ U \in SUBSET S /\ U \ {x} = T /\ x \in U
        /\ IsFiniteSet(T) /\ T \in SUBSET S
    BY <1>2, FS_Subset
  <2>2. /\ \A y \in U : f[y] \in Int /\ g[y] \in Int /\ h[y] \in Int /\ h[y] = f[y] + g[y]
    BY <2>1
  <2> HIDE DEF U
  <2>3. /\ SumFunctionOnSet(f, U) = f[x] + SumFunctionOnSet(f, T)
        /\ SumFunctionOnSet(g, U) = g[x] + SumFunctionOnSet(g, T)
        /\ SumFunctionOnSet(h, U) = h[x] + SumFunctionOnSet(h, T)
    BY <2>1, <2>2, SumAdd
  <2>4. /\ SumFunctionOnSet(f, T) \in Int /\ SumFunctionOnSet(g, T) \in Int
        /\ f[x] \in Int /\ g[x] \in Int /\ h[x] = f[x] + g[x]
    BY <2>1, <2>2, SumType
  <2>5. SumFunctionOnSet(h, T) = SumFunctionOnSet(f, T) + SumFunctionOnSet(g, T)
    BY <1>2
  <2>6. SumFunctionOnSet(h, U) = SumFunctionOnSet(f, U) + SumFunctionOnSet(g, U)
    BY <2>3, <2>4, <2>5
  <2> QED BY <2>1, <2>6 DEF U
<1>3. S \in P
  <2>1. P \in SUBSET (SUBSET S)
    OBVIOUS
  <2> HIDE DEF P
  <2> QED BY <1>1, <1>2, <2>1, FiniteInduction
<1> QED BY <1>3

LEMMA SumZero ==
  ASSUME NEW S, IsFiniteSet(S), NEW f, \A x \in S : f[x] = 0
  PROVE  SumFunctionOnSet(f, S) = 0
<1>1. SumFunctionOnSet(f, S) = SumFunctionOnSet(f, S) + SumFunctionOnSet(f, S)
  BY SumPlus
<1> QED BY <1>1, SumType

LEMMA SumExtend ==
  ASSUME NEW S, IsFiniteSet(S), NEW f, \A x \in S : f[x] \in Int,
         NEW U \in SUBSET S, \A x \in S \ U : f[x] = 0
  PROVE  SumFunctionOnSet(f, S) = SumFunctionOnSet(f, U)
<1> DEFINE P == {T \in SUBSET S : SumFunctionOnSet(f, U \cup T) = SumFunctionOnSet(f, U)}
<1>1. {} \in P
  OBVIOUS
<1>2. ASSUME NEW T \in P, NEW x \in S, x \notin T PROVE T \cup {x} \in P
  <2>1. CASE x \in U
    <3>1. U \cup (T \cup {x}) = U \cup T
      BY <2>1
    <3> QED BY <1>2, <3>1
  <2>2. CASE x \notin U
    <3> DEFINE W == U \cup (T \cup {x})
    <3>1. W \in SUBSET S /\ x \in W /\ W \ {x} = U \cup T /\ f[x] = 0 /\ U \cup T \in SUBSET S
      BY <1>2, <2>2
    <3>2. IsFiniteSet(W) /\ IsFiniteSet(U \cup T) /\ \A y \in W : f[y] \in Int
      BY <3>1, FS_Subset
    <3>3. SumFunctionOnSet(f, U \cup T) \in Int
      BY <3>1, <3>2, SumType
    <3> HIDE DEF W
    <3>4. SumFunctionOnSet(f, W) = f[x] + SumFunctionOnSet(f, U \cup T)
      BY <3>1, <3>2, SumAdd
    <3>5. SumFunctionOnSet(f, W) = SumFunctionOnSet(f, U \cup T)
      BY <3>1, <3>3, <3>4
    <3> QED BY <1>2, <3>5 DEF W
  <2> QED BY <2>1, <2>2
<1>3. S \in P
  <2>1. P \in SUBSET (SUBSET S)
    OBVIOUS
  <2> HIDE DEF P
  <2> QED BY <1>1, <1>2, <2>1, FiniteInduction
<1>4. U \cup S = S
  OBVIOUS
<1> QED BY <1>3, <1>4

-----------------------------------------------------------------------------
(* The bill. *)

(***************************************************************************)
(* Why the bill of a project is what its instances were charged: during a  *)
(* tick, accr is what the tick will add to the charges of the instances    *)
(* seen so far, none of which is in the sample any more; only an instance  *)
(* with a committed row is seen or charged, and its row keeps its run and  *)
(* so its project until the tick commits.                                  *)
(***************************************************************************)
Tick == [i \in Insts |-> IF i \in seen THEN Interval ELSE 0]

AccruedIsSeen == \A p \in Projects : accr[p] = SumFunctionOnSet(Tick, Own(p))

BillInv ==
  /\ meter = "asleep" => seen = {} /\ accr = Nobody
  /\ sample \cap seen = {}
  /\ \A i \in Insts : instRun[i] = None => charged[i] = 0 /\ i \notin seen
  /\ AccruedIsSeen
  /\ BillIsCharges

(* What a step of the engine leaves of the instances of a project. *)
LEMMA OwnGrows ==
  ASSUME EngineInv, [Next]_vars
  PROVE  /\ \A i \in Insts : instRun'[i] = None => instRun[i] = None
         /\ \A p \in Projects : /\ Own(p) \subseteq Own(p)'
                                /\ \A i \in Own(p)' \ Own(p) : instRun[i] = None
<1>0. TablesOK /\ TimelineIsDAG
  BY DEF EngineInv, TypeOK
<1>1. Immutable /\ RunsKept
  BY <1>0, StepRefines, ImmutableStep, RunsStep
<1>2. \A i \in Insts : instRun[i] # None =>
        /\ instRun'[i] = instRun[i] /\ instRun[i] \in Runs
        /\ runs'[instRun[i]] = runs[instRun[i]]
  BY <1>0, <1>1 DEF Immutable, RunsKept, TablesOK, TimelineIsDAG, InstOK
<1> QED BY <1>2 DEF Own

(* Instances that join a project bring no charge and are not in the tick. *)
LEMMA BillFrame ==
  ASSUME EngineInv, ThreadOK, BillInv, [Next]_vars,
         UNCHANGED <<seen, accr, usage, charged>>
  PROVE  AccruedIsSeen' /\ BillIsCharges'
<1> SUFFICES ASSUME NEW p \in Projects
             PROVE  /\ accr[p] = SumFunctionOnSet(Tick, Own(p)')
                    /\ usage[p] = SumFunctionOnSet(charged, Own(p)')
  BY DEF AccruedIsSeen, BillIsCharges, Tick
<1>1. Own(p) \subseteq Own(p)' /\ \A i \in Own(p)' \ Own(p) : instRun[i] = None
  BY OwnGrows
<1>2. Own(p)' \subseteq Insts
  BY DEF Own
<1>3. IsFiniteSet(Own(p)')
  BY <1>2, MeteringAssumption, FS_Subset
<1>4. \A i \in Insts : charged[i] \in Int /\ Tick[i] \in Int
  BY MeteringAssumption DEF ThreadOK, Tick
<1>5. \A i \in Own(p)' \ Own(p) : charged[i] = 0 /\ Tick[i] = 0
  BY <1>1, <1>2 DEF BillInv, Tick
<1>6. /\ SumFunctionOnSet(Tick, Own(p)') = SumFunctionOnSet(Tick, Own(p))
      /\ SumFunctionOnSet(charged, Own(p)') = SumFunctionOnSet(charged, Own(p))
  BY <1>1, <1>2, <1>3, <1>4, <1>5, SumExtend
<1> QED BY <1>6 DEF BillInv, AccruedIsSeen, BillIsCharges

(* A lookup adds the interval of the instance to the sum of its project. *)
LEMMA BillLookup ==
  ASSUME EngineInv, ThreadOK, BillInv, NEW j \in Insts, Lookup(j)
  PROVE  BillInv'
<1>0. TablesOK /\ TimelineIsDAG /\ Interval \in Nat
  BY MeteringAssumption DEF EngineInv, TypeOK
<1>1. /\ UNCHANGED <<instRun, runs, usage, charged, meter>> /\ meter = "tick"
      /\ sample' = sample \ {j} /\ j \in sample
  BY DEF Lookup, vars, tables, billing
<1>2. BillIsCharges'
  BY <1>1 DEF BillInv, BillIsCharges, Own
<1>3. CASE instRun[j] = None
  <2>1. UNCHANGED <<seen, accr>>
    BY <1>3 DEF Lookup
  <2>2. AccruedIsSeen'
    BY <1>1, <2>1 DEF BillInv, AccruedIsSeen, Tick, Own
  <2> QED BY <1>1, <1>2, <2>1, <2>2 DEF BillInv
<1>4. CASE instRun[j] # None
  <2> DEFINE q == runs[instRun[j]]
             one == [i \in Insts |-> IF i = j THEN Interval ELSE 0]
  <2>1. q \in Projects /\ j \notin seen /\ j \in Own(q)
    BY <1>0, <1>1, <1>4 DEF TablesOK, TimelineIsDAG, InstOK, BillInv, Own
  <2>2. /\ seen' = seen \cup {j}
        /\ \A p \in Projects : accr'[p] = IF p = q THEN accr[p] + Interval ELSE accr[p]
    BY <1>4, <2>1 DEF Lookup, ThreadOK
  <2>3. ASSUME NEW p \in Projects PROVE accr'[p] = SumFunctionOnSet(Tick', Own(p))
    <3>1. Own(p) \subseteq Insts /\ IsFiniteSet(Own(p))
      BY MeteringAssumption, FS_Subset DEF Own
    <3>2. /\ \A i \in Own(p) : /\ Tick[i] \in Int /\ one[i] \in Int
                               /\ Tick'[i] = Tick[i] + one[i]
      BY <1>0, <2>1, <2>2, <3>1 DEF Tick
    <3> HIDE DEF one
    <3>3. SumFunctionOnSet(Tick', Own(p))
            = SumFunctionOnSet(Tick, Own(p)) + SumFunctionOnSet(one, Own(p))
      BY <3>1, <3>2, SumPlus
    <3>4. SumFunctionOnSet(one, Own(p)) = IF p = q THEN Interval ELSE 0
      <4>1. CASE p = q
        <5>1. SumFunctionOnSet(one, Own(p))
                = one[j] + SumFunctionOnSet(one, Own(p) \ {j})
          BY <2>1, <3>1, <3>2, <4>1, SumAdd
        <5>2. SumFunctionOnSet(one, Own(p) \ {j}) = 0
          <6>1. IsFiniteSet(Own(p) \ {j}) /\ \A i \in Own(p) \ {j} : one[i] = 0
            BY <3>1, FS_Subset DEF one
          <6> QED BY <6>1, SumZero
        <5>3. one[j] = Interval
          BY DEF one
        <5> QED BY <1>0, <4>1, <5>1, <5>2, <5>3
      <4>2. CASE p # q
        <5>1. \A i \in Own(p) : one[i] = 0
          BY <3>1, <4>2 DEF one, Own
        <5> QED BY <3>1, <4>2, <5>1, SumZero
      <4> QED BY <4>1, <4>2
    <3>5. accr[p] = SumFunctionOnSet(Tick, Own(p)) /\ accr[p] \in Nat
      BY DEF BillInv, AccruedIsSeen, ThreadOK
    <3> QED BY <1>0, <2>2, <3>3, <3>4, <3>5
  <2>4. AccruedIsSeen'
    BY <1>1, <2>3 DEF AccruedIsSeen, Own
  <2> QED BY <1>1, <1>2, <1>4, <2>2, <2>4 DEF BillInv
<1> QED BY <1>3, <1>4

(* A commit moves what accrued to the bills, and each instance's share of  *)
(* it to the instance.                                                     *)
LEMMA BillCommit ==
  ASSUME EngineInv, ThreadOK, BillInv, Commit
  PROVE  BillIsCharges'
<1> SUFFICES ASSUME NEW p \in Projects
             PROVE  usage'[p] = SumFunctionOnSet(charged', Own(p))
  BY DEF BillIsCharges, Own, Commit, vars, tables
<1>1. usage'[p] = usage[p] + accr[p]
  BY DEF Commit
<1>2. Own(p) \subseteq Insts /\ IsFiniteSet(Own(p))
  BY MeteringAssumption, FS_Subset DEF Own
<1>3. \A i \in Own(p) : /\ charged[i] \in Int /\ Tick[i] \in Int
                        /\ charged'[i] = charged[i] + Tick[i]
  BY <1>2, MeteringAssumption DEF Commit, AddInterval, ThreadOK, Tick
<1>4. SumFunctionOnSet(charged', Own(p))
        = SumFunctionOnSet(charged, Own(p)) + SumFunctionOnSet(Tick, Own(p))
  BY <1>2, <1>3, SumPlus
<1> QED BY <1>1, <1>4 DEF BillInv, BillIsCharges, AccruedIsSeen

(* With nothing seen, nothing has accrued. *)
LEMMA NothingAccrued == seen = {} /\ accr = Nobody => AccruedIsSeen
<1> SUFFICES ASSUME seen = {}, accr = Nobody, NEW p \in Projects
             PROVE  SumFunctionOnSet(Tick, Own(p)) = 0
  BY DEF AccruedIsSeen, Nobody
<1>1. IsFiniteSet(Own(p)) /\ \A i \in Own(p) : Tick[i] = 0
  BY MeteringAssumption, FS_Subset DEF Own, Tick
<1> QED BY <1>1, SumZero

LEMMA BillStep ==
  ASSUME EngineInv, ThreadOK, BillInv, [MeterNext]_allVars
  PROVE  BillInv'
<1> USE DEF thread, billing
<1>1. \A i \in Insts : instRun'[i] = None => instRun[i] = None
  BY OwnGrows, MeterStepIsEngineStep
<1>2. ASSUME UNCHANGED <<seen, accr, usage, charged>> PROVE AccruedIsSeen' /\ BillIsCharges'
  BY <1>2, BillFrame, MeterStepIsEngineStep
<1>3. ASSUME SleepAgain PROVE AccruedIsSeen' /\ seen' = {} /\ sample' = {} /\ accr' = Nobody'
  <2>1. seen' = {} /\ sample' = {} /\ accr' = Nobody'
    BY <1>3 DEF SleepAgain, Nobody
  <2>2. (seen = {} /\ accr = Nobody => AccruedIsSeen)'
    BY NothingAccrued, PTL
  <2> QED BY <2>1, <2>2
<1>4. CASE Pass
  BY <1>2, <1>4 DEF Pass, BillInv, vars, tables
<1>5. CASE Sample
  BY <1>2, <1>5 DEF Sample, BillInv, vars, tables
<1>6. ASSUME NEW j \in Insts, Lookup(j) PROVE BillInv'
  BY <1>6, BillLookup
<1>7. CASE Commit
  <2>1. BillIsCharges' /\ AccruedIsSeen'
    BY <1>3, <1>7, BillCommit DEF Commit
  <2>2. \A i \in Insts : instRun'[i] = None => charged'[i] = 0
    BY <1>7, MeteringAssumption DEF Commit, AddInterval, BillInv, vars, tables
  <2> QED BY <1>3, <1>7, <2>1, <2>2 DEF Commit, BillInv
<1>8. CASE TickLost
  BY <1>1, <1>3, <1>8 DEF TickLost, BillInv, BillIsCharges, Own, vars, tables
<1>9. CASE Handle \/ \E i \in Insts : Exit(i)
  BY <1>1, <1>2, <1>9 DEF Handle, Exit, meterVars, BillInv, Nobody
<1>10. ASSUME NEW killed \in BOOLEAN, Restart(killed) PROVE BillInv'
  BY <1>1, <1>3, <1>10 DEF Restart, Crash, BillInv, BillIsCharges, Own, tables
<1>11. CASE UNCHANGED allVars
  BY <1>1, <1>2, <1>11 DEF allVars, meterVars, BillInv, Nobody
<1> QED BY <1>4, <1>5, <1>6, <1>7, <1>8, <1>9, <1>10, <1>11 DEF MeterNext

(* A project pays for what its own instances were charged, to the second:  *)
(* no tick that is lost, cut short by a restart, or beside a boot, a fork  *)
(* or a destroy loses a charge, doubles it, or moves it to another         *)
(* project.                                                                *)
THEOREM BillsAreCharges == MeterSpec => []BillIsCharges
<1>1. MeterInit => BillInv
  <2> SUFFICES ASSUME MeterInit PROVE BillInv
    OBVIOUS
  <2>1. /\ seen = {} /\ accr = Nobody /\ usage = Nobody /\ sample = {}
        /\ charged = [i \in Insts |-> 0]
    BY DEF MeterInit
  <2>2. ASSUME NEW p \in Projects PROVE usage[p] = SumFunctionOnSet(charged, Own(p))
    <3>1. IsFiniteSet(Own(p)) /\ \A i \in Own(p) : charged[i] = 0
      BY <2>1, MeteringAssumption, FS_Subset DEF Own
    <3> QED BY <2>1, <3>1, SumZero DEF Nobody
  <2> QED BY <2>1, <2>2, NothingAccrued DEF BillInv, BillIsCharges
<1>2. EngineInv /\ ThreadOK /\ BillInv /\ [MeterNext]_allVars => BillInv'
  BY BillStep
<1>3. BillInv => BillIsCharges
  BY DEF BillInv
<1> QED BY <1>1, <1>2, <1>3, ThreadInvariant, PTL DEF MeterSpec
=============================================================================
