------------------------------- MODULE Engine -------------------------------
(***************************************************************************)
(* The engine (kladosd.py): HTTP requests served by concurrent threads,    *)
(* each a sequence of steps over the SQLite tables, the in-memory map LIVE *)
(* and the Firecracker processes.  A request can fail at any step that     *)
(* talks to a VM or waits for SQLite, and the daemon can crash and restart *)
(* between any two steps.                                                  *)
(***************************************************************************)
EXTENDS Timeline, FiniteSets

CONSTANTS Reqs,       \* handler threads
          MaxForks,   \* most children asked for by one fork
          MaxWrites,  \* bound on guest writes to one data disk
          BootFaults, \* may a VM fail to come up?
          ApiFaults   \* may a Firecracker or disk operation fail on a live VM?

ASSUME EngineAssumption ==
  /\ None \notin Reqs
  /\ MaxForks \in Nat \ {0}
  /\ MaxWrites \in Nat
  /\ BootFaults \in BOOLEAN
  /\ ApiFaults \in BOOLEAN

VARIABLES
  live,     \* LIVE: instances whose Microvm the daemon holds
  vm,       \* state of the instance's firecracker process
  disk,     \* version of the instance's /data disk
  memAt,    \* disk version the snapshot's memory image goes with
  diskAt,   \* disk version sealed into the snapshot
  lock,     \* the request that holds SQLite's write lock
  taken,    \* ids handed out by _id()
  req       \* the request a thread serves: next step and locals

machines == <<live, vm, disk>>
images == <<memAt, diskAt>>
vars == <<tables, machines, images, lock, taken, req>>

Steps == {"idle", "genesis", "pause", "create", "seal", "resume", "store",
          "fork", "insert", "kill", "update"}

Request == [op : Steps,                  \* next step
            who : Projects \cup {None},  \* project of the API key
            iid : Insts \cup {None},     \* instance
            sid : Snaps \cup {None},     \* snapshot
            par : Snaps \cup {None},     \* lineage pointer it read
            todo : SUBSET Insts,         \* children still to boot
            kids : SUBSET Insts]         \* children inserted, not committed

Idle == [op |-> "idle", who |-> None, iid |-> None, sid |-> None, par |-> None,
         todo |-> {}, kids |-> {}]

TypeOK ==
  /\ TablesOK
  /\ live \subseteq Insts
  /\ vm \in [Insts -> {"none", "running", "paused", "exited", "leaked", "dead"}]
  /\ disk \in [Insts -> Nat]
  /\ memAt \in [Snaps -> Nat]
  /\ diskAt \in [Snaps -> Nat]
  /\ lock \in Reqs \cup {None}
  /\ taken \subseteq Runs \cup Insts \cup Snaps
  /\ req \in [Reqs -> Request]

Init ==
  /\ NoTables
  /\ live = {}
  /\ vm = [i \in Insts |-> "none"]
  /\ disk = [i \in Insts |-> 0]
  /\ memAt = [s \in Snaps |-> 0]
  /\ diskAt = [s \in Snaps |-> 0]
  /\ lock = None
  /\ taken = {}
  /\ req = [r \in Reqs |-> Idle]

-----------------------------------------------------------------------------
At(r, l) == req[r].op = l
Goto(r, l) == req' = [req EXCEPT ![r].op = l]
Serve(r, q) == req' = [req EXCEPT ![r] = q]

(* _id() *)
New(id) == id \notin taken /\ taken' = taken \cup {id}

(* _require_owner: the project of an instance's or a snapshot's run; an id *)
(* with no committed row has no owner.                                     *)
OwnsInst(p, i) == instRun[i] # None /\ runs[instRun[i]] = p

(* Mutant: any project's key will do. *)
OwnsSnapAny(p, s) == snapRun[s] # None

OwnsSnap(p, s) == snapRun[s] # None /\ runs[snapRun[s]] = p

(* Another connection holds the write lock: a write waits 30 s, then fails. *)
Locked(r) == lock \notin {None, r}

(* An exception ends the request: its connection is dropped, which rolls   *)
(* back what it had not committed.                                         *)
Abort(r) ==
  /\ Serve(r, Idle)
  /\ lock' = IF lock = r THEN None ELSE lock
  /\ UNCHANGED <<tables, images>>

-----------------------------------------------------------------------------
(* create_run *)

CreateRun(r, p, rid, i) ==
  /\ At(r, "idle") /\ lock = None
  /\ {rid, i} \cap taken = {}
  /\ taken' = taken \cup {rid, i}
  /\ InsertRun(rid, i, p)
  /\ Serve(r, [Idle EXCEPT !.op = "genesis", !.who = p, !.iid = i])
  /\ UNCHANGED <<machines, images, lock>>

(* _boot_vm: the VM is in LIVE once it has been configured and started. *)
BootUp(i) ==
  /\ vm' = [vm EXCEPT ![i] = "running"]
  /\ live' = live \cup {i}
  /\ UNCHANGED disk

(* _spawn or the API calls after it raise: the process is left behind. *)
BootDown(i) ==
  /\ BootFaults
  /\ vm' = [vm EXCEPT ![i] = "leaked"]
  /\ UNCHANGED <<live, disk>>

BootGenesis(r) ==
  /\ At(r, "genesis")
  /\ BootUp(req[r].iid)
  /\ Serve(r, Idle)
  /\ UNCHANGED <<tables, images, lock, taken>>

BootGenesisFails(r) ==
  /\ At(r, "genesis")
  /\ BootDown(req[r].iid)
  /\ Abort(r)
  /\ UNCHANGED taken

-----------------------------------------------------------------------------
(* snapshot_instance *)

(* Mutant: the wrong column is read as the parent. *)
StartSnapshotColumn(r, p, i, s) ==
  /\ At(r, "idle") /\ OwnsInst(p, i) /\ i \in live
  /\ New(s)
  /\ Serve(r, [Idle EXCEPT !.op = "pause", !.who = p, !.iid = i, !.sid = s,
                           !.par = instRun[i]])
  /\ UNCHANGED <<tables, machines, images, lock>>

StartSnapshot(r, p, i, s) ==
  /\ At(r, "idle") /\ OwnsInst(p, i) /\ i \in live
  /\ New(s)
  /\ Serve(r, [Idle EXCEPT !.op = "pause", !.who = p, !.iid = i, !.sid = s,
                           !.par = instSnap[i]])
  /\ UNCHANGED <<tables, machines, images, lock>>

Up(i) == vm[i] \in {"running", "paused"}

(* PATCH /vm succeeds on a VM already in the state asked for. *)
SetVm(i, st) == Up(i) /\ vm' = [vm EXCEPT ![i] = st] /\ UNCHANGED <<live, disk>>

PauseVm(r) ==
  /\ At(r, "pause") /\ SetVm(req[r].iid, "paused")
  /\ Goto(r, "create")
  /\ UNCHANGED <<tables, images, lock, taken>>

(* /snapshot/create: Firecracker refuses it unless the VM is paused. *)
CreateImage(r) ==
  /\ At(r, "create") /\ vm[req[r].iid] = "paused"
  /\ memAt' = [memAt EXCEPT ![req[r].sid] = disk[req[r].iid]]
  /\ Goto(r, "seal")
  /\ UNCHANGED <<tables, machines, diskAt, lock, taken>>

(* Mutant: the VM is not resumed. *)
SealDiskNoResume(r) ==
  /\ At(r, "seal")
  /\ diskAt' = [diskAt EXCEPT ![req[r].sid] = disk[req[r].iid]]
  /\ Goto(r, "store")
  /\ UNCHANGED <<tables, machines, memAt, lock, taken>>

(* The data disk is copied. *)
SealDisk(r) ==
  /\ At(r, "seal")
  /\ diskAt' = [diskAt EXCEPT ![req[r].sid] = disk[req[r].iid]]
  /\ Goto(r, "resume")
  /\ UNCHANGED <<tables, machines, memAt, lock, taken>>

ResumeVm(r) ==
  /\ At(r, "resume") /\ SetVm(req[r].iid, "running")
  /\ Goto(r, "store")
  /\ UNCHANGED <<tables, images, lock, taken>>

(* Mutant: the UPDATE of the instance is forgotten. *)
StoreSnapshotNoPointer(r) ==
  /\ At(r, "store") /\ ~Locked(r)
  /\ InsertSnapshotOnly(req[r].sid, req[r].iid, req[r].par)
  /\ Serve(r, Idle)
  /\ UNCHANGED <<machines, images, lock, taken>>

(* The memory image is chunked, then the row is inserted and committed. *)
StoreSnapshot(r) ==
  /\ At(r, "store") /\ ~Locked(r)
  /\ InsertSnapshot(req[r].sid, req[r].iid, req[r].par)
  /\ Serve(r, Idle)
  /\ UNCHANGED <<machines, images, lock, taken>>

(* Mutant: a refused /snapshot/create is retried for ever. *)
SnapshotFailsRetries(r) ==
  /\ \/ At(r, "pause") /\ ~Up(req[r].iid)
     \/ At(r, "resume") /\ ~Up(req[r].iid)
     \/ At(r, "store") /\ Locked(r)
  /\ Abort(r)
  /\ UNCHANGED <<machines, taken>>

(* No step restores the VM's state when a later one fails. *)
SnapshotFails(r) ==
  /\ \/ At(r, "pause") /\ ~Up(req[r].iid)
     \/ At(r, "create") /\ vm[req[r].iid] # "paused"
     \/ At(r, "resume") /\ ~Up(req[r].iid)
     \/ At(r, "store") /\ Locked(r)
     \/ ApiFaults /\ req[r].op \in {"pause", "create", "seal", "resume", "store"}
  /\ Abort(r)
  /\ UNCHANGED <<machines, taken>>

-----------------------------------------------------------------------------
(* fork_snapshot *)

(* The ids of the children are chosen here; the loop calls _id() for each. *)
StartFork(r, p, s, K) ==
  /\ At(r, "idle") /\ OwnsSnap(p, s)
  /\ K # {} /\ Cardinality(K) <= MaxForks
  /\ K \cap taken = {} /\ taken' = taken \cup K
  /\ Serve(r, [Idle EXCEPT !.op = "fork", !.who = p, !.sid = s, !.todo = K])
  /\ UNCHANGED <<tables, machines, images, lock>>

(* The child inherits the sealed disk. *)
BootFork(r, i) ==
  /\ At(r, "fork") /\ i \in req[r].todo
  /\ vm' = [vm EXCEPT ![i] = "running"]
  /\ live' = live \cup {i}
  /\ disk' = [disk EXCEPT ![i] = diskAt[req[r].sid]]
  /\ Serve(r, [req[r] EXCEPT !.op = "insert", !.iid = i])
  /\ UNCHANGED <<tables, images, lock, taken>>

BootForkFails(r, i) ==
  /\ At(r, "fork") /\ i \in req[r].todo
  /\ BootDown(i)
  /\ Abort(r)
  /\ UNCHANGED taken

(* After FORKED: the first INSERT takes the write lock and keeps it. *)
InsertFork(r) ==
  /\ At(r, "insert") /\ ~Locked(r)
  /\ lock' = r
  /\ Serve(r, [req[r] EXCEPT !.op = "fork", !.todo = @ \ {req[r].iid},
                             !.kids = @ \cup {req[r].iid}])
  /\ UNCHANGED <<tables, machines, images, taken>>

InsertForkFails(r) ==
  /\ At(r, "insert") /\ Locked(r)
  /\ Abort(r)
  /\ UNCHANGED <<machines, taken>>

CommitFork(r) ==
  /\ At(r, "fork") /\ req[r].todo = {}
  /\ InsertForks(req[r].kids, req[r].sid)
  /\ lock' = None
  /\ Serve(r, Idle)
  /\ UNCHANGED <<machines, images, taken>>

-----------------------------------------------------------------------------
(* destroy_instance *)

(* Mutant: LIVE.get instead of LIVE.pop. *)
StartDestroyKeepsLive(r, p, i) ==
  /\ At(r, "idle") /\ OwnsInst(p, i)
  /\ Serve(r, [Idle EXCEPT !.op = IF i \in live THEN "kill" ELSE "update",
                           !.who = p, !.iid = i])
  /\ UNCHANGED <<tables, machines, images, lock, taken>>

(* LIVE.pop, then kill if there was a VM. *)
StartDestroy(r, p, i) ==
  /\ At(r, "idle") /\ OwnsInst(p, i)
  /\ live' = live \ {i}
  /\ Serve(r, [Idle EXCEPT !.op = IF i \in live THEN "kill" ELSE "update",
                           !.who = p, !.iid = i])
  /\ UNCHANGED <<tables, vm, disk, images, lock, taken>>

KillVm(r) ==
  /\ At(r, "kill")
  /\ vm' = [vm EXCEPT ![req[r].iid] = "dead"]
  /\ Goto(r, "update")
  /\ UNCHANGED <<tables, live, disk, images, lock, taken>>

CommitDestroy(r) ==
  /\ At(r, "update") /\ ~Locked(r)
  /\ MarkDestroyed(req[r].iid)
  /\ Serve(r, Idle)
  /\ UNCHANGED <<machines, images, lock, taken>>

DestroyFails(r) ==
  /\ At(r, "update") /\ Locked(r)
  /\ Abort(r)
  /\ UNCHANGED <<machines, taken>>

-----------------------------------------------------------------------------
(* The workload writes its data disk.  QUIESCE stops only the workload's   *)
(* root process, and its failure is ignored, so a running VM may write.    *)
GuestWrites(i) ==
  /\ vm[i] = "running" /\ disk[i] < MaxWrites
  /\ disk' = [disk EXCEPT ![i] = @ + 1]
  /\ UNCHANGED <<tables, live, vm, images, lock, taken, req>>

(* The firecracker process exits by itself: the guest panics or reboots    *)
(* (boot arguments panic=1 reboot=k), or the process crashes.  The daemon  *)
(* does not wait for it, so its Microvm stays in LIVE and its row RUNNING. *)
VmExits(i) ==
  /\ Up(i)
  /\ vm' = [vm EXCEPT ![i] = "exited"]
  /\ UNCHANGED <<tables, live, disk, images, lock, taken, req>>

(* The daemon dies and is started again.  LIVE and the requests are gone,  *)
(* uncommitted rows are rolled back.  The firecracker processes are its    *)
(* children; whether they go with it is up to how it was stopped.          *)
Crash(killed) ==
  /\ live' = {}
  /\ vm' = [i \in Insts |-> IF killed /\ vm[i] # "none" THEN "dead" ELSE vm[i]]
  /\ lock' = None
  /\ req' = [r \in Reqs |-> Idle]
  /\ UNCHANGED <<tables, disk, images, taken>>

Start(r, p) ==
  \/ \E rid \in Runs, i \in Insts : CreateRun(r, p, rid, i)
  \/ \E i \in Insts, s \in Snaps : StartSnapshot(r, p, i, s)
  \/ \E s \in Snaps, K \in SUBSET Insts : StartFork(r, p, s, K)
  \/ \E i \in Insts : StartDestroy(r, p, i)

Step(r) ==
  \/ BootGenesis(r) \/ BootGenesisFails(r)
  \/ PauseVm(r) \/ CreateImage(r) \/ SealDisk(r) \/ ResumeVm(r)
  \/ StoreSnapshot(r) \/ SnapshotFails(r)
  \/ \E i \in Insts : BootFork(r, i) \/ BootForkFails(r, i)
  \/ InsertFork(r) \/ InsertForkFails(r) \/ CommitFork(r)
  \/ KillVm(r) \/ CommitDestroy(r) \/ DestroyFails(r)

Next ==
  \/ \E r \in Reqs : (\E p \in Projects : Start(r, p)) \/ Step(r)
  \/ \E i \in Insts : GuestWrites(i) \/ VmExits(i)
  \/ \E killed \in BOOLEAN : Crash(killed)

Spec == Init /\ [][Next]_vars

(* A thread that serves a request goes on until it answers. *)
FairSpec == Spec /\ \A r \in Reqs : WF_vars(Step(r))

-----------------------------------------------------------------------------
(* Properties. *)

(***************************************************************************)
(* What the engine does to the VMs it holds in LIVE: none has been killed, *)
(* left half booted or not been booted at all.  Destroy takes a VM out of  *)
(* LIVE before it kills it, and no later step of a request that was under  *)
(* way puts it back.  The one way for a VM in LIVE not to be up is that    *)
(* its process exited by itself.                                           *)
(***************************************************************************)
LiveIsUp == \A i \in live : Up(i) \/ vm[i] = "exited"

(***************************************************************************)
(* A live VM is paused only while some snapshot request is about to resume *)
(* it, as long as Firecracker and the disk do not fail: concurrent         *)
(* snapshots, forks and destroys never strand a VM in Paused.              *)
(***************************************************************************)
PausedIsAttended ==
  \A i \in live :
    vm[i] = "paused" =>
      \E r \in Reqs : req[r].op \in {"create", "seal", "resume"} /\ req[r].iid = i

(***************************************************************************)
(* Tenancy: a row is inserted or changed only by a request of the project  *)
(* that owns the row's run.                                                *)
(***************************************************************************)
By(p) == \E r \in Reqs : req'[r] # req[r] /\ p \in {req[r].who, req'[r].who}

OwnRows ==
  /\ \A i \in Insts :
       \/ UNCHANGED <<instRun[i], instSnap[i], instState[i]>>
       \/ By(runs'[instRun'[i]])
  /\ \A s \in Snaps : UNCHANGED snapRun[s] \/ By(runs'[snapRun'[s]])

OwnRowsOnly == [][OwnRows]_vars

(* Every request is answered, whoever holds the write lock. *)
RequestsEnd == \A r \in Reqs : req[r].op # "idle" ~> req[r].op = "idle"

(***************************************************************************)
(* The database goes through the transactions of Timeline only, whatever   *)
(* the requests, failures and crashes interleave.                          *)
(***************************************************************************)
RefinesTimeline == TimelineSpec

(***************************************************************************)
(* Tech spec 3.2: memory and sealed disk are captured at the same paused   *)
(* instant.                                                                *)
(***************************************************************************)
CrashConsistent ==
  \A s \in Snaps : snapRun[s] # None => memAt[s] = diskAt[s]
=============================================================================
