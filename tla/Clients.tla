------------------------------ MODULE Clients -------------------------------
(***************************************************************************)
(* A program that uses the Python SDK (sdk/klados/__init__.py) against the *)
(* engine's HTTP API from several threads, its clients: each makes one     *)
(* call at a time and waits for the answer or times out, while the handler *)
(* thread goes on.  A POST commits its transaction of Timeline in one step *)
(* (Engine has the steps before it); timeline is two SELECTs of two        *)
(* tables, one after the other.                                            *)
(***************************************************************************)
EXTENDS Timeline, FiniteSets

CONSTANTS Clients,  \* threads of the program
          Threads,  \* handler threads of the server
          MaxKids,  \* most children of one fork
          Faults    \* may requests fail, and calls time out?

ASSUME ClientsAssumption ==
  /\ None \notin Clients \cup Threads
  /\ MaxKids \in Nat
  /\ Faults \in BOOLEAN

VARIABLES
  job,     \* the request a thread serves, in the end its answer
  wait,    \* the thread whose answer a client waits for
  box,     \* the program's Sandbox objects
  node,    \* its Snapshot objects
  closed,  \* sandboxes it has destroyed, or whose with block it has left
  raised,  \* history: some call raised in the program
  hidden   \* history: sandboxes whose failed destroy __exit__ swallowed

sdk == <<wait, box, node, closed>>
history == <<raised, hidden>>
vars == <<tables, job, sdk, history>>

Calls == {"create", "snapshot", "fork", "destroy", "timeline"}
Steps == {"none", "start", "commit", "second", "ok", "error"}

Job == [op : Steps,                                      \* next step
        call : Calls \cup {"none"},
        rid : Runs \cup {None}, iid : Insts \cup {None},
        sid : Snaps \cup {None}, par : Snaps \cup {None},
        kids : SUBSET Insts,                             \* children of a fork
        snaps : SUBSET Snaps,                            \* timeline: snapshots ...
        insts : SUBSET (Insts \X (Snaps \cup {None})),   \* ... and instances
        at : Nat,                                        \* time of the first SELECT
        own : SUBSET (Insts \cup Snaps)]                 \* what the program knew of the run

NoJob == [op |-> "none", call |-> "none", rid |-> None, iid |-> None, sid |-> None,
          par |-> None, kids |-> {}, snaps |-> {}, insts |-> {}, at |-> 0, own |-> {}]

TypeOK ==
  /\ TablesOK
  /\ job \in [Threads -> Job]
  /\ wait \in [Clients -> Threads \cup {None}]
  /\ box \subseteq [iid : Insts, rid : Runs]
  /\ node \subseteq [sid : Snaps, rid : Runs]
  /\ closed \subseteq Insts
  /\ raised \in BOOLEAN /\ hidden \subseteq Insts

Init ==
  /\ NoTables
  /\ job = [h \in Threads |-> NoJob]
  /\ wait = [c \in Clients |-> None]
  /\ box = {} /\ node = {} /\ closed = {}
  /\ raised = FALSE /\ hidden = {}

-----------------------------------------------------------------------------
(* The SDK *)

(* _call: the request goes to a free thread of the server. *)
Call(c, h, q) ==
  /\ wait[c] = None /\ job[h] = NoJob
  /\ wait' = [wait EXCEPT ![c] = h]
  /\ job' = [job EXCEPT ![h] = q]
  /\ UNCHANGED <<tables, box, node, closed, history>>

Request(l) == [NoJob EXCEPT !.op = "start", !.call = l]

(* Sandbox.create *)
Create(c, h) == Call(c, h, Request("create"))

(* Mutant: the run is that of the module's last sandbox, not of this one. *)
TakeSnapshotAnyRun(c, h, b) ==
  \E x \in box : Call(c, h, [Request("snapshot") EXCEPT !.iid = b.iid, !.rid = x.rid])

(* Sandbox.snapshot *)
TakeSnapshot(c, h, b) == Call(c, h, [Request("snapshot") EXCEPT !.iid = b.iid, !.rid = b.rid])

(* Snapshot.fork *)
Fork(c, h, n) == Call(c, h, [Request("fork") EXCEPT !.sid = n.sid, !.rid = n.rid])

(* Sandbox.destroy, called by the program or by Sandbox.__exit__. *)
Destroy(c, h, b) == b.iid \notin closed /\ Call(c, h, [Request("destroy") EXCEPT !.iid = b.iid])

(* What the program knows of a run. *)
Knows(r) == {b.iid : b \in {x \in box : x.rid = r}}
              \cup {n.sid : n \in {x \in node : x.rid = r}}

(* Sandbox.timeline *)
GetTimeline(c, h, b) ==
  Call(c, h, [Request("timeline") EXCEPT !.rid = b.rid, !.own = Knows(b.rid)])

(* Mutant: a child whose branch is an error is dropped. *)
ForkReturnsReady(q) ==
  /\ \E K \in SUBSET q.kids : box' = box \cup [iid : K, rid : {q.rid}]
  /\ UNCHANGED <<node, closed>>

(* The objects made of an answer carry the run of the object called. *)
ForkReturns(q) ==
  /\ box' = box \cup [iid : q.kids, rid : {q.rid}]
  /\ UNCHANGED <<node, closed>>

Returns(q) ==
  \/ /\ q.call = "create"
     /\ box' = box \cup {[iid |-> q.iid, rid |-> q.rid]}
     /\ UNCHANGED <<node, closed>>
  \/ /\ q.call = "snapshot"
     /\ node' = node \cup {[sid |-> q.sid, rid |-> q.rid]}
     /\ UNCHANGED <<box, closed>>
  \/ q.call = "fork" /\ ForkReturns(q)
  \/ /\ q.call = "destroy"
     /\ closed' = closed \cup {q.iid}
     /\ UNCHANGED <<box, node>>
  \/ q.call = "timeline" /\ UNCHANGED <<box, node, closed>>

(* The answer arrives; the thread is free. *)
Receive(c) ==
  LET h == wait[c] IN
  /\ h # None /\ job[h].op = "ok"
  /\ Returns(job[h])
  /\ wait' = [wait EXCEPT ![c] = None]
  /\ job' = [job EXCEPT ![h] = NoJob]
  /\ UNCHANGED <<tables, history>>

(* An exception ends the call.  One that leaves a with block, whether or   *)
(* not __exit__ swallows it, closes the sandbox.                           *)
Raise(c, L) ==
  /\ wait' = [wait EXCEPT ![c] = None]
  /\ closed' = closed \cup L
  /\ UNCHANGED <<tables, box, node>>

Leaving(q) == {{}} \cup IF q.call = "destroy" THEN {{q.iid}} ELSE {}

(* HTTPError becomes KladosError, which __exit__ swallows. *)
ReceiveError(c) ==
  LET h == wait[c] IN
  /\ h # None /\ job[h].op = "error"
  /\ \E L \in Leaving(job[h]) :
       Raise(c, L) /\ hidden' = hidden \cup L /\ raised' = (raised \/ L = {})
  /\ job' = [job EXCEPT ![h] = NoJob]

(* A timeout of the read is no KladosError, and reaches the program.  The  *)
(* server does not notice.                                                 *)
TimeOut(c) ==
  /\ Faults /\ wait[c] # None
  /\ \E L \in Leaving(job[wait[c]]) : Raise(c, L)
  /\ raised' = TRUE
  /\ UNCHANGED <<job, hidden>>

(* An answer nobody waits for. *)
Discard(h) ==
  /\ job[h].op \in {"ok", "error"} /\ \A c \in Clients : wait[c] # h
  /\ job' = [job EXCEPT ![h] = NoJob]
  /\ UNCHANGED <<tables, sdk, history>>

-----------------------------------------------------------------------------
(* The server *)

At(h, l, k) == job[h].op = l /\ job[h].call = k
Answer(h, q) == job' = [job EXCEPT ![h] = q] /\ UNCHANGED sdk

(* create_run commits its rows; then the VM may fail to boot. *)
ServeCreate(h, p, r, i) ==
  /\ At(h, "start", "create")
  /\ InsertRun(r, i, p)
  /\ \/ Answer(h, [job[h] EXCEPT !.op = "ok", !.iid = i, !.rid = r])
     \/ Faults /\ Answer(h, [job[h] EXCEPT !.op = "error"])
  /\ UNCHANGED history

(* snapshot_instance reads the parent ... *)
ReadParent(h) ==
  /\ At(h, "start", "snapshot") /\ instState[job[h].iid] = "RUNNING"
  /\ Answer(h, [job[h] EXCEPT !.op = "commit", !.par = instSnap[job[h].iid]])
  /\ UNCHANGED <<tables, history>>

(* ... and commits the row when the image is stored. *)
ServeSnapshot(h, s) ==
  /\ At(h, "commit", "snapshot")
  /\ InsertSnapshot(s, job[h].iid, job[h].par)
  /\ Answer(h, [job[h] EXCEPT !.op = "ok", !.sid = s, !.par = None])
  /\ UNCHANGED history

(* fork_snapshot commits the rows of the n children it was asked for. *)
ServeFork(h, K) ==
  /\ At(h, "start", "fork") /\ Cardinality(K) <= MaxKids
  /\ InsertForks(K, job[h].sid)
  /\ Answer(h, [job[h] EXCEPT !.op = "ok", !.kids = K])
  /\ UNCHANGED history

ServeDestroy(h) ==
  /\ At(h, "start", "destroy")
  /\ MarkDestroyed(job[h].iid)
  /\ Answer(h, [job[h] EXCEPT !.op = "ok"])
  /\ UNCHANGED history

(* A POST fails before its commit: so does a snapshot of a destroyed       *)
(* instance, which is not in LIVE.                                         *)
ServeError(h) ==
  /\ job[h].op \in {"start", "commit"} /\ job[h].call \in {"create", "snapshot", "fork", "destroy"}
  /\ Faults \/ (job[h].call = "snapshot" /\ instState[job[h].iid] # "RUNNING")
  /\ Answer(h, [job[h] EXCEPT !.op = "error"])
  /\ UNCHANGED <<tables, history>>

(* Mutant: only the newest snapshot is selected. *)
SelectSnapsNewest(h) ==
  /\ At(h, "start", "timeline")
  /\ Answer(h, [job[h] EXCEPT !.op = "second", !.at = now,
                              !.snaps = {s \in Snaps : snapRun[s] = job[h].rid /\ snapTime[s] = now}])
  /\ UNCHANGED <<tables, history>>

(* timeline: the snapshots of the run, ... *)
SelectSnaps(h) ==
  /\ At(h, "start", "timeline")
  /\ Answer(h, [job[h] EXCEPT !.op = "second", !.at = now,
                              !.snaps = {s \in Snaps : snapRun[s] = job[h].rid}])
  /\ UNCHANGED <<tables, history>>

(* Mutant: instances that point at no snapshot are left out. *)
SelectInstsForked(h) ==
  LET I == {i \in Insts : instRun[i] = job[h].rid /\ instSnap[i] # None} IN
  /\ At(h, "second", "timeline")
  /\ Answer(h, [job[h] EXCEPT !.op = "ok", !.insts = {<<i, instSnap[i]>> : i \in I}])
  /\ UNCHANGED <<tables, history>>

(* ... then its instances, in another statement. *)
SelectInsts(h) ==
  LET I == {i \in Insts : instRun[i] = job[h].rid} IN
  /\ At(h, "second", "timeline")
  /\ Answer(h, [job[h] EXCEPT !.op = "ok", !.insts = {<<i, instSnap[i]>> : i \in I}])
  /\ UNCHANGED <<tables, history>>

-----------------------------------------------------------------------------
Program(c) ==
  \/ \E h \in Threads :
       \/ Create(c, h)
       \/ \E b \in box :
            TakeSnapshot(c, h, b) \/ GetTimeline(c, h, b) \/ Destroy(c, h, b)
       \/ \E n \in node : Fork(c, h, n)
  \/ Receive(c) \/ ReceiveError(c) \/ TimeOut(c)

Server(h) ==
  \/ \E p \in Projects, r \in Runs, i \in Insts : ServeCreate(h, p, r, i)
  \/ ReadParent(h) \/ (\E s \in Snaps : ServeSnapshot(h, s))
  \/ (\E K \in SUBSET Insts : ServeFork(h, K)) \/ ServeDestroy(h) \/ ServeError(h) \/ Discard(h)
  \/ SelectSnaps(h) \/ SelectInsts(h)

Next == (\E c \in Clients : Program(c)) \/ (\E h \in Threads : Server(h))

Spec == Init /\ [][Next]_vars

-----------------------------------------------------------------------------
(* Properties. *)

(***************************************************************************)
(* An object of the SDK names a committed row of the run it says it is in, *)
(* although the server does not answer a fork or a snapshot with the run   *)
(* and the object takes it from the one it was called on.                  *)
(***************************************************************************)
HandlesName ==
  /\ \A b \in box : instRun[b.iid] = b.rid
  /\ \A n \in node : snapRun[n.sid] = n.rid

(***************************************************************************)
(* A timeline lists every sandbox and snapshot of the run that the program *)
(* knew when it asked.                                                     *)
(***************************************************************************)
ReadYourWrites ==
  \A h \in Threads : At(h, "ok", "timeline") =>
    job[h].own \subseteq job[h].snaps \cup {x[1] : x \in job[h].insts}

(***************************************************************************)
(* A timeline can be drawn (klad log walks it from the root): it lists the *)
(* parent of each snapshot it lists.  The two SELECTs are two snapshots of *)
(* the database, so an instance may hang from a snapshot that is not       *)
(* listed, but only from one committed after the first SELECT.             *)
(***************************************************************************)
TimelineIsClosed ==
  \A h \in Threads : At(h, "ok", "timeline") =>
    /\ \A s \in job[h].snaps : snapParent[s] \in job[h].snaps \cup {None}
    /\ \A x \in job[h].insts :
         x[2] \in job[h].snaps \cup {None} \/ snapTime[x[2]] > job[h].at

(***************************************************************************)
(* A program that saw no exception leaves nothing behind it does not know  *)
(* of: the instances that run are its open sandboxes and those whose       *)
(* destroy failed in __exit__.                                             *)
(***************************************************************************)
Open == {b.iid : b \in box} \ closed
Running == {i \in Insts : instState[i] = "RUNNING"}

QuietMeansClean ==
  ~raised /\ (\A c \in Clients : wait[c] = None) =>
    /\ Open \subseteq Running /\ Running \subseteq Open \cup hidden
=============================================================================
