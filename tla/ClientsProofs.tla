---------------------------- MODULE ClientsProofs ---------------------------
(***************************************************************************)
(* Proofs about Clients, for every number of program threads, handler      *)
(* threads, runs, instances and snapshots: the objects of the SDK name     *)
(* rows of their run, a timeline lists what the program knew and can be    *)
(* drawn, and a program that saw no exception leaves nothing behind.       *)
(***************************************************************************)
EXTENDS Clients, TimelineProofs

-----------------------------------------------------------------------------
(***************************************************************************)
(* What a request under way and its answer rely on: the rows they name     *)
(* were committed and stay in the run the program's object says they are   *)
(* in.                                                                     *)
(***************************************************************************)
InRun(i, r) == i \in Insts /\ r \in Runs /\ instRun[i] = r
SnapIn(s, r) == s \in Snaps /\ r \in Runs /\ snapRun[s] = r

JobOK(h) ==
  /\ At(h, "ok", "create") => InRun(job[h].iid, job[h].rid)
  /\ job[h].call = "snapshot" => InRun(job[h].iid, job[h].rid)
  /\ At(h, "commit", "snapshot") =>
       job[h].par = None \/ SnapIn(job[h].par, job[h].rid)
  /\ At(h, "ok", "snapshot") => SnapIn(job[h].sid, job[h].rid)
  /\ job[h].call = "fork" => SnapIn(job[h].sid, job[h].rid)
  /\ At(h, "ok", "fork") => \A i \in job[h].kids : InRun(i, job[h].rid)
  /\ job[h].call = "destroy" => job[h].iid \in Insts /\ instRun[job[h].iid] # None
  /\ At(h, "ok", "destroy") => instState[job[h].iid] = "DESTROYED"

(***************************************************************************)
(* What a timeline holds after each of its two SELECTs.  Between them a    *)
(* snapshot of the run may be committed; it is the only kind of snapshot   *)
(* an instance can hang from that is not listed.                           *)
(***************************************************************************)
Listed(h) ==
  \A s \in job[h].snaps :
    /\ s \in Snaps /\ snapRun[s] # None
    /\ snapParent[s] \in job[h].snaps \cup {None}

ListOK(h) ==
  /\ job[h].call = "timeline" => job[h].rid \in Runs
  /\ At(h, "start", "timeline") =>
       \A x \in job[h].own : InRun(x, job[h].rid) \/ SnapIn(x, job[h].rid)
  /\ At(h, "second", "timeline") =>
       /\ Listed(h)
       /\ \A x \in job[h].own : InRun(x, job[h].rid) \/ x \in job[h].snaps
       /\ job[h].at <= now
       /\ \A s \in Snaps :
            snapRun[s] = job[h].rid => s \in job[h].snaps \/ snapTime[s] > job[h].at
  /\ At(h, "ok", "timeline") =>
       /\ Listed(h)
       /\ job[h].own \subseteq job[h].snaps \cup {x[1] : x \in job[h].insts}
       /\ \A x \in job[h].insts :
            \/ x[2] \in job[h].snaps \cup {None}
            \/ snapRun[x[2]] # None /\ snapTime[x[2]] > job[h].at

ClientsInv ==
  /\ TypeOK
  /\ TimelineIsDAG
  /\ \A h \in Threads : JobOK(h) /\ ListOK(h)
  /\ HandlesName
  /\ \A i \in closed : instRun[i] # None

(* Every step of the program and of the server commits a transaction of    *)
(* Timeline, or leaves the database alone.                                 *)
LEMMA StepIsTransaction ==
  ASSUME ClientsInv, [Next]_vars PROVE [TimelineNext]_tables
<1>0. job \in [Threads -> Job]
  BY DEF ClientsInv, TypeOK
<1>1. ASSUME NEW c \in Clients, Program(c) PROVE UNCHANGED tables
  BY <1>1 DEF Program, Create, TakeSnapshot, GetTimeline, Destroy, Fork, Call, Receive,
              ReceiveError, TimeOut, Raise
<1>2. ASSUME NEW h \in Threads, Server(h) PROVE [TimelineNext]_tables
  <2>0. JobOK(h) /\ job[h] \in Job
    BY <1>0 DEF ClientsInv
  <2>1. ASSUME NEW p \in Projects, NEW r \in Runs, NEW i \in Insts, ServeCreate(h, p, r, i)
        PROVE  TimelineNext
    BY <2>1 DEF ServeCreate, TimelineNext
  <2>2. ASSUME NEW s \in Snaps, ServeSnapshot(h, s) PROVE TimelineNext
    <3>1. /\ job[h].iid \in Insts /\ job[h].par \in Snaps \cup {None}
          /\ Ancestor(job[h].par, job[h].iid)
      BY <2>0, <2>2 DEF ServeSnapshot, At, JobOK, InRun, SnapIn, Ancestor, Job
    <3> QED BY <2>2, <3>1 DEF ServeSnapshot, TimelineNext
  <2>3. ASSUME NEW K \in SUBSET Insts, ServeFork(h, K) PROVE TimelineNext
    <3>1. job[h].sid \in Snaps
      BY <2>0, <2>3 DEF ServeFork, At, JobOK, SnapIn
    <3> QED BY <2>3, <3>1 DEF ServeFork, TimelineNext
  <2>4. CASE ServeDestroy(h)
    <3>1. job[h].iid \in Insts
      BY <2>0, <2>4 DEF ServeDestroy, At, JobOK
    <3> QED BY <2>4, <3>1 DEF ServeDestroy, TimelineNext
  <2>5. CASE ReadParent(h) \/ ServeError(h) \/ Discard(h) \/ SelectSnaps(h) \/ SelectInsts(h)
    BY <2>5 DEF ReadParent, ServeError, Discard, SelectSnaps, SelectInsts
  <2> QED BY <1>2, <2>1, <2>2, <2>3, <2>4, <2>5 DEF Server
<1> QED BY <1>1, <1>2 DEF Next, vars

(* What a step does to the database. *)
LEMMA TablesKept ==
  ASSUME ClientsInv, [Next]_vars
  PROVE  TablesOK' /\ TimelineIsDAG' /\ Immutable /\ Stamped
  BY StepIsTransaction, TablesStep, DAGStep, ImmutableStep, StampStep
     DEF ClientsInv, TypeOK

(* Rows that are there stay in their run. *)
LEMMA RowsKept ==
  ASSUME TypeOK, Immutable
  PROVE  /\ \A i \in Insts, r \in Runs : instRun[i] = r => instRun'[i] = r
         /\ \A s \in Snaps, r \in Runs : snapRun[s] = r => snapRun'[s] = r
  BY TimelineAssumption DEF Immutable

(* A request that did not move still has what it relies on. *)
LEMMA JobFrame ==
  ASSUME ClientsInv, TablesOK', Immutable, Stamped, NEW x \in Threads, job'[x] = job[x]
  PROVE  JobOK(x)' /\ ListOK(x)'
<1>0. TypeOK /\ JobOK(x) /\ ListOK(x) /\ job[x] \in Job /\ None \notin Runs
  BY TimelineAssumption DEF ClientsInv, TypeOK
<1>1. /\ \A i \in Insts, r \in Runs : instRun[i] = r => instRun'[i] = r
      /\ \A s \in Snaps, r \in Runs : snapRun[s] = r => snapRun'[s] = r
  BY <1>0, RowsKept
<1>2. \A i, r : InRun(i, r) => InRun(i, r)'
  BY <1>1 DEF InRun
<1>3. \A s, r : SnapIn(s, r) => SnapIn(s, r)'
  BY <1>1 DEF SnapIn
<1>4. JobOK(x)'
  BY <1>0, <1>2, <1>3 DEF JobOK, At, Immutable, InRun, SnapIn
<1>5. Listed(x) => Listed(x)'
  BY DEF Listed, Immutable
<1>6. ASSUME At(x, "second", "timeline")
      PROVE  /\ job[x].at <= now'
             /\ \A s \in Snaps :
                  snapRun'[s] = job[x].rid => s \in job[x].snaps \/ snapTime'[s] > job[x].at
  <2>1. job[x].at \in Nat /\ now \in Nat /\ job[x].at <= now /\ job[x].rid \in Runs
    BY <1>0, <1>6 DEF ListOK, At, Job, TypeOK, TablesOK
  <2>2. now' \in Nat /\ now <= now'
    BY DEF Stamped, TablesOK
  <2>3. ASSUME NEW s \in Snaps, snapRun'[s] = job[x].rid
        PROVE  s \in job[x].snaps \/ snapTime'[s] > job[x].at
    <3>1. CASE snapRun[s] = None
      <4>1. snapTime'[s] > now /\ snapTime'[s] \in Nat
        BY <1>0, <2>1, <2>3, <3>1 DEF Stamped, TablesOK
      <4> QED BY <2>1, <4>1
    <3>2. CASE snapRun[s] # None
      BY <1>0, <1>6, <2>3, <3>2 DEF Immutable, ListOK
    <3> QED BY <3>1, <3>2
  <2> QED BY <2>1, <2>2, <2>3
<1>7. ASSUME At(x, "ok", "timeline"), NEW y \in job[x].insts
      PROVE  \/ y[2] \in job[x].snaps \cup {None}
             \/ snapRun'[y[2]] # None /\ snapTime'[y[2]] > job[x].at
  <2>1. y[2] \in Snaps \cup {None}
    BY <1>0 DEF Job
  <2> QED BY <1>0, <1>7, <2>1 DEF ListOK, Immutable
<1>8. ListOK(x)'
  <2>1. job'[x].call = "timeline" => job'[x].rid \in Runs
    BY <1>0 DEF ListOK
  <2>2. At(x, "start", "timeline")' =>
          \A y \in job'[x].own : InRun(y, job[x].rid)' \/ SnapIn(y, job[x].rid)'
    BY <1>0, <1>2, <1>3 DEF ListOK, At, InRun, SnapIn
  <2>3. At(x, "second", "timeline")' =>
          /\ Listed(x)'
          /\ \A y \in job[x].own : InRun(y, job[x].rid)' \/ y \in job[x].snaps
    BY <1>0, <1>2, <1>5 DEF ListOK, At, InRun
  <2>4. At(x, "ok", "timeline")' =>
          /\ Listed(x)'
          /\ job[x].own \subseteq job[x].snaps \cup {y[1] : y \in job[x].insts}
    BY <1>0, <1>5 DEF ListOK, At
  <2> QED BY <1>6, <1>7, <2>1, <2>2, <2>3, <2>4 DEF ListOK, At, InRun, SnapIn
<1> QED BY <1>4, <1>8

(* A step that gives one thread another request or answer. *)
LEMMA OneJob ==
  ASSUME ClientsInv, TablesOK', Immutable, Stamped, NEW h \in Threads, NEW q \in Job,
         job' = [job EXCEPT ![h] = q], JobOK(h)', ListOK(h)'
  PROVE  job' \in [Threads -> Job] /\ \A x \in Threads : JobOK(x)' /\ ListOK(x)'
<1>0. job \in [Threads -> Job]
  BY DEF ClientsInv, TypeOK
<1>1. \A x \in Threads \ {h} : job'[x] = job[x]
  BY <1>0
<1> QED BY <1>0, <1>1, JobFrame

LEMMA NoJobOK ==
  /\ NoJob \in Job
  /\ \A h \in Threads : job'[h] = NoJob => JobOK(h)' /\ ListOK(h)'
<1>1. NoJob \in Job
  BY DEF NoJob, Job, Steps
<1> QED BY <1>1 DEF NoJob, JobOK, ListOK, At

LEMMA FreeJob ==
  ASSUME ClientsInv, TablesOK', Immutable, Stamped, NEW h \in Threads,
         job' = [job EXCEPT ![h] = NoJob]
  PROVE  job' \in [Threads -> Job] /\ \A x \in Threads : JobOK(x)' /\ ListOK(x)'
<1>1. job'[h] = NoJob
  BY DEF ClientsInv, TypeOK
<1> QED BY <1>1, NoJobOK, OneJob

Jobs == job \in [Threads -> Job] /\ \A x \in Threads : JobOK(x) /\ ListOK(x)

LEMMA CallJobs ==
  ASSUME ClientsInv, TablesOK', Immutable, Stamped, NEW c \in Clients, NEW h \in Threads,
         \/ Create(c, h)
         \/ \E b \in box : TakeSnapshot(c, h, b) \/ GetTimeline(c, h, b) \/ Destroy(c, h, b)
         \/ \E n \in node : Fork(c, h, n)
  PROVE  Jobs'
<1>0. /\ job \in [Threads -> Job] /\ TablesOK /\ HandlesName /\ None \notin Runs
      /\ \A b \in box : b.iid \in Insts /\ b.rid \in Runs
      /\ \A n \in node : n.sid \in Snaps /\ n.rid \in Runs
  BY TimelineAssumption DEF ClientsInv, TypeOK
<1>a. ASSUME NEW q \in Job, Call(c, h, q), JobOK(h)', ListOK(h)' PROVE Jobs'
  BY <1>a, OneJob DEF Call, Jobs
<1>b. ASSUME NEW q, Call(c, h, q)
      PROVE  job'[h] = q /\ UNCHANGED <<instRun, snapRun>>
  BY <1>0, <1>b DEF Call, tables
<1>1. CASE Create(c, h)
  <2> DEFINE q == Request("create")
  <2>1. q \in Job
    BY DEF Request, NoJob, Job, Steps, Calls
  <2>2. job'[h].op = "start" /\ job'[h].call = "create"
    BY <1>0, <1>1 DEF Create, Call, Request, NoJob
  <2>3. JobOK(h)' /\ ListOK(h)'
    BY <2>2 DEF JobOK, ListOK, At
  <2> QED BY <1>1, <1>a, <2>1, <2>3 DEF Create
<1>2. ASSUME NEW b \in box, TakeSnapshot(c, h, b) PROVE Jobs'
  <2> DEFINE q == [Request("snapshot") EXCEPT !.iid = b.iid, !.rid = b.rid]
  <2>1. q \in Job
    BY <1>0 DEF Request, NoJob, Job, Steps, Calls
  <2>2. /\ job'[h].op = "start" /\ job'[h].call = "snapshot"
        /\ job'[h].iid = b.iid /\ job'[h].rid = b.rid
    BY <1>0, <1>2 DEF TakeSnapshot, Call, Request, NoJob
  <2>3. JobOK(h)' /\ ListOK(h)'
    BY <1>0, <1>2, <1>b, <2>2 DEF TakeSnapshot, HandlesName, JobOK, ListOK, At, InRun
  <2> QED BY <1>2, <1>a, <2>1, <2>3 DEF TakeSnapshot
<1>3. ASSUME NEW b \in box, Destroy(c, h, b) PROVE Jobs'
  <2> DEFINE q == [Request("destroy") EXCEPT !.iid = b.iid]
  <2>1. q \in Job
    BY <1>0 DEF Request, NoJob, Job, Steps, Calls
  <2>2. job'[h].op = "start" /\ job'[h].call = "destroy" /\ job'[h].iid = b.iid
    BY <1>0, <1>3 DEF Destroy, Call, Request, NoJob
  <2>3. JobOK(h)' /\ ListOK(h)'
    BY <1>0, <1>3, <1>b, <2>2 DEF Destroy, HandlesName, JobOK, ListOK, At
  <2> QED BY <1>3, <1>a, <2>1, <2>3 DEF Destroy
<1>4. ASSUME NEW n \in node, Fork(c, h, n) PROVE Jobs'
  <2> DEFINE q == [Request("fork") EXCEPT !.sid = n.sid, !.rid = n.rid]
  <2>1. q \in Job
    BY <1>0 DEF Request, NoJob, Job, Steps, Calls
  <2>2. /\ job'[h].op = "start" /\ job'[h].call = "fork"
        /\ job'[h].sid = n.sid /\ job'[h].rid = n.rid
    BY <1>0, <1>4 DEF Fork, Call, Request, NoJob
  <2>3. JobOK(h)' /\ ListOK(h)'
    BY <1>0, <1>4, <1>b, <2>2 DEF Fork, HandlesName, JobOK, ListOK, At, SnapIn
  <2> QED BY <1>4, <1>a, <2>1, <2>3 DEF Fork
<1>5. ASSUME NEW b \in box, GetTimeline(c, h, b) PROVE Jobs'
  <2> DEFINE q == [Request("timeline") EXCEPT !.rid = b.rid, !.own = Knows(b.rid)]
  <2>1. \A x \in Knows(b.rid) : InRun(x, b.rid) \/ SnapIn(x, b.rid)
    BY <1>0 DEF Knows, HandlesName, InRun, SnapIn
  <2>2. Knows(b.rid) \in SUBSET (Insts \cup Snaps)
    BY <2>1 DEF InRun, SnapIn
  <2>3. q \in Job
    BY <1>0, <2>2 DEF Request, NoJob, Job, Steps, Calls
  <2>4. /\ job'[h].op = "start" /\ job'[h].call = "timeline"
        /\ job'[h].rid = b.rid /\ job'[h].own = Knows(b.rid)
    BY <1>0, <1>5 DEF GetTimeline, Call, Request, NoJob
  <2>5. JobOK(h)'
    BY <2>4 DEF JobOK, At
  <2>6. ListOK(h)'
    BY <1>0, <1>5, <1>b, <2>1, <2>4 DEF GetTimeline, ListOK, At, InRun, SnapIn
  <2> QED BY <1>5, <1>a, <2>3, <2>5, <2>6 DEF GetTimeline
<1> QED BY <1>1, <1>2, <1>3, <1>4, <1>5

LEMMA ServerJobs ==
  ASSUME ClientsInv, TablesOK', Immutable, Stamped, NEW h \in Threads, Server(h)
  PROVE  Jobs'
<1>0. /\ job \in [Threads -> Job] /\ job[h] \in Job /\ TablesOK /\ None \notin Runs
      /\ JobOK(h) /\ ListOK(h)
  BY TimelineAssumption DEF ClientsInv, TypeOK
<1>s. {"commit", "second", "ok", "error"} \subseteq Steps
  BY DEF Steps
<1>a. ASSUME NEW q \in Job, Answer(h, q), JobOK(h)', ListOK(h)' PROVE Jobs'
  BY <1>a, OneJob DEF Answer, Jobs
<1>b. ASSUME NEW q, Answer(h, q) PROVE job'[h] = q
  BY <1>0, <1>b DEF Answer
<1>c. ASSUME Answer(h, [job[h] EXCEPT !.op = "error"]), job[h].call # "timeline" PROVE Jobs'
  <2>1. [job[h] EXCEPT !.op = "error"] \in Job
    BY <1>0, <1>s DEF Job
  <2>2. /\ job'[h].op = "error" /\ job'[h].call = job[h].call /\ job'[h].iid = job[h].iid
        /\ job'[h].rid = job[h].rid /\ job'[h].sid = job[h].sid
    BY <1>0, <1>b, <1>c DEF Job
  <2>3. JobOK(h)'
    <3>1. job[h].call = "snapshot" => InRun(job[h].iid, job[h].rid)'
      BY <1>0, <2>2, RowsKept DEF JobOK, InRun, ClientsInv
    <3>2. job[h].call = "fork" => SnapIn(job[h].sid, job[h].rid)'
      BY <1>0, <2>2, RowsKept DEF JobOK, SnapIn, ClientsInv
    <3>3. job[h].call = "destroy" => job[h].iid \in Insts /\ instRun'[job[h].iid] # None
      BY <1>0 DEF JobOK, Immutable
    <3> QED BY <2>2, <3>1, <3>2, <3>3 DEF JobOK, At, InRun, SnapIn
  <2>4. ListOK(h)'
    BY <1>c, <2>2 DEF ListOK, At
  <2> QED BY <1>a, <1>c, <2>1, <2>3, <2>4
<1>1. ASSUME NEW p \in Projects, NEW r \in Runs, NEW i \in Insts, ServeCreate(h, p, r, i)
      PROVE  Jobs'
  <2>1. CASE Answer(h, [job[h] EXCEPT !.op = "ok", !.iid = i, !.rid = r])
    <3>1. [job[h] EXCEPT !.op = "ok", !.iid = i, !.rid = r] \in Job
      BY <1>0, <1>s DEF Job
    <3>2. /\ job'[h].op = "ok" /\ job'[h].call = "create" /\ job'[h].iid = i
          /\ job'[h].rid = r
      BY <1>0, <1>1, <1>b, <2>1 DEF Job, ServeCreate, At
    <3>3. instRun'[i] = r
      BY <1>0, <1>1 DEF ServeCreate, InsertRun, TablesOK
    <3>4. JobOK(h)' /\ ListOK(h)'
      BY <3>2, <3>3 DEF JobOK, ListOK, At, InRun
    <3> QED BY <1>a, <2>1, <3>1, <3>4
  <2> QED BY <1>1, <1>c, <2>1 DEF ServeCreate, At
<1>2. CASE ReadParent(h)
  <2>1. InRun(job[h].iid, job[h].rid) /\ InstOK(job[h].iid)
    BY <1>0, <1>2 DEF ReadParent, At, JobOK, InRun, ClientsInv, TimelineIsDAG
  <2>2. instSnap[job[h].iid] = None \/ SnapIn(instSnap[job[h].iid], job[h].rid)
    BY <1>0, <2>1 DEF InstOK, InRun, SnapIn, TablesOK
  <2>3. [job[h] EXCEPT !.op = "commit", !.par = instSnap[job[h].iid]] \in Job
    BY <1>0, <1>s, <2>1 DEF Job, TablesOK, InRun
  <2>4. /\ job'[h].op = "commit" /\ job'[h].call = "snapshot" /\ job'[h].iid = job[h].iid
        /\ job'[h].rid = job[h].rid /\ job'[h].par = instSnap[job[h].iid]
    BY <1>0, <1>2, <1>b DEF Job, ReadParent, At
  <2>5. UNCHANGED <<instRun, instSnap, snapRun>>
    BY <1>2 DEF ReadParent, tables
  <2>6. JobOK(h)' /\ ListOK(h)'
    BY <2>1, <2>2, <2>4, <2>5 DEF JobOK, ListOK, At, InRun, SnapIn
  <2> QED BY <1>2, <1>a, <2>3, <2>6 DEF ReadParent
<1>3. ASSUME NEW s \in Snaps, ServeSnapshot(h, s) PROVE Jobs'
  <2>1. InRun(job[h].iid, job[h].rid)
    BY <1>0, <1>3 DEF ServeSnapshot, At, JobOK
  <2>2. [job[h] EXCEPT !.op = "ok", !.sid = s, !.par = None] \in Job
    BY <1>0, <1>s DEF Job
  <2>3. /\ job'[h].op = "ok" /\ job'[h].call = "snapshot" /\ job'[h].iid = job[h].iid
        /\ job'[h].rid = job[h].rid /\ job'[h].sid = s
    BY <1>0, <1>3, <1>b DEF Job, ServeSnapshot, At
  <2>4. instRun' = instRun /\ snapRun'[s] = job[h].rid
    BY <1>0, <1>3, <2>1 DEF ServeSnapshot, InsertSnapshot, TablesOK, InRun
  <2>5. JobOK(h)' /\ ListOK(h)'
    BY <2>1, <2>3, <2>4 DEF JobOK, ListOK, At, InRun, SnapIn
  <2> QED BY <1>3, <1>a, <2>2, <2>5 DEF ServeSnapshot
<1>4. ASSUME NEW K \in SUBSET Insts, ServeFork(h, K) PROVE Jobs'
  <2>1. SnapIn(job[h].sid, job[h].rid)
    BY <1>0, <1>4 DEF ServeFork, At, JobOK
  <2>2. [job[h] EXCEPT !.op = "ok", !.kids = K] \in Job
    BY <1>0, <1>s DEF Job
  <2>3. /\ job'[h].op = "ok" /\ job'[h].call = "fork" /\ job'[h].sid = job[h].sid
        /\ job'[h].rid = job[h].rid /\ job'[h].kids = K
    BY <1>0, <1>4, <1>b DEF Job, ServeFork, At
  <2>4. snapRun' = snapRun /\ \A i \in K : instRun'[i] = job[h].rid
    BY <1>4, <2>1 DEF ServeFork, InsertForks, SnapIn
  <2>5. JobOK(h)' /\ ListOK(h)'
    BY <2>1, <2>3, <2>4 DEF JobOK, ListOK, At, InRun, SnapIn
  <2> QED BY <1>4, <1>a, <2>2, <2>5 DEF ServeFork
<1>5. CASE ServeDestroy(h)
  <2>1. job[h].iid \in Insts /\ instRun[job[h].iid] # None
    BY <1>0, <1>5 DEF ServeDestroy, At, JobOK
  <2>2. [job[h] EXCEPT !.op = "ok"] \in Job
    BY <1>0, <1>s DEF Job
  <2>3. job'[h].op = "ok" /\ job'[h].call = "destroy" /\ job'[h].iid = job[h].iid
    BY <1>0, <1>5, <1>b DEF Job, ServeDestroy, At
  <2>4. instRun' = instRun /\ instState'[job[h].iid] = "DESTROYED"
    BY <1>0, <1>5, <2>1 DEF ServeDestroy, MarkDestroyed, TablesOK
  <2>5. JobOK(h)' /\ ListOK(h)'
    BY <2>1, <2>3, <2>4 DEF JobOK, ListOK, At
  <2> QED BY <1>5, <1>a, <2>2, <2>5 DEF ServeDestroy
<1>6. CASE ServeError(h)
  BY <1>6, <1>c DEF ServeError
<1>7. CASE Discard(h)
  BY <1>7, FreeJob DEF Discard, Jobs
<1>8. CASE SelectSnaps(h)
  <2> DEFINE S == {s \in Snaps : snapRun[s] = job[h].rid}
  <2>0. job[h].rid \in Runs /\ now \in Nat
    BY <1>0, <1>8 DEF SelectSnaps, At, ListOK, TablesOK
  <2>1. [job[h] EXCEPT !.op = "second", !.at = now, !.snaps = S] \in Job
    BY <1>0, <1>s, <2>0 DEF Job
  <2>2. /\ job'[h].op = "second" /\ job'[h].call = "timeline" /\ job'[h].at = now
        /\ job'[h].rid = job[h].rid /\ job'[h].own = job[h].own /\ job'[h].snaps = S
    BY <1>0, <1>8, <1>b DEF Job, SelectSnaps, At
  <2>3. UNCHANGED <<instRun, snapRun, snapParent, snapTime, now>>
    BY <1>8 DEF SelectSnaps, tables
  <2>4. JobOK(h)'
    BY <2>2 DEF JobOK, At
  <2>5. Listed(h)'
    <3>1. ASSUME NEW s \in S PROVE snapParent[s] \in S \cup {None}
      <4>1. SnapOK(s) /\ snapRun[s] # None /\ snapParent[s] \in Snaps \cup {None}
        BY <1>0, <2>0 DEF ClientsInv, TimelineIsDAG, TablesOK
      <4> QED BY <4>1 DEF SnapOK
    <3> QED BY <1>0, <2>0, <2>2, <2>3, <3>1 DEF Listed
  <2>6. \A x \in job[h].own : InRun(x, job[h].rid) \/ x \in S
    BY <1>0, <1>8 DEF SelectSnaps, At, ListOK, SnapIn
  <2>7. ListOK(h)'
    BY <2>0, <2>2, <2>3, <2>5, <2>6 DEF ListOK, At, InRun
  <2> QED BY <1>8, <1>a, <2>1, <2>4, <2>7 DEF SelectSnaps
<1>9. CASE SelectInsts(h)
  <2> DEFINE I == {i \in Insts : instRun[i] = job[h].rid}
             P == {<<i, instSnap[i]>> : i \in I}
  <2>0. At(h, "second", "timeline") /\ job[h].rid \in Runs
    BY <1>0, <1>9 DEF SelectInsts, At, ListOK
  <2>1. P \in SUBSET (Insts \X (Snaps \cup {None}))
    BY <1>0 DEF TablesOK
  <2>2. [job[h] EXCEPT !.op = "ok", !.insts = P] \in Job
    BY <1>0, <1>s, <2>1 DEF Job
  <2>3. /\ job'[h].op = "ok" /\ job'[h].call = "timeline" /\ job'[h].at = job[h].at
        /\ job'[h].rid = job[h].rid /\ job'[h].own = job[h].own
        /\ job'[h].snaps = job[h].snaps /\ job'[h].insts = P
    BY <1>0, <1>9, <1>b, <2>0 DEF Job, SelectInsts, At
  <2>4. UNCHANGED <<instRun, snapRun, snapParent, snapTime>>
    BY <1>9 DEF SelectInsts, tables
  <2>5. JobOK(h)'
    BY <2>3 DEF JobOK, At
  <2>6. Listed(h)'
    BY <1>0, <2>0, <2>3, <2>4 DEF ListOK, Listed
  <2>7. job[h].own \subseteq job[h].snaps \cup {x[1] : x \in P}
    <3>1. \A x \in job[h].own : x \in I \/ x \in job[h].snaps
      BY <1>0, <2>0 DEF ListOK, InRun
    <3>2. \A i \in I : <<i, instSnap[i]>> \in P /\ <<i, instSnap[i]>>[1] = i
      OBVIOUS
    <3> QED BY <3>1, <3>2
  <2>8. ASSUME NEW x \in P
        PROVE  \/ x[2] \in job[h].snaps \cup {None}
               \/ snapRun[x[2]] # None /\ snapTime[x[2]] > job[h].at
    <3>1. PICK i \in I : x = <<i, instSnap[i]>>
      OBVIOUS
    <3>2. InstOK(i) /\ instSnap[i] \in Snaps \cup {None}
      BY <1>0 DEF ClientsInv, TimelineIsDAG, TablesOK
    <3>3. CASE instSnap[i] # None
      <4>1. snapRun[instSnap[i]] = job[h].rid
        BY <3>2, <3>3 DEF InstOK
      <4> QED BY <1>0, <2>0, <3>1, <3>2, <3>3, <4>1 DEF ListOK
    <3> QED BY <3>1, <3>3
  <2>9. ListOK(h)'
    BY <2>0, <2>3, <2>4, <2>6, <2>7, <2>8 DEF ListOK, At
  <2> QED BY <1>9, <1>a, <2>2, <2>5, <2>9 DEF SelectInsts
<1> QED BY <1>1, <1>2, <1>3, <1>4, <1>5, <1>6, <1>7, <1>8, <1>9 DEF Server

-----------------------------------------------------------------------------
(* The program's objects. *)

SdkOK ==
  /\ wait \in [Clients -> Threads \cup {None}]
  /\ box \subseteq [iid : Insts, rid : Runs]
  /\ node \subseteq [sid : Snaps, rid : Runs]
  /\ closed \subseteq Insts
  /\ raised \in BOOLEAN /\ hidden \subseteq Insts

Named == HandlesName /\ \A i \in closed : instRun[i] # None

(* Rows stay, so what the objects name is still there. *)
LEMMA NamedFrame ==
  ASSUME ClientsInv, Immutable,
         \A b \in box' : b \in box \/ InRun(b.iid, b.rid)',
         \A n \in node' : n \in node \/ SnapIn(n.sid, n.rid)',
         \A i \in closed' : i \in closed \/ instRun'[i] # None
  PROVE  Named'
<1>0. /\ TypeOK /\ HandlesName /\ \A i \in closed : i \in Insts /\ instRun[i] # None
      /\ \A b \in box : b.iid \in Insts /\ b.rid \in Runs
      /\ \A n \in node : n.sid \in Snaps /\ n.rid \in Runs
  BY DEF ClientsInv, TypeOK
<1>1. \A b \in box' : instRun'[b.iid] = b.rid
  BY <1>0, RowsKept DEF HandlesName, InRun
<1>2. \A n \in node' : snapRun'[n.sid] = n.rid
  BY <1>0, RowsKept DEF HandlesName, SnapIn
<1>3. \A i \in closed' : instRun'[i] # None
  BY <1>0 DEF Immutable
<1> QED BY <1>1, <1>2, <1>3 DEF Named, HandlesName

LEMMA LeavingOK ==
  ASSUME ClientsInv, NEW h \in Threads, NEW L \in Leaving(job[h])
  PROVE  L \subseteq Insts /\ \A i \in L : instRun[i] # None
<1>1. JobOK(h)
  BY DEF ClientsInv
<1> QED BY <1>1 DEF Leaving, JobOK

LEMMA ReceiveSdk ==
  ASSUME ClientsInv, Immutable, NEW c \in Clients, Receive(c)
  PROVE  SdkOK' /\ Named'
<1> DEFINE h == wait[c]
<1>0. /\ TypeOK /\ h \in Threads /\ JobOK(h) /\ job[h] \in Job /\ job[h].op = "ok"
      /\ UNCHANGED <<instRun, snapRun, instState, raised, hidden>>
  BY DEF ClientsInv, TypeOK, Receive, tables, history
<1>1. wait' \in [Clients -> Threads \cup {None}]
  BY <1>0 DEF Receive, TypeOK
<1>2. CASE job[h].call = "create"
  <2>1. InRun(job[h].iid, job[h].rid)
    BY <1>0, <1>2 DEF JobOK, At
  <2>2. /\ box' = box \cup {[iid |-> job[h].iid, rid |-> job[h].rid]}
        /\ node' = node /\ closed' = closed
    BY <1>2 DEF Receive, Returns
  <2>3. SdkOK'
    BY <1>0, <1>1, <2>1, <2>2 DEF SdkOK, TypeOK, InRun
  <2>4. Named'
    BY <1>0, <2>1, <2>2, NamedFrame DEF InRun
  <2> QED BY <2>3, <2>4
<1>3. CASE job[h].call = "snapshot"
  <2>1. SnapIn(job[h].sid, job[h].rid)
    BY <1>0, <1>3 DEF JobOK, At
  <2>2. /\ node' = node \cup {[sid |-> job[h].sid, rid |-> job[h].rid]}
        /\ box' = box /\ closed' = closed
    BY <1>3 DEF Receive, Returns
  <2>3. SdkOK'
    BY <1>0, <1>1, <2>1, <2>2 DEF SdkOK, TypeOK, SnapIn
  <2>4. Named'
    BY <1>0, <2>1, <2>2, NamedFrame DEF SnapIn
  <2> QED BY <2>3, <2>4
<1>4. CASE job[h].call = "fork"
  <2>1. job[h].rid \in Runs /\ \A i \in job[h].kids : InRun(i, job[h].rid)
    BY <1>0, <1>4 DEF JobOK, At, SnapIn
  <2>2. /\ box' = box \cup [iid : job[h].kids, rid : {job[h].rid}]
        /\ node' = node /\ closed' = closed
    BY <1>4 DEF Receive, Returns, ForkReturns
  <2>3. SdkOK'
    BY <1>0, <1>1, <2>1, <2>2 DEF SdkOK, TypeOK, InRun
  <2>4. Named'
    BY <1>0, <2>1, <2>2, NamedFrame DEF InRun
  <2> QED BY <2>3, <2>4
<1>5. CASE job[h].call = "destroy"
  <2>1. job[h].iid \in Insts /\ instRun[job[h].iid] # None
    BY <1>0, <1>5 DEF JobOK
  <2>2. closed' = closed \cup {job[h].iid} /\ box' = box /\ node' = node
    BY <1>5 DEF Receive, Returns
  <2>3. SdkOK'
    BY <1>0, <1>1, <2>1, <2>2 DEF SdkOK, TypeOK
  <2>4. Named'
    BY <1>0, <2>1, <2>2, NamedFrame
  <2> QED BY <2>3, <2>4
<1>6. CASE job[h].call = "timeline"
  <2>1. UNCHANGED <<box, node, closed>>
    BY <1>6 DEF Receive, Returns
  <2>2. SdkOK'
    BY <1>0, <1>1, <2>1 DEF SdkOK, TypeOK
  <2>3. Named'
    BY <2>1, NamedFrame
  <2> QED BY <2>2, <2>3
<1> QED BY <1>2, <1>3, <1>4, <1>5, <1>6 DEF Receive, Returns

LEMMA SdkStep ==
  ASSUME ClientsInv, Immutable, [Next]_vars PROVE SdkOK' /\ Named'
<1>0. SdkOK /\ Named /\ TypeOK
  BY DEF ClientsInv, TypeOK, SdkOK, Named
<1>a. ASSUME UNCHANGED <<box, node, closed>> PROVE Named'
  BY <1>a, NamedFrame
<1>1. ASSUME NEW c \in Clients, Program(c) PROVE SdkOK' /\ Named'
  <2>1. ASSUME NEW h \in Threads, NEW q, Call(c, h, q) PROVE SdkOK' /\ Named'
    BY <1>0, <1>a, <2>1 DEF Call, SdkOK, history
  <2>2. CASE ReceiveError(c)
    <3> DEFINE h == wait[c]
    <3>1. h \in Threads
      BY <1>0, <2>2 DEF ReceiveError, TypeOK
    <3>2. PICK L \in Leaving(job[h]) :
            Raise(c, L) /\ hidden' = hidden \cup L /\ raised' = (raised \/ L = {})
      BY <2>2 DEF ReceiveError
    <3>3. L \subseteq Insts /\ \A i \in L : instRun[i] # None
      BY <3>1, LeavingOK
    <3>4. raised' \in BOOLEAN
      BY <3>2
    <3>5. SdkOK'
      BY <1>0, <3>2, <3>3, <3>4 DEF SdkOK, Raise
    <3>6. Named'
      BY <3>2, <3>3, NamedFrame DEF Raise, tables
    <3> QED BY <3>5, <3>6
  <2>3. CASE TimeOut(c)
    <3> DEFINE h == wait[c]
    <3>1. h \in Threads
      BY <1>0, <2>3 DEF TimeOut, TypeOK
    <3>2. PICK L \in Leaving(job[h]) : Raise(c, L)
      BY <2>3 DEF TimeOut
    <3>3. L \subseteq Insts /\ \A i \in L : instRun[i] # None
      BY <3>1, LeavingOK
    <3>4. raised' = TRUE /\ hidden' = hidden
      BY <2>3 DEF TimeOut
    <3>5. SdkOK'
      BY <1>0, <3>2, <3>3, <3>4 DEF SdkOK, Raise
    <3>6. Named'
      BY <3>2, <3>3, NamedFrame DEF Raise, tables
    <3> QED BY <3>5, <3>6
  <2> QED BY <1>1, <2>1, <2>2, <2>3, ReceiveSdk
          DEF Program, Create, TakeSnapshot, GetTimeline, Destroy, Fork
<1>2. ASSUME UNCHANGED <<sdk, history>> PROVE SdkOK' /\ Named'
  BY <1>0, <1>2, <1>a DEF sdk, history, SdkOK
<1>3. ASSUME NEW h \in Threads, Server(h) PROVE UNCHANGED <<sdk, history>>
  BY <1>3 DEF Server, ServeCreate, ReadParent, ServeSnapshot, ServeFork, ServeDestroy,
              ServeError, Discard, SelectSnaps, SelectInsts, Answer
<1>4. ASSUME UNCHANGED vars PROVE UNCHANGED <<sdk, history>>
  BY <1>4 DEF vars
<1> QED BY <1>1, <1>2, <1>3, <1>4 DEF Next

LEMMA ClientsStep == ASSUME ClientsInv, [Next]_vars PROVE ClientsInv'
<1>0. TablesOK' /\ TimelineIsDAG' /\ Immutable /\ Stamped
  BY TablesKept
<1>1. SdkOK' /\ Named'
  BY <1>0, SdkStep
<1>2. ASSUME NEW c \in Clients, Program(c) PROVE Jobs'
  <2>1. CASE Receive(c) \/ ReceiveError(c)
    <3>1. wait[c] \in Threads /\ job' = [job EXCEPT ![wait[c]] = NoJob]
      BY <2>1 DEF Receive, ReceiveError, ClientsInv, TypeOK
    <3> QED BY <1>0, <3>1, FreeJob DEF Jobs
  <2>2. CASE TimeOut(c)
    <3>1. job' = job
      BY <2>2 DEF TimeOut
    <3> QED BY <1>0, <3>1, JobFrame DEF Jobs, ClientsInv, TypeOK
  <2> QED BY <1>0, <1>2, <2>1, <2>2, CallJobs DEF Program
<1>3. ASSUME UNCHANGED vars PROVE Jobs'
  <2>1. job' = job
    BY <1>3 DEF vars
  <2> QED BY <1>0, <2>1, JobFrame DEF Jobs, ClientsInv, TypeOK
<1>4. Jobs'
  BY <1>0, <1>2, <1>3, ServerJobs DEF Next
<1> QED BY <1>0, <1>1, <1>4 DEF ClientsInv, TypeOK, SdkOK, Named, Jobs

LEMMA ClientsInit == Init => ClientsInv
<1> SUFFICES ASSUME Init PROVE ClientsInv
  OBVIOUS
<1>1. TablesOK /\ TimelineIsDAG
  BY NoTablesOK DEF Init
<1>2. NoJob \in Job
  BY NoJobOK
<1>3. TypeOK
  BY <1>1, <1>2 DEF Init, TypeOK
<1>4. \A h \in Threads : JobOK(h) /\ ListOK(h)
  BY DEF Init, NoJob, JobOK, ListOK, At
<1> QED BY <1>1, <1>3, <1>4 DEF Init, ClientsInv, HandlesName

LEMMA ClientsInvariant == Spec => []ClientsInv
<1>1. ClientsInv /\ [Next]_vars => ClientsInv'
  BY ClientsStep
<1> QED BY <1>1, ClientsInit, PTL DEF Spec

(* An object of the SDK names a committed row of the run it says it is in, *)
(* whatever calls of other threads, failures and timeouts are interleaved. *)
THEOREM HandlesNameRows == Spec => []HandlesName
<1>1. ClientsInv => HandlesName
  BY DEF ClientsInv
<1> QED BY <1>1, ClientsInvariant, PTL

(* A timeline lists what the program knew of the run when it asked. *)
THEOREM TimelineShowsWrites == Spec => []ReadYourWrites
<1>1. ClientsInv => ReadYourWrites
  BY DEF ClientsInv, ListOK, ReadYourWrites
<1> QED BY <1>1, ClientsInvariant, PTL

(* A timeline, although read in two statements, can be drawn: parents are  *)
(* listed, and an instance hangs from a snapshot that is, or from one      *)
(* committed between the two.                                              *)
THEOREM TimelineCanBeDrawn == Spec => []TimelineIsClosed
<1>1. ClientsInv => TimelineIsClosed
  BY DEF ClientsInv, ListOK, Listed, TimelineIsClosed
<1> QED BY <1>1, ClientsInvariant, PTL

-----------------------------------------------------------------------------
(* Nothing is left behind. *)

(***************************************************************************)
(* Why nothing is left behind.  As long as no call has raised, somebody    *)
(* waits for every request, so that an instance that runs is one of the    *)
(* program's sandboxes, or is on its way to it in an answer, unless the    *)
(* create that made it is about to raise; and a sandbox that does not run  *)
(* is closed, or the answer to its destroy is on its way.                  *)
(***************************************************************************)
Gives(h, i) ==
  \/ At(h, "ok", "create") /\ i = job[h].iid
  \/ At(h, "ok", "fork") /\ i \in job[h].kids

Known(i) == (\E b \in box : b.iid = i) \/ (\E h \in Threads : Gives(h, i))

Ends(h, i) == At(h, "ok", "destroy") /\ i = job[h].iid

Attended == \A h \in Threads : job[h].op # "none" => \E c \in Clients : wait[c] = h
ClosedOK == \A i \in closed : instState[i] # "RUNNING" \/ i \in hidden
RunningOK ==
  \A i \in Insts : instState[i] = "RUNNING" =>
    Known(i) \/ \E h \in Threads : At(h, "error", "create")
KnownOK ==
  \A i \in Insts : Known(i) =>
    i \in closed \/ instState[i] = "RUNNING" \/ \E h \in Threads : Ends(h, i)

QuietInv == ~raised => Attended /\ ClosedOK /\ RunningOK /\ KnownOK

(* A step of a handler: an instance starts to run only as the one it       *)
(* answers with, or in a create that fails, and stops only in a destroy.   *)
LEMMA QuietServe ==
  ASSUME ClientsInv, QuietInv, NEW h \in Threads,
         job[h].op \in {"start", "commit", "second"}, job'[h].op # "none",
         \A x \in Threads \ {h} : job'[x] = job[x], UNCHANGED <<sdk, history>>,
         \A i \in Insts : instState'[i] = "RUNNING" =>
           \/ instState[i] = "RUNNING"
           \/ instRun[i] = None /\ (Gives(h, i)' \/ At(h, "error", "create")'),
         \A i \in Insts : Gives(h, i)' => instState'[i] = "RUNNING",
         \A i \in Insts : instState[i] = "RUNNING" =>
           instState'[i] = "RUNNING" \/ Ends(h, i)'
  PROVE  QuietInv'
<1> SUFFICES ASSUME ~raised' PROVE Attended' /\ ClosedOK' /\ RunningOK' /\ KnownOK'
  BY DEF QuietInv
<1>0. /\ Attended /\ ClosedOK /\ RunningOK /\ KnownOK
      /\ UNCHANGED <<wait, box, closed, hidden>>
  BY DEF QuietInv, sdk, history
<1>1. \A x \in Threads : \A i : Gives(x, i) => Gives(x, i)' /\ x # h
  BY DEF Gives, At
<1>2. \A x \in Threads : \A i : Ends(x, i) => Ends(x, i)'
  BY DEF Ends, At
<1>3. \A i \in Insts : Known(i) => Known(i)'
  BY <1>0, <1>1 DEF Known
<1>4. ASSUME NEW i \in Insts, Known(i)', ~Known(i) PROVE Gives(h, i)'
  BY <1>0, <1>4 DEF Known, Gives, At
<1>5. Attended'
  BY <1>0 DEF Attended
<1>6. ClosedOK'
  <2>1. \A i \in closed : i \in Insts /\ instRun[i] # None
    BY DEF ClientsInv, TypeOK
  <2> QED BY <1>0, <2>1 DEF ClosedOK
<1>7. RunningOK'
  <2> SUFFICES ASSUME NEW i \in Insts, instState'[i] = "RUNNING"
               PROVE  Known(i)' \/ \E x \in Threads : At(x, "error", "create")'
    BY DEF RunningOK
  <2>1. CASE instState[i] = "RUNNING"
    <3>1. CASE Known(i)
      BY <1>3, <3>1
    <3>2. ASSUME NEW x \in Threads, At(x, "error", "create") PROVE At(x, "error", "create")'
      BY <3>2 DEF At
    <3> QED BY <1>0, <2>1, <3>1, <3>2 DEF RunningOK
  <2>2. CASE Gives(h, i)' \/ At(h, "error", "create")'
    BY <2>2 DEF Known
  <2> QED BY <2>1, <2>2
<1>8. KnownOK'
  BY <1>0, <1>2, <1>4 DEF KnownOK
<1> QED BY <1>5, <1>6, <1>7, <1>8

(* A step of the program: it makes a call, or one is over. *)
LEMMA QuietCall ==
  ASSUME ClientsInv, QuietInv, NEW c \in Clients, NEW h \in Threads, NEW q,
         Call(c, h, q), q.op = "start"
  PROVE  QuietInv'
<1> SUFFICES ASSUME ~raised' PROVE Attended' /\ ClosedOK' /\ RunningOK' /\ KnownOK'
  BY DEF QuietInv
<1>0. /\ Attended /\ ClosedOK /\ RunningOK /\ KnownOK
      /\ UNCHANGED <<instState, box, closed, hidden>>
  BY DEF QuietInv, Call, history, tables
<1>1. /\ job[h].op = "none" /\ job'[h].op = "start"
      /\ \A x \in Threads \ {h} : job'[x] = job[x]
      /\ wait[c] = None /\ wait'[c] = h
      /\ \A d \in Clients \ {c} : wait'[d] = wait[d]
  BY DEF Call, ClientsInv, TypeOK, NoJob
<1>2. \A x \in Threads : \A i : (Gives(x, i) <=> Gives(x, i)') /\ (Ends(x, i) <=> Ends(x, i)')
  BY <1>1 DEF Gives, Ends, At
<1>3. \A x \in Threads : At(x, "error", "create") => At(x, "error", "create")'
  BY <1>1 DEF At
<1>4. \A i \in Insts : Known(i) <=> Known(i)'
  BY <1>0, <1>2 DEF Known
<1>5. Attended'
  <2>1. None \notin Threads
    BY ClientsAssumption
  <2> QED BY <1>0, <1>1, <2>1 DEF Attended
<1> QED BY <1>0, <1>2, <1>3, <1>4, <1>5 DEF ClosedOK, RunningOK, KnownOK

LEMMA QuietReceive ==
  ASSUME ClientsInv, QuietInv, NEW c \in Clients, Receive(c) PROVE QuietInv'
<1> SUFFICES ASSUME ~raised' PROVE Attended' /\ ClosedOK' /\ RunningOK' /\ KnownOK'
  BY DEF QuietInv
<1> DEFINE h == wait[c]
<1>0. /\ Attended /\ ClosedOK /\ RunningOK /\ KnownOK
      /\ UNCHANGED <<instState, hidden>>
  BY DEF QuietInv, Receive, history, tables
<1>1. /\ h \in Threads /\ job[h].op = "ok" /\ job'[h].op = "none"
      /\ \A x \in Threads \ {h} : job'[x] = job[x]
      /\ \A d \in Clients \ {c} : wait'[d] = wait[d]
      /\ JobOK(h) /\ job[h] \in Job
  BY DEF Receive, ClientsInv, TypeOK, NoJob
<1>2. Attended'
  BY <1>0, <1>1 DEF Attended
<1>3. closed' = IF job[h].call = "destroy" THEN closed \cup {job[h].iid} ELSE closed
  BY DEF Receive, Returns, ForkReturns
<1>4. \A i \in Insts : (\E b \in box' : b.iid = i) <=> (\E b \in box : b.iid = i) \/ Gives(h, i)
  <2>1. CASE job[h].call = "create"
    <3> DEFINE b0 == [iid |-> job[h].iid, rid |-> job[h].rid]
    <3>1. box' = box \cup {b0} /\ b0.iid = job[h].iid
      BY <2>1 DEF Receive, Returns
    <3>2. \A i : Gives(h, i) <=> i = job[h].iid
      BY <1>1, <2>1 DEF Gives, At
    <3> HIDE DEF b0
    <3> QED BY <3>1, <3>2
  <2>2. CASE job[h].call = "fork"
    <3>1. box' = box \cup [iid : job[h].kids, rid : {job[h].rid}]
      BY <2>2 DEF Receive, Returns, ForkReturns
    <3> DEFINE B == [iid : job[h].kids, rid : {job[h].rid}]
    <3>2. (\A b \in B : b.iid \in job[h].kids) /\ (\A i \in job[h].kids : \E b \in B : b.iid = i)
      <4>1. ASSUME NEW i \in job[h].kids PROVE \E b \in B : b.iid = i
        <5>1. [iid |-> i, rid |-> job[h].rid] \in B /\ [iid |-> i, rid |-> job[h].rid].iid = i
          OBVIOUS
        <5> QED BY <5>1
      <4> QED BY <4>1
    <3>3. \A i : Gives(h, i) <=> i \in job[h].kids
      BY <1>1, <2>2 DEF Gives, At
    <3>4. box' = box \cup B
      BY <3>1
    <3> HIDE DEF B
    <3> QED BY <3>2, <3>3, <3>4
  <2>3. CASE job[h].call \notin {"create", "fork"}
    BY <2>3 DEF Receive, Returns, Gives, At
  <2> QED BY <2>1, <2>2, <2>3
<1>5. \A x \in Threads : \A i : Gives(x, i)' <=> Gives(x, i) /\ x # h
  BY <1>1 DEF Gives, At
<1>6. \A i \in Insts : Known(i)' <=> Known(i)
  BY <1>1, <1>4, <1>5 DEF Known
<1>7. ClosedOK'
  <2>1. job[h].call = "destroy" => instState[job[h].iid] = "DESTROYED"
    BY <1>1 DEF JobOK, At
  <2> QED BY <1>0, <1>3, <2>1 DEF ClosedOK
<1>8. RunningOK'
  <2>1. \A x \in Threads : At(x, "error", "create") => At(x, "error", "create")'
    BY <1>1 DEF At
  <2> QED BY <1>0, <1>6, <2>1 DEF RunningOK
<1>9. KnownOK'
  <2>1. ASSUME NEW x \in Threads, NEW i \in Insts, Ends(x, i)
        PROVE  Ends(x, i)' \/ i \in closed'
    BY <1>1, <1>3, <2>1 DEF Ends, At
  <2> QED BY <1>0, <1>3, <1>6, <2>1 DEF KnownOK
<1> QED BY <1>2, <1>7, <1>8, <1>9

(* An error that is not raised in the program is that of a destroy. *)
LEMMA QuietError ==
  ASSUME ClientsInv, QuietInv, NEW c \in Clients, ReceiveError(c) PROVE QuietInv'
<1> SUFFICES ASSUME ~raised' PROVE Attended' /\ ClosedOK' /\ RunningOK' /\ KnownOK'
  BY DEF QuietInv
<1> DEFINE h == wait[c]
<1>1. PICK L \in Leaving(job[h]) :
        Raise(c, L) /\ hidden' = hidden \cup L /\ raised' = (raised \/ L = {})
  BY DEF ReceiveError
<1>2. ~raised /\ job[h].call = "destroy" /\ L = {job[h].iid}
  BY <1>1 DEF Leaving
<1>3. /\ Attended /\ ClosedOK /\ RunningOK /\ KnownOK
      /\ UNCHANGED <<instState, box>> /\ closed' = closed \cup L
  BY <1>1, <1>2 DEF QuietInv, Raise, tables
<1>4. /\ h \in Threads /\ job[h].op = "error" /\ job'[h].op = "none"
      /\ \A x \in Threads \ {h} : job'[x] = job[x]
      /\ \A d \in Clients \ {c} : wait'[d] = wait[d]
  BY <1>1 DEF ReceiveError, Raise, ClientsInv, TypeOK, NoJob
<1>5. \A x \in Threads : \A i : (Gives(x, i) <=> Gives(x, i)') /\ (Ends(x, i) <=> Ends(x, i)')
  BY <1>4 DEF Gives, Ends, At
<1>6. \A x \in Threads : At(x, "error", "create") => At(x, "error", "create")'
  BY <1>2, <1>4 DEF At
<1>7. \A i \in Insts : Known(i) <=> Known(i)'
  BY <1>3, <1>5 DEF Known
<1>8. Attended'
  BY <1>3, <1>4 DEF Attended
<1>9. ClosedOK'
  BY <1>1, <1>3 DEF ClosedOK
<1> QED BY <1>3, <1>5, <1>6, <1>7, <1>8, <1>9 DEF RunningOK, KnownOK

LEMMA QuietServer ==
  ASSUME ClientsInv, QuietInv, NEW h \in Threads, Server(h) PROVE QuietInv'
<1>0. /\ job \in [Threads -> Job] /\ job[h] \in Job /\ TablesOK /\ JobOK(h)
      /\ \A i \in Insts : instRun[i] = None <=> instState[i] = "none"
  BY DEF ClientsInv, TypeOK, TimelineIsDAG, InstOK
<1>a. ASSUME NEW q, Answer(h, q), UNCHANGED history
      PROVE  /\ job'[h] = q /\ \A x \in Threads \ {h} : job'[x] = job[x]
             /\ UNCHANGED <<sdk, history>>
  BY <1>0, <1>a DEF Answer
(* An answer, or a step towards one, that gives or ends no instance. *)
<1>b. ASSUME UNCHANGED <<sdk, history>>, instState' = instState,
             \A x \in Threads \ {h} : job'[x] = job[x],
             job[h].op \in {"start", "commit", "second"},
             job'[h].op # "none", job'[h].op # "ok" \/ job'[h].call \in {"snapshot", "timeline"}
      PROVE  QuietInv'
  <2>1. \A i : ~Gives(h, i)'
    BY <1>b DEF Gives, At
  <2> QED BY <1>b, <2>1, QuietServe
<1>1. ASSUME NEW p \in Projects, NEW r \in Runs, NEW i \in Insts, ServeCreate(h, p, r, i)
      PROVE  QuietInv'
  <2>1. /\ job[h].op = "start" /\ job[h].call = "create" /\ instRun[i] = None
        /\ \A j \in Insts : instState'[j] = IF j = i THEN "RUNNING" ELSE instState[j]
    BY <1>0, <1>1 DEF ServeCreate, InsertRun, At, TablesOK
  <2>2. CASE Answer(h, [job[h] EXCEPT !.op = "ok", !.iid = i, !.rid = r])
    <3>1. job'[h].op = "ok" /\ job'[h].call = "create" /\ job'[h].iid = i
      BY <1>0, <2>1, <2>2 DEF Answer, Job
    <3>2. \A j : Gives(h, j)' <=> j = i
      BY <3>1 DEF Gives, At
    <3>3. (\A x \in Threads \ {h} : job'[x] = job[x]) /\ UNCHANGED <<sdk, history>>
      BY <1>1, <1>a, <2>2 DEF ServeCreate
    <3> QED BY <2>1, <3>1, <3>2, <3>3, QuietServe
  <2>3. CASE Answer(h, [job[h] EXCEPT !.op = "error"])
    <3>1. job'[h].op = "error" /\ job'[h].call = "create"
      BY <1>0, <2>1, <2>3 DEF Answer, Job
    <3>2. (\A j : ~Gives(h, j)') /\ At(h, "error", "create")'
      BY <3>1 DEF Gives, At
    <3>3. (\A x \in Threads \ {h} : job'[x] = job[x]) /\ UNCHANGED <<sdk, history>>
      BY <1>1, <1>a, <2>3 DEF ServeCreate
    <3> QED BY <2>1, <3>1, <3>2, <3>3, QuietServe
  <2> QED BY <1>1, <2>2, <2>3 DEF ServeCreate
<1>2. CASE ReadParent(h)
  <2>1. /\ job'[h].op = "commit" /\ job[h].op = "start" /\ instState' = instState
        /\ (\A x \in Threads \ {h} : job'[x] = job[x]) /\ UNCHANGED <<sdk, history>>
    BY <1>0, <1>2 DEF ReadParent, Answer, At, Job, tables
  <2> QED BY <1>b, <2>1
<1>3. ASSUME NEW s \in Snaps, ServeSnapshot(h, s) PROVE QuietInv'
  <2>1. /\ job'[h].op = "ok" /\ job'[h].call = "snapshot" /\ job[h].op = "commit"
        /\ instState' = instState
        /\ (\A x \in Threads \ {h} : job'[x] = job[x]) /\ UNCHANGED <<sdk, history>>
    BY <1>0, <1>3 DEF ServeSnapshot, InsertSnapshot, Answer, At, Job
  <2> QED BY <1>b, <2>1
<1>4. ASSUME NEW K \in SUBSET Insts, ServeFork(h, K) PROVE QuietInv'
  <2>1. /\ job'[h].op = "ok" /\ job'[h].call = "fork" /\ job[h].op = "start"
        /\ job'[h].kids = K
        /\ (\A x \in Threads \ {h} : job'[x] = job[x]) /\ UNCHANGED <<sdk, history>>
    BY <1>0, <1>4 DEF ServeFork, Answer, At, Job
  <2>2. /\ \A i \in Insts : instState'[i] = IF i \in K THEN "RUNNING" ELSE instState[i]
        /\ \A i \in K : instRun[i] = None
    BY <1>4 DEF ServeFork, InsertForks
  <2>3. \A i : Gives(h, i)' <=> i \in K
    BY <2>1 DEF Gives, At
  <2> QED BY <2>1, <2>2, <2>3, QuietServe
<1>5. CASE ServeDestroy(h)
  <2>1. /\ job'[h].op = "ok" /\ job'[h].call = "destroy" /\ job[h].op = "start"
        /\ job'[h].iid = job[h].iid
        /\ (\A x \in Threads \ {h} : job'[x] = job[x]) /\ UNCHANGED <<sdk, history>>
    BY <1>0, <1>5 DEF ServeDestroy, Answer, At, Job
  <2>2. \A i \in Insts :
          instState'[i] = IF i = job[h].iid THEN "DESTROYED" ELSE instState[i]
    BY <1>0, <1>5 DEF ServeDestroy, MarkDestroyed, TablesOK
  <2>3. \A i : ~Gives(h, i)' /\ (Ends(h, i)' <=> i = job[h].iid)
    BY <2>1 DEF Gives, Ends, At
  <2> QED BY <2>1, <2>2, <2>3, QuietServe
<1>6. CASE ServeError(h)
  <2>1. /\ job'[h].op = "error" /\ job[h].op \in {"start", "commit"} /\ instState' = instState
        /\ (\A x \in Threads \ {h} : job'[x] = job[x]) /\ UNCHANGED <<sdk, history>>
    BY <1>0, <1>6 DEF ServeError, Answer, Job, tables
  <2> QED BY <1>b, <2>1
<1>7. CASE Discard(h)
  <2>1. raised' = raised /\ ~(Attended)
    BY <1>7 DEF Discard, Attended, history
  <2> QED BY <2>1 DEF QuietInv
<1>8. CASE SelectSnaps(h)
  <2>1. /\ job'[h].op = "second" /\ job[h].op = "start" /\ instState' = instState
        /\ (\A x \in Threads \ {h} : job'[x] = job[x]) /\ UNCHANGED <<sdk, history>>
    BY <1>0, <1>8 DEF SelectSnaps, Answer, At, Job, tables
  <2> QED BY <1>b, <2>1
<1>9. CASE SelectInsts(h)
  <2>1. /\ job'[h].op = "ok" /\ job'[h].call = "timeline" /\ job[h].op = "second"
        /\ instState' = instState
        /\ (\A x \in Threads \ {h} : job'[x] = job[x]) /\ UNCHANGED <<sdk, history>>
    BY <1>0, <1>9 DEF SelectInsts, Answer, At, Job, tables
  <2> QED BY <1>b, <2>1
<1> QED BY <1>1, <1>2, <1>3, <1>4, <1>5, <1>6, <1>7, <1>8, <1>9 DEF Server

LEMMA QuietNext == ASSUME ClientsInv, QuietInv, [Next]_vars PROVE QuietInv'
<1>1. ASSUME NEW c \in Clients, Program(c) PROVE QuietInv'
  <2>1. ASSUME NEW h \in Threads, Create(c, h) PROVE QuietInv'
    <3>1. Request("create").op = "start"
      BY DEF Request, NoJob
    <3> QED BY <2>1, <3>1, QuietCall DEF Create
  <2>a. ASSUME NEW h \in Threads, NEW b \in box,
               TakeSnapshot(c, h, b) \/ GetTimeline(c, h, b) \/ Destroy(c, h, b)
        PROVE  QuietInv'
    <3>1. /\ [Request("snapshot") EXCEPT !.iid = b.iid, !.rid = b.rid].op = "start"
          /\ [Request("timeline") EXCEPT !.rid = b.rid, !.own = Knows(b.rid)].op = "start"
          /\ [Request("destroy") EXCEPT !.iid = b.iid].op = "start"
      BY DEF Request, NoJob
    <3> QED BY <2>a, <3>1, QuietCall DEF TakeSnapshot, GetTimeline, Destroy
  <2>b. ASSUME NEW h \in Threads, NEW n \in node, Fork(c, h, n) PROVE QuietInv'
    <3>1. [Request("fork") EXCEPT !.sid = n.sid, !.rid = n.rid].op = "start"
      BY DEF Request, NoJob
    <3> QED BY <2>b, <3>1, QuietCall DEF Fork
  <2>2. CASE TimeOut(c)
    BY <2>2 DEF TimeOut, QuietInv
  <2> QED BY <1>1, <2>1, <2>a, <2>b, <2>2, QuietReceive, QuietError DEF Program
<1>2. ASSUME UNCHANGED vars PROVE QuietInv'
  BY <1>2 DEF vars, tables, sdk, history, QuietInv, Attended, ClosedOK, RunningOK, KnownOK,
              Known, Gives, Ends, At
<1> QED BY <1>1, <1>2, QuietServer DEF Next

(* A program that saw no exception and waits for no call owns all that     *)
(* runs: its open sandboxes, and those whose failed destroy __exit__ hid.  *)
THEOREM QuietProgramIsClean == Spec => []QuietMeansClean
<1>1. Init => QuietInv
  BY DEF Init, NoTables, NoJob, QuietInv, Attended, ClosedOK, RunningOK, KnownOK, Known,
         Gives, At
<1>2. ClientsInv /\ QuietInv /\ [Next]_vars => QuietInv'
  BY QuietNext
<1>3. ClientsInv /\ QuietInv => QuietMeansClean
  <2> SUFFICES ASSUME ClientsInv, QuietInv, ~raised, \A c \in Clients : wait[c] = None
               PROVE  Open \subseteq Running /\ Running \subseteq Open \cup hidden
    BY DEF QuietMeansClean
  <2>1. \A h \in Threads : job[h].op = "none"
    BY ClientsAssumption DEF QuietInv, Attended
  <2>2. \A i : Known(i) <=> \E b \in box : b.iid = i
    BY <2>1 DEF Known, Gives, At
  <2>3. \A b \in box : b.iid \in Insts
    BY DEF ClientsInv, TypeOK
  <2>4. ASSUME NEW i \in Open PROVE i \in Running
    <3>1. i \in Insts /\ Known(i) /\ i \notin closed
      BY <2>2, <2>3 DEF Open
    <3> QED BY <2>1, <3>1 DEF QuietInv, KnownOK, Ends, At, Running
  <2>5. ASSUME NEW i \in Running PROVE i \in Open \cup hidden
    <3>1. i \in Insts /\ instState[i] = "RUNNING" /\ Known(i)
      BY <2>1 DEF Running, QuietInv, RunningOK, At
    <3> QED BY <2>2, <3>1 DEF QuietInv, ClosedOK, Open
  <2> QED BY <2>4, <2>5
<1> QED BY <1>1, <1>2, <1>3, ClientsInvariant, PTL DEF Spec
=============================================================================
