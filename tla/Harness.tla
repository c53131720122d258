------------------------------ MODULE Harness -------------------------------
(***************************************************************************)
(* The fork spikes as programs that run firecracker processes (fc.py and   *)
(* harness/spike_*.py).  A spike boots a base VM, snapshots it, restores   *)
(* children from the snapshot, asks their agents over the vsock sockets,   *)
(* kills them and gives a verdict.  The snapshot holds the host path of    *)
(* the base's socket, so that every child binds the same path: the serial  *)
(* spikes g and h unlink it before each child, the concurrent ones i and j *)
(* mount a directory of the child over it, b and c have no vsock.  Several *)
(* spikes may run on one host; VMs exit on their own, processes do not     *)
(* come up and requests time out.                                          *)
(***************************************************************************)
EXTENDS Naturals, Sequences

CONSTANTS Runs,  \* spikes that run on the host
          Plans, \* which spikes they may be
          Forks, \* --forks of a run
          MaxExits, \* bound on the VMs that exit on their own
          Baked, \* the path of the host that is in the snapshots of i and j
          None

Kinds == {"b", "c", "g", "h", "i", "j"}
Kids(r) == {r} \X (1..Forks[r])
Branch == UNION {Kids(r) : r \in Runs}
VMs == Branch \cup (Runs \X {0})

(* A request over vsock, by the VM the spike deals with at that time. *)
Request == [to : VMs, what : {"PING", "QUIESCE", "CHECK", "FORKED"}, by : VMs]

ASSUME HarnessAssumption ==
  /\ Plans \subseteq [Runs -> Kinds]
  /\ Forks \in [Runs -> Nat \ {0}]
  /\ MaxExits \in Nat
  /\ {Baked, None} \cap VMs = {}
  /\ None \notin Request
  /\ None \notin {"ok", "ERR", "READY", "works", "issue", "api", "inuse", "died", "request"}

VARIABLES
  kind,    \* which spike it is
  pc,      \* its next step
  k,       \* the VM it deals with: 0 is the base
  wait,    \* the vsock request it waits for, and where it went
  ans,     \* the answer, once it is there
  report,  \* readys: what it noted of a child
  alive,   \* were all children alive after the spawns, after the protocol?
  verdict,
  vm,      \* the VMs
  sock,    \* the VM that bound the socket of that path
  image,   \* the workload in the snapshot: held, and inside a call
  exits,   \* VMs that have exited on their own
  why,     \* history: what made it fail
  crossed, \* history: spikes whose base request reached the base of another
  together \* history: were all its children up after they had been told?

driver == <<pc, k, wait, ans>>
results == <<kind, report, alive, verdict>>
history == <<why, crossed, together>>
vars == <<driver, results, vm, sock, image, exits, history>>

(* The paths of sockets: the baked one of the host, a directory per VM. *)
Paths == VMs \cup {Baked}

Plain == {"b", "c"}
Vsock == {"g", "h", "i", "j"}
Serial == {"g", "h"}
Tells == {"g", "i"}

Guest == [proc : {"none", "up", "dead"},
          on : BOOLEAN,                \* does it run a guest?
          held : BOOLEAN,              \* the workload is stopped
          fresh : BOOLEAN,             \* and has reseeded
          mid : BOOLEAN,               \* a call of it was under way at the stop
          told : VMs \cup {None},      \* KLADOS_FORKED line of its console
          stale : BOOLEAN,             \* a sample of its console is of the frozen state
          inbox : Seq(Request)]

Off == [proc |-> "none", on |-> FALSE, held |-> FALSE, fresh |-> FALSE,
        mid |-> FALSE, told |-> None, stale |-> FALSE, inbox |-> << >>]

TypeOK ==
  /\ kind \in Plans
  /\ pc \in [Runs -> {"start", "api", "boot", "ping", "quiesce", "snap", "fork",
                      "load", "poll", "ask", "kill", "verdict", "done", "failed"}]
  /\ k \in [Runs -> Nat] /\ \A r \in Runs : k[r] <= Forks[r]
  /\ wait \in [Runs -> Request \cup {None}]
  /\ ans \in [Runs -> {None, "ok", "ERR"}]
  /\ report \in [Branch -> {None, "READY", "ERR"}]
  /\ alive \in [Runs -> [spawned : BOOLEAN, still : BOOLEAN]]
  /\ verdict \in [Runs -> {None, "works", "issue"}]
  /\ vm \in [VMs -> Guest]
  /\ sock \in [Paths -> VMs \cup {None}]
  /\ image \in [Runs -> [held : BOOLEAN, mid : BOOLEAN]]
  /\ exits \in 0..MaxExits
  /\ why \in [Runs -> {None, "api", "inuse", "died", "request"}]
  /\ crossed \subseteq Runs /\ together \subseteq Runs

Init ==
  /\ kind \in Plans
  /\ pc = [r \in Runs |-> "start"] /\ k = [r \in Runs |-> 0]
  /\ wait = [r \in Runs |-> None] /\ ans = [r \in Runs |-> None]
  /\ report = [b \in Branch |-> None]
  /\ alive = [r \in Runs |-> [spawned |-> FALSE, still |-> FALSE]]
  /\ verdict = [r \in Runs |-> None]
  /\ vm = [v \in VMs |-> Off]
  /\ sock = [p \in Paths |-> None]
  /\ image = [r \in Runs |-> [held |-> FALSE, mid |-> FALSE]]
  /\ exits = 0
  /\ why = [r \in Runs |-> None] /\ crossed = {} /\ together = {}

Up(v) == vm[v].proc = "up"
Cur(r) == <<r, k[r]>>
At(r, l) == pc[r] = l /\ wait[r] = None
Goto(r, l) == pc' = [pc EXCEPT ![r] = l]

(* The socket the base binds, and the one a child's baked path resolves to. *)
BasePath(r) == IF kind[r] = "i" THEN Baked ELSE <<r, 0>>
ChildPath(r, n) == IF kind[r] \in Serial THEN BasePath(r) ELSE <<r, n>>
Path(r) == IF k[r] = 0 THEN BasePath(r) ELSE ChildPath(r, k[r])

(* Microvm.kill: SIGKILL; the file of the vsock socket stays. *)
Killed(S) == [v \in VMs |-> IF v \in S /\ Up(v) THEN [Off EXCEPT !.proc = "dead",
                                 !.told = vm[v].told, !.stale = vm[v].stale]
                            ELSE vm[v]]

(* An exception that ends the spike; S are the VMs it kills on the way. *)
Fail(r, w, S) ==
  /\ Goto(r, "failed")
  /\ why' = [why EXCEPT ![r] = w]
  /\ vm' = Killed(S)

-----------------------------------------------------------------------------
(* fc.Microvm *)

(* _spawn: the process is started ... *)
Spawn(r, n) ==
  /\ vm' = [vm EXCEPT ![<<r, n>>].proc = "up"]
  /\ k' = [k EXCEPT ![r] = n]
  /\ Goto(r, "api")

(* ... and _await_sock sees its API come up ... *)
ApiUp(r) ==
  /\ At(r, "api") /\ Up(Cur(r))
  /\ Goto(r, IF k[r] = 0 THEN "boot" ELSE "load")
  /\ UNCHANGED <<k, wait, ans, results, vm, sock, image, exits, history>>

(* ... or gives up, and nobody kills the process.  *)
ApiNeverUp(r) ==
  /\ At(r, "api")
  /\ Fail(r, "api", {})
  /\ UNCHANGED <<k, wait, ans, results, sock, image, exits, crossed, together>>

(* Firecracker binds the socket of the vsock device; a file that is there  *)
(* already, whoever left it, makes the API call fail.                      *)
Binds(r) == kind[r] \notin Vsock \/ sock[Path(r)] = None
Bound(r) == IF kind[r] \in Vsock THEN [sock EXCEPT ![Path(r)] = Cur(r)] ELSE sock
Unlinked(p) == [sock EXCEPT ![p] = None]

(* The with statement around the base kills it; spike j has none. *)
WithBase(r) == IF kind[r] = "j" THEN {} ELSE {<<r, 0>>}

ConfigureAndStart(r) ==
  /\ At(r, "boot")
  /\ \/ /\ Up(Cur(r)) /\ Binds(r)
        /\ sock' = Bound(r)
        /\ vm' = [vm EXCEPT ![Cur(r)].on = TRUE]
        /\ Goto(r, IF kind[r] \in Vsock THEN "ping" ELSE "snap")
        /\ UNCHANGED why
     \/ Up(Cur(r)) /\ ~Binds(r) /\ Fail(r, "inuse", WithBase(r)) /\ UNCHANGED sock
     \/ ~Up(Cur(r)) /\ Fail(r, "died", WithBase(r)) /\ UNCHANGED sock
  /\ UNCHANGED <<k, wait, ans, results, image, exits, crossed, together>>

(* The serial spikes turn to the child, the others to the next one first. *)
AfterLoad(r) ==
  IF kind[r] \notin Serial /\ k[r] < Forks[r]
    THEN Goto(r, "fork") /\ UNCHANGED k
    ELSE /\ Goto(r, CASE kind[r] \in Plain -> "kill" [] kind[r] = "i" -> "poll" [] OTHER -> "ask")
         /\ k' = IF kind[r] \in Serial THEN k ELSE [k EXCEPT ![r] = 1]

(* load: the child binds the baked path and resumes as the snapshot was.   *)
(* An error leaves it, and the children before it, running.                *)
Load(r) ==
  /\ At(r, "load")
  /\ \/ /\ Up(Cur(r)) /\ Binds(r)
        /\ sock' = Bound(r)
        /\ vm' = [vm EXCEPT ![Cur(r)].on = TRUE, ![Cur(r)].held = image[r].held,
                            ![Cur(r)].mid = image[r].mid]
        /\ AfterLoad(r)
        /\ UNCHANGED why
     \/ /\ Up(Cur(r)) /\ ~Binds(r) /\ Fail(r, "inuse", {}) /\ UNCHANGED <<k, sock>>
     \/ /\ ~Up(Cur(r)) /\ Fail(r, "died", {}) /\ UNCHANGED <<k, sock>>
  /\ UNCHANGED <<wait, ans, results, image, exits, crossed, together>>

-----------------------------------------------------------------------------
(* fc.vsock_request *)

Refused(r) == ~(sock[Path(r)] # None /\ Up(sock[Path(r)]))

(* connect: the path leads to the VM that bound it, if that is still up. *)
Connect(r, what) ==
  LET v == sock[Path(r)]
      q == [to |-> v, what |-> what, by |-> Cur(r)]
  IN /\ ~Refused(r)
     /\ wait' = [wait EXCEPT ![r] = q]
     /\ vm' = [vm EXCEPT ![v].inbox = Append(@, q)]
     /\ crossed' = IF k[r] = 0 /\ v # Cur(r) THEN crossed \cup {r} ELSE crossed
     /\ UNCHANGED <<pc, k, ans, results, sock, image, exits, why, together>>

(* What the spike asks at this point. *)
Question(r) ==
  CASE pc[r] = "ping" -> IF kind[r] = "h" THEN "CHECK" ELSE "PING"
    [] pc[r] = "quiesce" -> "QUIESCE"
    [] OTHER -> IF kind[r] \in Tells THEN "FORKED" ELSE "CHECK"

Ask(r) ==
  /\ pc[r] \in {"ping", "quiesce", "ask"} /\ wait[r] = None
  /\ Connect(r, Question(r))

(* The next step once a request is over. *)
Proceed(r) ==
  /\ Goto(r, CASE pc[r] = "ping" /\ kind[r] \in Tells -> "quiesce"
               [] pc[r] = "ping" /\ kind[r] \notin Tells -> "snap"
               [] pc[r] = "quiesce" -> "snap"
               [] pc[r] = "ask" /\ kind[r] \notin Serial /\ k[r] < Forks[r] -> "ask"
               [] OTHER -> "kill")
  /\ k' = IF pc[r] = "ask" /\ kind[r] \notin Serial /\ k[r] < Forks[r]
            THEN [k EXCEPT ![r] = @ + 1] ELSE k

Noted(r, a) ==
  report' = IF pc[r] = "ask" /\ kind[r] \in Tells THEN [report EXCEPT ![Cur(r)] = a] ELSE report

(* Mutant: any answer is taken for READY. *)
ReceiveReady(r) ==
  /\ wait[r] # None
  /\ \/ ans[r] # None /\ Noted(r, "READY")
     \/ ans[r] = None /\ ~Up(wait[r].to) /\ Noted(r, "READY")
  /\ wait' = [wait EXCEPT ![r] = None] /\ ans' = [ans EXCEPT ![r] = None]
  /\ Proceed(r)
  /\ UNCHANGED <<kind, alive, verdict, vm, sock, image, exits, history>>

(* The answer is read; if the VM exits before it, recv returns nothing and *)
(* the request returns {}.                                                 *)
Receive(r) ==
  /\ wait[r] # None
  /\ \/ ans[r] = "ok" /\ Noted(r, "READY")
     \/ ans[r] = "ERR" /\ Noted(r, "ERR")
     \/ ans[r] = None /\ ~Up(wait[r].to) /\ Noted(r, "ERR")
  /\ wait' = [wait EXCEPT ![r] = None] /\ ans' = [ans EXCEPT ![r] = None]
  /\ Proceed(r)
  /\ UNCHANGED <<kind, alive, verdict, vm, sock, image, exits, history>>

(* What a spike kills when it gives up: spike j kills its base if Chrome   *)
(* has no token, and not if the agent does not answer.                     *)
GivesUp(r) ==
  CASE pc[r] = "ask" -> {{}}
    [] pc[r] # "ask" /\ kind[r] = "j" -> {{}, {<<r, 0>>}}
    [] OTHER -> {WithBase(r)}

(* Mutant: a request has no timeout. *)
RequestFailsRefused(r) ==
  /\ pc[r] \in {"ping", "quiesce", "ask"} /\ wait[r] = None /\ Refused(r)
  /\ IF pc[r] = "ask" /\ kind[r] # "h"
       THEN Noted(r, "ERR") /\ Proceed(r) /\ UNCHANGED <<vm, why>>
       ELSE /\ \E S \in GivesUp(r) : Fail(r, "request", S)
            /\ UNCHANGED <<k, report>>
  /\ UNCHANGED <<wait, ans, kind, alive, verdict, sock, image, exits, crossed, together>>

(* The request raises: refused, or 5 s without the answer; the guest may   *)
(* still serve it.  The exception is noted for a child (g, i, j), kills    *)
(* the base that a with statement holds, and else leaves what there is.    *)
RequestFails(r) ==
  /\ \/ wait[r] # None
     \/ pc[r] \in {"ping", "quiesce", "ask"} /\ wait[r] = None /\ Refused(r)
  /\ wait' = [wait EXCEPT ![r] = None] /\ ans' = [ans EXCEPT ![r] = None]
  /\ IF pc[r] = "ask" /\ kind[r] # "h"
       THEN Noted(r, "ERR") /\ Proceed(r) /\ UNCHANGED <<vm, why>>
       ELSE /\ \E S \in GivesUp(r) : Fail(r, "request", S)
            /\ UNCHANGED <<k, report>>
  /\ UNCHANGED <<kind, alive, verdict, sock, image, exits, crossed, together>>

-----------------------------------------------------------------------------
(* The guest: its agent and its workload, as ForkProtocol models them. *)

(* Mutant: the workload is released before the generation is bumped. *)
ServedEarly(v, q) ==
  CASE q.what = "QUIESCE" -> {[vm[v] EXCEPT !.held = TRUE, !.mid = m] : m \in BOOLEAN}
    [] q.what = "FORKED" -> {[vm[v] EXCEPT !.held = FALSE, !.told = q.by]}
    [] OTHER -> {vm[v]}

Served(v, q) ==
  CASE q.what = "QUIESCE" -> {[vm[v] EXCEPT !.held = TRUE, !.mid = m] : m \in BOOLEAN}
    [] q.what = "FORKED" -> {[vm[v] EXCEPT !.held = FALSE, !.fresh = TRUE, !.told = q.by]}
    [] OTHER -> {vm[v]}

Answered(q, a) ==
  ans' = [r \in Runs |-> IF wait[r] = q THEN a ELSE ans[r]]

(* All of a run's children are up, and have been told. *)
Together(w) == {r \in Runs : \A v \in Kids(r) : w[v].proc = "up" /\ w[v].told # None}

(* handle: the agent serves a request, or the handler raises. *)
Serve(v) ==
  /\ Up(v) /\ vm[v].inbox # << >>
  /\ LET q == Head(vm[v].inbox) IN
     \/ /\ \E g \in Served(v, q) :
             vm' = [vm EXCEPT ![v] = [g EXCEPT !.inbox = Tail(@)]]
        /\ Answered(q, "ok")
     \/ /\ q.what = "FORKED"
        /\ vm' = [vm EXCEPT ![v].inbox = Tail(@)]
        /\ Answered(q, "ERR")
  /\ together' = together \cup Together(vm')
  /\ UNCHANGED <<pc, k, wait, results, sock, image, exits, why, crossed>>

(* The workload of a child prints a value of the RNG state in the          *)
(* snapshot: it has not reseeded, or the call was under way at the stop.   *)
(* The values it draws later are its own and need no step.                 *)
Sample(v) ==
  /\ v[2] # 0 /\ Up(v) /\ vm[v].on /\ ~vm[v].held
  /\ ~vm[v].fresh \/ vm[v].mid
  /\ ~vm[v].stale
  /\ vm' = [vm EXCEPT ![v].stale = TRUE]
  /\ UNCHANGED <<driver, results, sock, image, exits, history>>

(* Firecracker exits: the guest panicked. *)
Exit(v) ==
  /\ Up(v) /\ exits < MaxExits
  /\ exits' = exits + 1
  /\ vm' = Killed({v})
  /\ UNCHANGED <<driver, results, sock, image, history>>

-----------------------------------------------------------------------------
(* The spikes *)

(* The base: spike i removes the socket an earlier run has left. *)
Start(r) ==
  /\ At(r, "start")
  /\ Spawn(r, 0)
  /\ sock' = IF kind[r] = "i" THEN Unlinked(Baked) ELSE sock
  /\ UNCHANGED <<wait, ans, results, image, exits, history>>

(* Pause, snapshot, and the end of the base. *)
Snapshot(r) ==
  /\ At(r, "snap")
  /\ \/ /\ Up(<<r, 0>>)
        /\ image' = [image EXCEPT ![r] = [held |-> vm[<<r, 0>>].held, mid |-> vm[<<r, 0>>].mid]]
        /\ vm' = Killed({<<r, 0>>})
        /\ Goto(r, "fork")
        /\ UNCHANGED why
     \/ ~Up(<<r, 0>>) /\ Fail(r, "died", {}) /\ UNCHANGED image
  /\ UNCHANGED <<k, wait, ans, results, sock, exits, crossed, together>>

(* Mutant: the socket is not unlinked. *)
ForkSerialKeeps(r) ==
  /\ At(r, "fork") /\ kind[r] \in Serial
  /\ Spawn(r, k[r] + 1)
  /\ UNCHANGED <<wait, ans, results, sock, image, exits, history>>

(* Spikes g and h free the baked socket for the next child. *)
ForkSerial(r) ==
  /\ At(r, "fork") /\ kind[r] \in Serial
  /\ sock' = Unlinked(BasePath(r))
  /\ Spawn(r, k[r] + 1)
  /\ UNCHANGED <<wait, ans, results, image, exits, history>>

(* Spike i, and j, start it in a mount namespace in which the baked        *)
(* directory is its own ...                                                *)
ForkRemapped(r) ==
  /\ At(r, "fork") /\ kind[r] \in {"i", "j"}
  /\ Spawn(r, k[r] + 1)
  /\ UNCHANGED <<wait, ans, results, sock, image, exits, history>>

(* ... and b, in fork_file_cow, and c just start it. *)
ForkPlain(r) ==
  /\ At(r, "fork") /\ kind[r] \in Plain
  /\ Spawn(r, k[r] + 1)
  /\ UNCHANGED <<wait, ans, results, sock, image, exits, history>>

AllUp(r) == \A v \in Kids(r) : Up(v)

(* Spike i: alive_concurrently. *)
Poll(r) ==
  /\ At(r, "poll")
  /\ alive' = [alive EXCEPT ![r].spawned = AllUp(r)]
  /\ Goto(r, "ask")
  /\ UNCHANGED <<k, wait, ans, kind, report, verdict, vm, sock, image, exits, history>>

(* The serial spikes kill a child after its samples and fork the next one. *)
KillSerial(r) ==
  /\ At(r, "kill") /\ kind[r] \in Serial
  /\ vm' = Killed({Cur(r)})
  /\ Goto(r, IF k[r] < Forks[r] THEN "fork" ELSE "verdict")
  /\ UNCHANGED <<k, wait, ans, results, sock, image, exits, history>>

(* Spike i polls once more, and kills all; so do c and j, which do not poll. *)
KillAll(r) ==
  /\ At(r, "kill") /\ kind[r] \in {"c", "i", "j"}
  /\ alive' = [alive EXCEPT ![r].still = AllUp(r)]
  /\ vm' = Killed(Kids(r))
  /\ Goto(r, "verdict")
  /\ UNCHANGED <<k, wait, ans, kind, report, verdict, sock, image, exits, history>>

(* Spike b reads the PSS of every child, which raises if one has exited,   *)
(* and kills all in the finally clause.                                    *)
Measure(r) ==
  /\ At(r, "kill") /\ kind[r] = "b"
  /\ \/ AllUp(r) /\ Goto(r, "verdict") /\ vm' = Killed(Kids(r)) /\ UNCHANGED why
     \/ ~AllUp(r) /\ Fail(r, "died", Kids(r))
  /\ UNCHANGED <<k, wait, ans, results, sock, image, exits, crossed, together>>

(* cross: no value is on the consoles of two children. *)
NoCross(r) == \A v, w \in Kids(r) : vm[v].stale /\ vm[w].stale => v = w

AllReady(r) == \A v \in Kids(r) : report[v] = "READY"
AllContexts(r) == \A v \in Kids(r) : vm[v].told = v

WorksG(r) == AllReady(r) /\ NoCross(r) /\ AllContexts(r)

(* Mutant: a child that died during the protocol does not count. *)
WorksISpawned(r) == alive[r].spawned /\ WorksG(r)

WorksI(r) == alive[r].spawned /\ alive[r].still /\ WorksG(r)

CleanC(r) == NoCross(r)

(* The verdicts on samples; b measures, h and j ask the guests. *)
Verdict(r) ==
  /\ At(r, "verdict")
  /\ \E d \in {"works", "issue"} :
       /\ kind[r] = "g" => (d = "works" <=> WorksG(r))
       /\ kind[r] = "i" => (d = "works" <=> WorksI(r))
       /\ kind[r] = "c" => (d = "works" <=> CleanC(r))
       /\ verdict' = [verdict EXCEPT ![r] = d]
  /\ Goto(r, "done")
  /\ UNCHANGED <<k, wait, ans, kind, report, alive, vm, sock, image, exits, history>>

-----------------------------------------------------------------------------
Driver(r) ==
  \/ Start(r) \/ ApiUp(r) \/ ApiNeverUp(r) \/ ConfigureAndStart(r)
  \/ Ask(r) \/ Receive(r) \/ RequestFails(r)
  \/ Snapshot(r) \/ ForkSerial(r) \/ ForkRemapped(r) \/ ForkPlain(r) \/ Load(r)
  \/ Poll(r) \/ KillSerial(r) \/ KillAll(r) \/ Measure(r) \/ Verdict(r)

Ended(r) == pc[r] \in {"done", "failed"}

Next ==
  \/ \E r \in Runs : Driver(r)
  \/ \E v \in VMs : Serve(v) \/ Sample(v) \/ Exit(v)

Spec == Init /\ [][Next]_vars

(* A spike's process runs and every wait of it has a timeout; the VMs owe  *)
(* nothing.                                                                *)
FairSpec == Spec /\ \A r \in Runs : WF_vars(Driver(r))

-----------------------------------------------------------------------------
(* Properties. *)

(***************************************************************************)
(* Every child is a branch of its own: the harness keeps the promise of    *)
(* Branches although all children bind one baked path, requests that timed *)
(* out are served later, and VMs exit.                                     *)
(***************************************************************************)
B == INSTANCE Branches WITH
       life <- [b \in Branch |-> CASE vm[b].proc = "none" -> "new"
                                   [] vm[b].proc = "up" -> "alive"
                                   [] OTHER -> "over"],
       told <- [b \in Branch |-> vm[b].told],
       report <- report

RefinesBranches == B!Spec

(* The base of a spike i, and another spike i on the host. *)
SharesBase(r) ==
  /\ k[r] = 0 /\ kind[r] = "i"
  /\ \E q \in Runs \ {r} : kind[q] = "i"

(***************************************************************************)
(* No child fails on the socket of another ("N children from one snapshot  *)
(* cannot each bind their own socket", spike_g): an address in use stops a *)
(* spike only at its base, and only if it is one of two spikes i on the    *)
(* host, whose bases share the baked path.                                 *)
(***************************************************************************)
NoCollision == \A r \in Runs : why[r] = "inuse" => SharesBase(r)

(***************************************************************************)
(* A child of a spike that quiesces its base prints a value of the frozen  *)
(* RNG state only if the call was under way at the stop, or if the QUIESCE *)
(* went to the base of another spike.                                      *)
(***************************************************************************)
FrozenMeansCrossed ==
  \A v \in Branch :
    kind[v[1]] \in Tells /\ vm[v].stale =>
      image[v[1]].mid \/ v[1] \in crossed

(* The children diverged, know which branch they are, and were up at once. *)
ForkWorked(r) ==
  /\ kind[r] \in Tells \cup {"c"} =>
       \A v, w \in Kids(r) : v # w => ~vm[v].stale \/ ~vm[w].stale
  /\ kind[r] \in Tells => \A v \in Kids(r) : vm[v].told = v
  /\ kind[r] = "i" => r \in together

(***************************************************************************)
(* "CONCURRENT FORK WORKS: N children ran simultaneously ... full protocol *)
(* (zero-window entropy + clock + branch) on all" (spike_i), and the same  *)
(* one at a time (spike_g): at most one child has used the frozen state,   *)
(* each was told its own branch and, in spike i, all were up at once after *)
(* the last one had been told.                                             *)
(***************************************************************************)
VerdictSound == \A r \in Runs : verdict[r] = "works" => ForkWorked(r)

(* Every spike ends, whatever its VMs and their agents do. *)
HarnessEnds == \A r \in Runs : <>Ended(r)
=============================================================================
