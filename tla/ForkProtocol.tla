---------------------------- MODULE ForkProtocol ----------------------------
(***************************************************************************)
(* The fork-safety protocol of klados: the guest agent (PID 1 of a VM,     *)
(* guest_agent.py), the RNG hook every Python process of the workload      *)
(* imports (sitecustomize.py), and the requests the engine sends them      *)
(* around a snapshot and a fork (kladosd.py, fc.vsock_request).            *)
(*                                                                         *)
(* A snapshot copies a whole guest, so the state of a guest is kept per    *)
(* slot: a VM is a slot that runs, a snapshot is a slot that only stores.  *)
(* The random stream a process draws from is named by the VM in which it   *)
(* was seeded from os.urandom.  A VM that draws from a stream seeded in    *)
(* another VM produces values that VM, or a sibling, produces too.         *)
(***************************************************************************)
EXTENDS Naturals, Sequences

CONSTANTS VMs,       \* microVMs: the genesis VM and the forks
          Snaps,     \* snapshot images
          Genesis,   \* the VM booted from the base image
          Procs,     \* processes of the workload
          Root,      \* the process the agent spawned, the only one it signals
          None,      \* no VM, no snapshot
          Faults     \* may requests fail or time out?

ASSUME ForkAssumption ==
  /\ Genesis \in VMs
  /\ Root \in Procs
  /\ None \notin VMs \cup Snaps
  /\ VMs \cap Snaps = {}
  /\ Faults \in BOOLEAN

Slots == VMs \cup Snaps
Threads == {"caller", "poller"}

VARIABLES
  used,      \* slots that hold a guest
  forkgen,   \* /run/klados/forkgen of the guest
  agent,     \* where the agent is: its accept loop, or inside FORKED
  client,    \* the VM whose host connection the agent is serving
  branch,    \* the VM named by /run/klados/branch.json
  inbox,     \* requests waiting for the agent's accept
  stopped,   \* processes under SIGSTOP
  hookgen,   \* _state["gen"] of the hook, per process
  rng,       \* VM whose os.urandom seeded the process's PRNG
  pc,        \* where a thread is in the hook
  g,         \* its local g of _maybe_reseed
  host,      \* what the engine is doing with a VM
  sid,       \* the snapshot the engine is taking of a VM
  answer,    \* the agent's reply to FORKED
  ready,     \* what the engine recorded for a child: READY or ERR
  base,      \* history: generation a VM was restored with
  sealed,    \* history: restored from a quiesced guest
  mine       \* history: the caller's current call began in this VM

guestVars == <<forkgen, agent, client, branch, stopped, hookgen, rng, pc, g>>
hostVars == <<host, sid, answer, ready>>
history == <<base, sealed, mine>>
vars == <<used, guestVars, inbox, hostVars, history>>

CallerPC == {"baseline", "import", "app", "cmp", "reseed", "set", "call"}
PollerPC == {"off", "sleep", "cmp", "reseed", "set"}

TypeOK ==
  /\ used \subseteq Slots
  /\ forkgen \in [Slots -> Nat]
  /\ agent \in [Slots -> {"accept", "bump", "cont"}]
  /\ client \in [Slots -> VMs \cup {None}]
  /\ branch \in [Slots -> VMs \cup {None}]
  /\ inbox \in [Slots -> Seq({"QUIESCE", "FORKED"})]
  /\ stopped \in [Slots -> SUBSET {Root}]
  /\ hookgen \in [Slots -> [Procs -> Nat]]
  /\ rng \in [Slots -> [Procs -> VMs \cup {None}]]
  /\ pc \in [Slots -> [Procs -> [Threads -> CallerPC \cup PollerPC]]]
  /\ g \in [Slots -> [Procs -> [Threads -> Nat]]]
  /\ host \in [VMs -> {"idle", "quiescing", "restored", "forking"}]
  /\ sid \in [VMs -> Snaps \cup {None}]
  /\ answer \in [VMs -> {"none", "READY", "ERR"}]
  /\ ready \in [VMs -> {"none", "READY", "ERR"}]
  /\ base \in [VMs -> Nat]
  /\ sealed \in [VMs -> BOOLEAN]
  /\ mine \in [VMs -> [Procs -> BOOLEAN]]

(***************************************************************************)
(* Agent.__init__ has written generation 0 and spawned the workload in the *)
(* genesis VM; every process is about to import sitecustomize.             *)
(***************************************************************************)
Init ==
  /\ used = {Genesis}
  /\ forkgen = [x \in Slots |-> 0]
  /\ agent = [x \in Slots |-> "accept"]
  /\ client = [x \in Slots |-> None]
  /\ branch = [x \in Slots |-> None]
  /\ inbox = [x \in Slots |-> << >>]
  /\ stopped = [x \in Slots |-> {}]
  /\ hookgen = [x \in Slots |-> [p \in Procs |-> 0]]
  /\ rng = [x \in Slots |-> [p \in Procs |-> None]]
  /\ pc = [x \in Slots |-> [p \in Procs |->
             [t \in Threads |-> IF t = "caller" THEN "baseline" ELSE "off"]]]
  /\ g = [x \in Slots |-> [p \in Procs |-> [t \in Threads |-> 0]]]
  /\ host = [v \in VMs |-> "idle"]
  /\ sid = [v \in VMs |-> None]
  /\ answer = [v \in VMs |-> "none"]
  /\ ready = [v \in VMs |-> "none"]
  /\ base = [v \in VMs |-> 0]
  /\ sealed = [v \in VMs |-> FALSE]
  /\ mine = [v \in VMs |-> [p \in Procs |-> TRUE]]

-----------------------------------------------------------------------------
(* The RNG hook: one process p of the workload of VM v. *)

Live(v) == v \in VMs /\ v \in used
Runs(v, p) == Live(v) /\ p \notin stopped[v]
At(v, p, t, l) == pc[v][p][t] = l
Goto(v, p, t, l) == pc' = [pc EXCEPT ![v][p][t] = l]

(* Mutant: the hook starts without a baseline. *)
HookBaselineNone(v, p) ==
  /\ Runs(v, p) /\ At(v, p, "caller", "baseline")
  /\ hookgen' = [hookgen EXCEPT ![v][p] = None]
  /\ Goto(v, p, "caller", "import")
  /\ UNCHANGED <<used, forkgen, agent, client, branch, inbox, stopped, rng, g,
                 hostVars, history>>

(* _start: the baseline generation is read before random is imported. *)
HookBaseline(v, p) ==
  /\ Runs(v, p) /\ At(v, p, "caller", "baseline")
  /\ hookgen' = [hookgen EXCEPT ![v][p] = forkgen[v]]
  /\ Goto(v, p, "caller", "import")
  /\ UNCHANGED <<used, forkgen, agent, client, branch, inbox, stopped, rng, g,
                 hostVars, history>>

(* Mutant: the backup poller is not started. *)
HookImportNoPoller(v, p) ==
  /\ Runs(v, p) /\ At(v, p, "caller", "import")
  /\ rng' = [rng EXCEPT ![v][p] = v]
  /\ Goto(v, p, "caller", "app")
  /\ UNCHANGED <<used, forkgen, agent, client, branch, inbox, stopped, hookgen,
                 g, hostVars, history>>

(* _install_wrappers imports random, which seeds itself from os.urandom;   *)
(* then the backup poller starts.                                          *)
HookImport(v, p) ==
  /\ Runs(v, p) /\ At(v, p, "caller", "import")
  /\ rng' = [rng EXCEPT ![v][p] = v]
  /\ pc' = [pc EXCEPT ![v][p] = [t \in Threads |->
                IF t = "caller" THEN "app" ELSE "sleep"]]
  /\ UNCHANGED <<used, forkgen, agent, client, branch, inbox, stopped, hookgen,
                 g, hostVars, history>>

(* What a thread does once _maybe_reseed returns. *)
Return(t) == IF t = "caller" THEN "call" ELSE "sleep"

(* A wrapper (_gr, _rr, _rb) or the poller enters _maybe_reseed and reads  *)
(* the generation.                                                         *)
ReadGen(v, p, t) ==
  /\ Runs(v, p) /\ pc[v][p][t] \in {"app", "sleep"}
  /\ g' = [g EXCEPT ![v][p][t] = forkgen[v]]
  /\ Goto(v, p, t, "cmp")
  /\ mine' = [mine EXCEPT ![v][p] = @ \/ t = "caller"]
  /\ UNCHANGED <<used, forkgen, agent, client, branch, inbox, stopped, hookgen,
                 rng, hostVars, base, sealed>>

(* Mutant: the new generation is recorded before the reseed. *)
CompareMarksFirst(v, p, t) ==
  /\ Runs(v, p) /\ At(v, p, t, "cmp")
  /\ Goto(v, p, t, IF g[v][p][t] # hookgen[v][p] THEN "reseed" ELSE Return(t))
  /\ hookgen' = [hookgen EXCEPT ![v][p] = g[v][p][t]]
  /\ UNCHANGED <<used, forkgen, agent, client, branch, inbox, stopped, rng, g,
                 hostVars, history>>

Compare(v, p, t) ==
  /\ Runs(v, p) /\ At(v, p, t, "cmp")
  /\ Goto(v, p, t, IF g[v][p][t] # hookgen[v][p] THEN "reseed" ELSE Return(t))
  /\ UNCHANGED <<used, forkgen, agent, client, branch, inbox, stopped, hookgen,
                 rng, g, hostVars, history>>

Reseed(v, p, t) ==
  /\ Runs(v, p) /\ At(v, p, t, "reseed")
  /\ rng' = [rng EXCEPT ![v][p] = v]
  /\ Goto(v, p, t, "set")
  /\ UNCHANGED <<used, forkgen, agent, client, branch, inbox, stopped, hookgen,
                 g, hostVars, history>>

(* _state["gen"] = g, after the reseed. *)
SetGen(v, p, t) ==
  /\ Runs(v, p) /\ At(v, p, t, "set")
  /\ hookgen' = [hookgen EXCEPT ![v][p] = g[v][p][t]]
  /\ Goto(v, p, t, Return(t))
  /\ UNCHANGED <<used, forkgen, agent, client, branch, inbox, stopped, rng, g,
                 hostVars, history>>

(* The wrapped function returns a value of the process's stream. *)
Draw(v, p) ==
  /\ Runs(v, p) /\ At(v, p, "caller", "call")
  /\ Goto(v, p, "caller", "app")
  /\ UNCHANGED <<used, forkgen, agent, client, branch, inbox, stopped, hookgen,
                 rng, g, hostVars, history>>

MaybeReseed(v, p, t) ==
  ReadGen(v, p, t) \/ Compare(v, p, t) \/ Reseed(v, p, t) \/ SetGen(v, p, t)

-----------------------------------------------------------------------------
(* The guest agent: one request at a time. *)

Asked(v, m) == agent[v] = "accept" /\ inbox[v] # << >> /\ Head(inbox[v]) = m
Accept(v) == inbox' = [inbox EXCEPT ![v] = Tail(@)]

(* SIGSTOP the workload, sync the disks. *)
AgentQuiesce(v) ==
  /\ Live(v) /\ Asked(v, "QUIESCE")
  /\ Accept(v)
  /\ stopped' = [stopped EXCEPT ![v] = {Root}]
  /\ UNCHANGED <<used, forkgen, agent, client, branch, hookgen, rng, pc, g,
                 hostVars, history>>

(* Mutant: the workload is released before the generation changes. *)
AgentBranchReleases(v) ==
  /\ Live(v) /\ Asked(v, "FORKED")
  /\ Accept(v)
  /\ branch' = [branch EXCEPT ![v] = v]
  /\ client' = [client EXCEPT ![v] = v]
  /\ agent' = [agent EXCEPT ![v] = "bump"]
  /\ stopped' = [stopped EXCEPT ![v] = {}]
  /\ UNCHANGED <<used, forkgen, hookgen, rng, pc, g, hostVars, history>>

(* FORKED, first part: the branch context is written. *)
AgentBranch(v) ==
  /\ Live(v) /\ Asked(v, "FORKED")
  /\ Accept(v)
  /\ branch' = [branch EXCEPT ![v] = v]
  /\ client' = [client EXCEPT ![v] = v]
  /\ agent' = [agent EXCEPT ![v] = "bump"]
  /\ UNCHANGED <<used, forkgen, stopped, hookgen, rng, pc, g, hostVars, history>>

(* The write raises; main answers ERR and the workload stays held. *)
AgentBranchError(v) ==
  /\ Faults
  /\ Live(v) /\ Asked(v, "FORKED")
  /\ Accept(v)
  /\ answer' = [answer EXCEPT ![v] = "ERR"]
  /\ UNCHANGED <<used, guestVars, host, sid, ready, history>>

(* Mutant: the generation is rewritten unchanged. *)
AgentBumpNothing(v) ==
  /\ Live(v) /\ agent[v] = "bump"
  /\ agent' = [agent EXCEPT ![v] = "cont"]
  /\ UNCHANGED <<used, forkgen, client, branch, inbox, stopped, hookgen, rng, pc,
                 g, hostVars, history>>

(* _bump_gen *)
AgentBump(v) ==
  /\ Live(v) /\ agent[v] = "bump"
  /\ forkgen' = [forkgen EXCEPT ![v] = @ + 1]
  /\ agent' = [agent EXCEPT ![v] = "cont"]
  /\ UNCHANGED <<used, client, branch, inbox, stopped, hookgen, rng, pc, g,
                 hostVars, history>>

(* The write of the new generation raises: branch.json is the child's, the *)
(* generation and the workload are as they were, and main answers ERR.     *)
AgentBumpError(v) ==
  /\ Faults
  /\ Live(v) /\ agent[v] = "bump"
  /\ agent' = [agent EXCEPT ![v] = "accept"]
  /\ answer' = IF client[v] = v THEN [answer EXCEPT ![v] = "ERR"] ELSE answer
  /\ UNCHANGED <<used, forkgen, client, branch, inbox, stopped, hookgen, rng, pc,
                 g, host, sid, ready, history>>

(* Mutant: the agent does not answer. *)
AgentContSilent(v) ==
  /\ Live(v) /\ agent[v] = "cont"
  /\ stopped' = [stopped EXCEPT ![v] = {}]
  /\ agent' = [agent EXCEPT ![v] = "accept"]
  /\ UNCHANGED <<used, forkgen, client, branch, inbox, hookgen, rng, pc, g,
                 hostVars, history>>

(* SIGCONT the workload, then answer READY on the connection the request   *)
(* came by.  A connection copied by a snapshot is dead in the copy.        *)
AgentCont(v) ==
  /\ Live(v) /\ agent[v] = "cont"
  /\ stopped' = [stopped EXCEPT ![v] = {}]
  /\ agent' = [agent EXCEPT ![v] = "accept"]
  /\ answer' = IF client[v] = v THEN [answer EXCEPT ![v] = "READY"] ELSE answer
  /\ UNCHANGED <<used, forkgen, client, branch, inbox, hookgen, rng, pc, g,
                 host, sid, ready, history>>

-----------------------------------------------------------------------------
(* The engine's requests. *)

Idle(v) == agent[v] = "accept" /\ inbox[v] = << >>
Send(v, m) == inbox' = [inbox EXCEPT ![v] = Append(@, m)]

(* snapshot_instance, on an instance whose row exists: a new snapshot id,  *)
(* then QUIESCE.                                                           *)
StartSnapshot(v, s) ==
  /\ Live(v) /\ host[v] = "idle"
  /\ v = Genesis \/ ready[v] # "none"
  /\ s \in Snaps \ used
  /\ \A u \in VMs : sid[u] # s
  /\ host' = [host EXCEPT ![v] = "quiescing"]
  /\ sid' = [sid EXCEPT ![v] = s]
  /\ UNCHANGED <<used, guestVars, answer, ready, history>>

Quiesce(v, s) == StartSnapshot(v, s) /\ Send(v, "QUIESCE")

(* The request does not reach the agent; the exception is swallowed. *)
QuiesceUnreachable(v, s) ==
  Faults /\ StartSnapshot(v, s) /\ UNCHANGED inbox

(* What slot y gets when the guest of slot x is copied to it. *)
CopyGuest(x, y) ==
  /\ used' = used \cup {y}
  /\ forkgen' = [forkgen EXCEPT ![y] = forkgen[x]]
  /\ agent' = [agent EXCEPT ![y] = agent[x]]
  /\ client' = [client EXCEPT ![y] = client[x]]
  /\ branch' = [branch EXCEPT ![y] = branch[x]]
  /\ stopped' = [stopped EXCEPT ![y] = stopped[x]]
  /\ hookgen' = [hookgen EXCEPT ![y] = hookgen[x]]
  /\ rng' = [rng EXCEPT ![y] = rng[x]]
  /\ pc' = [pc EXCEPT ![y] = pc[x]]
  /\ g' = [g EXCEPT ![y] = g[x]]

(* pause, /snapshot/create, resume: the guest does not run in between.  It *)
(* happens once QUIESCE is answered, or has timed out.  Nothing is sent to *)
(* the agent afterwards.                                                   *)
Snapshot(v) ==
  /\ Live(v) /\ host[v] = "quiescing"
  /\ Idle(v) \/ Faults
  /\ CopyGuest(v, sid[v])
  /\ host' = [host EXCEPT ![v] = "idle"]
  /\ sid' = [sid EXCEPT ![v] = None]
  /\ UNCHANGED <<inbox, answer, ready, history>>

(* fork_snapshot restores the image into a new VM, which runs at once. *)
Restore(s, v) ==
  /\ s \in Snaps \cap used
  /\ v \in VMs \ used
  /\ CopyGuest(s, v)
  /\ host' = [host EXCEPT ![v] = "restored"]
  /\ base' = [base EXCEPT ![v] = forkgen[s]]
  /\ sealed' = [sealed EXCEPT ![v] = Root \in stopped[s] /\ agent[s] = "accept"]
  /\ mine' = [mine EXCEPT ![v] = [p \in Procs |-> FALSE]]
  /\ UNCHANGED <<inbox, sid, answer, ready>>

SendForked(v) ==
  /\ Live(v) /\ host[v] = "restored"
  /\ host' = [host EXCEPT ![v] = "forking"]
  /\ Send(v, "FORKED")
  /\ UNCHANGED <<used, guestVars, sid, answer, ready, history>>

Record(v, r) ==
  /\ ready' = [ready EXCEPT ![v] = r]
  /\ host' = [host EXCEPT ![v] = "idle"]
  /\ UNCHANGED <<used, guestVars, inbox, sid, answer, history>>

ForkedAnswered(v) ==
  /\ Live(v) /\ host[v] = "forking" /\ answer[v] # "none"
  /\ Record(v, answer[v])

(* Mutant: a failed request counts as success. *)
ForkedFailsReady(v) ==
  /\ Faults
  /\ Live(v) /\ host[v] \in {"restored", "forking"}
  /\ Record(v, "READY")

(* The agent cannot be reached, or does not answer in time: the row of the *)
(* child says ERR.  A request already sent may still be served later.      *)
ForkedFails(v) ==
  /\ Faults
  /\ Live(v) /\ host[v] \in {"restored", "forking"}
  /\ Record(v, "ERR")

-----------------------------------------------------------------------------
Hook(v, p) ==
  \/ HookBaseline(v, p)
  \/ HookImport(v, p)
  \/ \E t \in Threads : MaybeReseed(v, p, t)
  \/ Draw(v, p)

Agent(v) ==
  \/ AgentQuiesce(v) \/ AgentBranch(v) \/ AgentBranchError(v)
  \/ AgentBump(v) \/ AgentBumpError(v) \/ AgentCont(v)

Engine(v) ==
  \/ \E s \in Snaps : Quiesce(v, s) \/ QuiesceUnreachable(v, s) \/ Restore(s, v)
  \/ Snapshot(v) \/ SendForked(v) \/ ForkedAnswered(v) \/ ForkedFails(v)

Next == \E v \in VMs : (\E p \in Procs : Hook(v, p)) \/ Agent(v) \/ Engine(v)

Spec == Init /\ [][Next]_vars

(***************************************************************************)
(* The engine's thread runs on, the agent loops, the poller wakes every    *)
(* 2 ms.  A client need not snapshot or fork, an application need not call *)
(* the hook.                                                               *)
(***************************************************************************)
Fairness ==
  \A v \in VMs :
    /\ WF_vars(Agent(v))
    /\ WF_vars(Snapshot(v))
    /\ WF_vars(SendForked(v))
    /\ WF_vars(ForkedAnswered(v))
    /\ \A p \in Procs :
         /\ WF_vars(HookBaseline(v, p) \/ HookImport(v, p))
         /\ WF_vars(MaybeReseed(v, p, "poller"))

FairSpec == Spec /\ Fairness

-----------------------------------------------------------------------------
(* Properties. *)

Bumped(v) == v = Genesis \/ forkgen[v] > base[v]

(***************************************************************************)
(* A wrapped call that read the present generation after the fork bumped   *)
(* it returns a value of a stream seeded in this VM, whatever the backup   *)
(* poller did in between and wherever the threads were when the snapshot   *)
(* was taken: _state["gen"] catches up with forkgen only after a reseed.   *)
(***************************************************************************)
FreshCalls ==
  \A v \in VMs, p \in Procs :
    /\ Live(v) /\ Bumped(v)
    /\ pc[v][p]["caller"] = "call"
    /\ g[v][p]["caller"] = forkgen[v]
    => rng[v][p] = v

(***************************************************************************)
(* A VM restored from a quiesced guest keeps the workload's root process   *)
(* stopped until its own generation has been bumped.                       *)
(***************************************************************************)
HeldUntilBumped ==
  \A v \in VMs : Live(v) /\ sealed[v] /\ ~Bumped(v) => Root \in stopped[v]

(***************************************************************************)
(* What holds of the zero window (guest_agent.py: the first post-fork call *)
(* reseeds before producing any value): in such a VM the root process      *)
(* draws from an inherited stream at most once, in the call that was in    *)
(* flight, past its generation check, when the snapshot was taken.         *)
(***************************************************************************)
OnlyInFlightCallIsStale ==
  \A v \in VMs :
    /\ Live(v) /\ sealed[v] /\ mine[v][Root]
    /\ pc[v][Root]["caller"] = "call"
    => rng[v][Root] = v

(***************************************************************************)
(* READY is recorded for a child only after the whole divergence protocol: *)
(* the generation is bumped and the branch context is the child's own, not *)
(* the one inherited from its parent.                                      *)
(***************************************************************************)
ReadyMeansDiverged ==
  \A v \in VMs : ready[v] = "READY" => Bumped(v) /\ branch[v] = v

(***************************************************************************)
(* Every restored VM is recorded, READY or ERR, however its snapshot was   *)
(* taken and whatever is lost: the engine never waits for an answer that   *)
(* cannot come.                                                            *)
(***************************************************************************)
ForkSettles == \A v \in VMs \ {Genesis} : v \in used ~> ready[v] # "none"

(***************************************************************************)
(* Once the child is READY its root process gets a stream of its own even  *)
(* if the application never calls a wrapped function, unless a snapshot    *)
(* stops it first.                                                         *)
(***************************************************************************)
PollerReseeds ==
  \A v \in VMs :
    ready[v] = "READY" ~> rng[v][Root] = v \/ Root \in stopped[v]

(***************************************************************************)
(* A snapshot pauses the workload (FR1.2): the workload of the source VM   *)
(* runs again once the engine is done with it.                             *)
(***************************************************************************)
SourceResumes ==
  \A v \in VMs :
    Live(v) /\ Root \in stopped[v] /\ host[v] = "idle" ~> Root \notin stopped[v]
=============================================================================
