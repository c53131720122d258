# Klados in TLA+

Klados snapshots a running agent in a Firecracker microVM and forks the snapshot into parallel
VMs. This directory models what is hard to test in it: the protocol that makes the forks of a guest
diverge, the engine's concurrent requests over SQLite and its VMs, its metering and its keys, the
content-addressed store of memory images, the programs that use the engine, and the spikes that run
the fork protocol on a host. TLC checks small instances; TLAPS proves the safety properties for every
size.

## 1. The system

| Component | Source (`spikes/`) | State | Operations |
|---|---|---|---|
| RNG hook | `guest/sitecustomize.py` | `_state["gen"]`, the process's PRNG | `_maybe_reseed` by wrapped calls and by the 2 ms poller |
| Guest agent (PID 1) | `guest/guest_agent.py` | `forkgen`, `branch.json`, SIGSTOP of the workload | QUIESCE, FORKED, PING, CHECK, BROWSER_CHECK |
| Engine | `engine/kladosd.py` | `LIVE`, requests under way | `create_run`, `snapshot_instance`, `fork_snapshot`, `destroy_instance` |
| Timeline database | `engine/kladosd.py` (SQLite) | `runs`, `instances`, `snapshots` | one transaction per handler; `timeline` |
| Projects, keys | `engine/kladosd.py` | `projects`, `root.key` | `init_db`, `create_project`, `project_of_key`, `_require_owner` |
| Metering | `engine/kladosd.py` | `usage` rows | `_meter_tick` every 2 s |
| Chunk store | `storage/cas.py`, `s3.py` | `index`, `_pending`, chunk files, bucket | `put_file`, `_blocks`, `flush_s3`, `get` |
| Memory images | `engine/kladosd.py` | `mem`, `mem.tmp`, `mem.manifest` | `_chunk_mem`, `_reconstruct_mem` |
| Firecracker driver | `harness/fc.py` | VM processes, vsock sockets | spawn, boot, pause, snapshot, resume, load, kill, `vsock_request` |
| Fork spikes | `harness/spike_{b,c,g,h,i,j}*.py` | the VMs they started, their notes | base, snapshot, children, protocol, verdict |
| Browser workload | `guest/browser_workload.py` | DevTools socket, `browser_state`, `browser_token` | connect, evaluate, publish |
| Python SDK | `sdk/klados/__init__.py` | `Sandbox` and `Snapshot` objects | create, snapshot, fork, timeline, destroy, `__exit__` |
| UFFD page server | `uffd/src/main.rs` | page faults | serve one page |

Interaction. An HTTP thread of the engine owns a request from start to end. A snapshot sends
QUIESCE to the agent, pauses the VM, lets Firecracker write the image, copies the data disk,
resumes the VM, chunks the image and commits a row. A fork reconstructs the image, restores it
into n VMs, sends FORKED to each agent, and commits n rows. The hook is tied to the agent only by
the file `forkgen`. The metering thread reads `LIVE` and the tables beside the handlers. There are
two locks in all: SQLite's write lock, taken by the first write of a transaction, and `_store_lock`
around the chunk store's writes. The spikes use the driver directly, without the engine.

What is hard: a snapshot freezes every guest thread wherever it is, and the copy goes on from
there with another identity; handlers interleave at every database, VM and file operation; each
of these may fail, and no handler undoes what it did; the daemon may be killed between two
steps; a caller that times out does not stop the callee. `PROJECT.json` lists the hazards at their
lines.

What makes each component correct:

* hook and agent: no fork draws from a stream it shares with another VM; the workload is held
  until its generation is bumped; READY means diverged;
* engine: a per-run DAG of immutable snapshots, rows only for the owner, no killed or unbooted VM
  in `LIVE`, no VM left paused, every request answered;
* accounts and metering: a key anyone has learned works; a bill is what the project's own instances
  ran for;
* store: no manifest without its chunks, no fork from a partial or mixed image, no byte lost at a cut;
* SDK: objects name committed rows, a timeline can be drawn, a program without errors leaves nothing;
* spikes and browser workload: every child is a branch of its own, and a good verdict means what it
  says.

## 2. Modules

| Module | Models |
|---|---|
| `ForkProtocol` | hook, agent, and the engine's requests to them |
| `Timeline` | abstract specification: the database as a sequence of transactions |
| `Engine` | the handlers step by step; extends `Timeline`, which it implements |
| `Metering` | the metering thread composed with `Engine` |
| `Accounts` | bootstrap, keys and authentication, with several daemons |
| `ChunkStore` | chunk store, S3 and image reconstruction |
| `Chunking` | `_blocks` as pure operators, driven by `put_file` |
| `Clients` | a program that uses the SDK against the server's transactions of `Timeline` |
| `Branches` | abstract specification: what a branch of a fork is told and reported |
| `Harness` | the fork spikes over VMs, sockets and agents; implements `Branches` |
| `Browser` | the browser workload, Chrome's socket, and the verdict of spike j |
| `ForkProtocolProofs`, `TimelineProofs`, `AccountsProofs`, `ClientsProofs`, `BrowserProofs`, `HarnessProofs` | theorems about the module of that name |
| `EngineProofs` | theorems about `Engine` and `Metering` |
| `ChunkStoreProofs` | theorems about `ChunkStore` and `Chunking` |
| `MC*` | instances for TLC |

**ForkProtocol.** A snapshot copies a whole guest, so guest state is kept per *slot*: a VM is a slot that
runs, a snapshot a slot that only stores. `CopyGuest` is both `/snapshot/create` and `/snapshot/load`. The
PRNG of a process is named by the VM whose `os.urandom` seeded it; the random values themselves are
abstracted away. `_maybe_reseed` is four steps (`ReadGen`, `Compare`, `Reseed`, `SetGen`), because two
threads of a process run it without a lock and a snapshot can fall between any two; `Draw` is the wrapped
call. `FORKED` is three steps of the agent, with error exits at the write of `branch.json` and at the
bump. `Faults` lets requests get lost, fail or time out and be served late. `base`, `sealed` and `mine`
are history variables for the properties.

**Engine.** One action per stretch of a handler between two operations other threads can see. `req[r]`
holds a thread's next step and its local variables, such as the parent a snapshot read before it captured
the VM. `Abort` is an exception that ends a request: SQLite rolls back, the VM stays as it is. `VmExits`
is a firecracker that ends by itself, since the guest panics or reboots (`panic=1 reboot=k`): the engine
does not notice. `Crash` empties `LIVE` and drops all requests; the firecracker processes survive or die
with the daemon. `disk` counts guest writes to `/data`, `memAt` and `diskAt` record the version each half
of a snapshot saw. Reading `LIVE`, the ownership check and the SELECT at the start of a handler are one
step: rows are never deleted, and ids are never reused.

**Metering** extends `Engine`: `Handle` is any step of a handler, `Exit` a VM that exits, `Restart` a
crash. A tick is a sample of `LIVE`, a lookup per instance and a commit, which needs the write lock if
anything is owed and is dropped if a fork holds it too long (`TickLost`). `Pass` counts seconds; `up`,
`charged`, `late` and `early` are history variables: the time an instance was in `LIVE`, the time it was
charged for, the part of it charged after its row had become DESTROYED, and the instances destroyed before
their boot ended. RAM seconds are a multiple of vCPU seconds and are left out. There are finitely many
instance ids (an id is twelve hexadecimal digits), so that what a project's instances were charged has a
sum.

**Accounts.** `init_db` runs before the port is bound, so the steps of two daemons on one home
interleave: SELECT, INSERT and commit, open (which truncates), write, bind. `Kill` may fall anywhere.
A key stands for its hash and its project. `told` are the keys clients have learned, from `root.key`
or from an answer.

**ChunkStore.** A chunk stands for its hash. A chunk file is `"empty"` between open and write. The names
`mem` and `mem.tmp` refer to inodes, so that a rename by one thread and a truncation by another have their
real effect; `Opens` truncates the file of that name or takes any unused inode. A flush hands its chunks
to a pool of `Workers` threads (16 in the code); the first upload that raises ends `list(ex.map(...))`,
which cancels the ones not yet started (`CancelUploads`): these are in the index, and neither uploaded nor
reported. `DropHotCache` is what `demo_s3.sh` does between requests. Blocks of a file become visible one
at a time; host power loss is not modelled, a killed daemon is.

**Chunking.** `FixedBlocks` is closed-form; `GearLoop(data)[i]` is what the loop of CDC mode has after
i bytes of one buffer, one `GearStep` per byte, with the hash kept modulo `2^Width` as the 64-bit mask
does, and `CdcBlocks` adds the tail. `PutBytes` is one turn of `put_file`'s read loop. The reference
definition in `CutsAreLocal` knows neither the hash state nor the loop over the bytes: it looks at a
`Window` of the last `MaskBits` bytes of a chunk (13 in the code, with chunks of 2048 bytes at least).

**Clients.** A handler thread's transaction is one step (`Engine` has the steps before it, and is
shown to implement the same `Timeline`), except that a snapshot reads its parent earlier, and that
`timeline` is two SELECTs. A client waits for one thread; `TimeOut` leaves the thread at work, and
`Discard` drops its answer. `__exit__` swallows `KladosError` alone, so a failed destroy is hidden
and a timeout is not.

**Harness.** A spike is a sequential driver (`pc`, and `k`, the VM it deals with). The snapshot
contains the host path of the base's vsock socket. `Path` says which socket a VM binds: g and h unlink
the one path before each child, i and j mount the child's directory over it, b and c have no vsock; i's
base binds a fixed path of the host, which two spikes i share. A request goes to whoever bound the
path; it may be served after the spike gave up on it. The agent and the workload are `ForkProtocol`'s,
reduced to: held, reseeded, inside a call at the stop. `Sample` is a value drawn from the frozen state
reaching the console; values that are a child's own need no step. `Exit` is a VM that dies by itself.

**Browser.** A frame crosses the socket in two parts, header and body, since the 20 s timeout of a read
may fall between; what is left is then read as the next header (`Garbage`), which consumes an
arbitrary amount of the stream and either parses as a control frame or raises. Chrome may stop
answering or exit at any time, and may answer without a value (an error of the protocol, a thrown
expression): `ev` then returns `None`, which is published like a value; the answer to the session
expression is not looked at. `Fork` is the snapshot: base and fork are one behaviour, since the fork
continues the base's. `probe` is what the spike read with BROWSER_CHECK in the fork; `top`, and the two
numbers in `fork`, are histories.

## 3. Runs

Passing. The number of distinct states is in brackets.

| Run | Instance | Shows |
|---|---|---|
| `fork` (96k) | source VM, one fork, one snapshot, faults, fairness | type invariant; a call that saw the bumped generation is fresh; a quiesced workload is held until the bump; only the call in flight can be stale; READY means diverged; every fork settles; the poller reseeds |
| `engine` (377k) | 2 projects, 2 threads, boot failures, VMs that exit, SQLite timeouts, crashes | DAG, immutability, tenancy, `LIVE`, paused VMs; `Engine` implements `Timeline` |
| `engine_live` (418k) | 2 threads, all failures, fairness | every request ends |
| `meter` (2.3M) | 2 projects, 2 threads, 2 instances, a tick every second | no instance is charged for more than its time in `LIVE` and one interval; a bill is the sum of its own instances' charges; a destroyed instance is charged for one more interval at most, but for one destroyed while it booted |
| `accounts` (1.8k) | 2 daemons, 4 keys, kills | every key learned is accepted; `root.key` is usable unless a kill cut the bootstrap |
| `store` (367k) | 2 threads, 2 snapshots that share a chunk, failing writes, cancelled uploads, kills | a chunk a manifest lists and S3 lacks had a write that raised or an upload that was cancelled; an unreadable chunk is one of these or has a torn file; images are never mixed; the image is whole unless two threads reconstructed it at once |
| `chunking` (57k) | every file of up to 8 bytes over 3 values, both modes | the chunks give back the file, the counters are right, and the cuts are where the reference has them |
| `clients` (2.5M) | 2 client threads, 2 handler threads, 2 runs, 2 instances, 2 snapshots, errors and timeouts | objects name rows of the right run; a timeline has what the program knew and the parents of what it lists; a program that saw no exception left nothing it does not know of |
| `browser` (2.1M) | 9 DevTools messages, 2 attempts to connect, a fork | what is published is None or was the page's; heartbeats advance; what a PASS rests on is not older than the fork; a hung Chrome is seen |
| `harness` (225k) | each spike with 2 children beside a spike c, and two spikes i; one VM exits | `Harness` implements `Branches`; no child fails on another's socket; a value of the frozen state comes from a call in flight or from a crossed QUIESCE; good verdicts are sound; every spike ends |

Violated by what the code does, against what the repository says (`findings`):

| Run | Counterexample |
|---|---|
| `fork_source_resumes` | nothing sends SIGCONT to the source's workload after a snapshot |
| `engine_consistent` | concurrent snapshots of one instance: the first resume lets the guest write before the second copies the disk |

**What does not hold.** The invariants above are as strong as the code allows; the exceptions they
name are real behaviours of it.

* SIGSTOP may land after `_maybe_reseed` and before the wrapped call: the first value in each fork is
  then an inherited one (`OnlyInFlightCallIsStale`, `FrozenMeansCrossed`).
* A snapshot taken although QUIESCE failed, or while the guest is inside FORKED, has a workload that is
  not held: its forks draw inherited values until they are bumped (`sealed` in `HeldUntilBumped`).
* An instance destroyed while it boots has a DESTROYED row, enters `LIVE` afterwards and is charged
  until the daemon ends (`early` in `DestroyEndsCharges`).
* `_meter_tick` charges what was in `LIVE` when it sampled and never reads the state of a row, so a
  destroyed instance may be charged once more (`late` in `DestroyEndsCharges`).
* A VM that exits by itself stays in `LIVE`, RUNNING and charged until it is destroyed (`"exited"` in
  `LiveIsUp`).
* After a failed upload or a failed chunk write the hash stays in the index, and so do those of the
  uploads cancelled with the one that failed, which nothing reports; the next snapshot with
  that chunk skips it and publishes a manifest that cannot be restored from S3 (`MissingMeansFailed`).
* A kill between open and write leaves an empty chunk file that counts as stored
  (`UnreadableMeansTorn`).
* Two forks of a snapshot share `mem.tmp`; a partial image can be renamed and loaded
  (`LoneForkLoadsWholeImage` is about a fork that reconstructs alone).
* A daemon killed between the commit of the default project and the end of the write of `root.key`
  leaves a database no one has a key for (`cut` in `RootKeyAuthenticates`).
* The two SELECTs of `timeline` are two snapshots: an instance may point at a snapshot that is not
  listed (`TimelineIsClosed`).
* A call that times out in the SDK is served all the same, and `__exit__` hides a failed destroy: both
  leave VMs the program has no handle on (`raised` and `hidden` in `QuietMeansClean`).
* An answer without a value replaces a good line by one with `None`, and the line "token-set" is written
  whatever the session expression returned (`PublishedIsReal` allows `None`, and is about the lines of the
  rounds).
* If Chrome exits during the websocket upgrade `WS.__init__` reads the end of the stream for ever
  (`spin` in `FailsVisibly`).
* Two spikes i on one host cross: one unlinks the other's base socket and receives its QUIESCE
  (`NoCollision`, `crossed` in `FrozenMeansCrossed`).
* A spike whose API call or load fails leaves the VMs before it running; `vsock_request` returns `{}`
  on an end of stream, and g and i look at the status of FORKED only; the "clean" verdicts compare the
  samples there are, so that a child that printed none passes.
* Spike j says that an advancing heartbeat means "Chrome is alive and responsive AFTER the fork"
  (`spike_j_browser.py:7`). A round whose answers were in the socket when the snapshot was taken is
  published by the fork between the two checks, so PASS is given although Chrome has hung since the restore
  (`fork.beat > fork.top` in `PassIsRecent`). And line 6 says that the token shows the JS heap survived,
  but `heap_ok` compares the file `browser_token`; the `token=` the page returned is parsed and not used,
  so PASS is given with `token=None`.
* In CDC mode every read buffer ends a chunk, so that cuts shift with the place of a change in the
  file (`CutsAreLocal` allows a cut at a buffer's end).

**Bounds.** Two VMs suffice for the fork protocol's cases: a fork meets only its parent's state; the
theorem covers nested forks and any number of processes. Two handler threads meet in every pair of
steps; three instances let a fork of two race with a genesis. `MaxForks` and `MaxKids` bound the
children of one fork, `MaxWrites` the guest's disk writes, `MaxBlocks` the blocks of an image;
`forkgen` is bounded by the finite set of VMs, the clock by that of snapshots. Two chunks and images of
one and two blocks give a shared and an unshared block. Ids and keys are finite sets: a request needs a
fresh one, so requests run out rather than repeat. `MaxUp` = `Interval` = 1 lets a tick
fall before and after every step of a handler, and an instance be charged ahead of its time and caught up
with. `Workers` = 1 lets one upload raise and the other be cancelled with two chunks. Two runs let an
object be of the wrong one. Four keys let two bootstraps and two projects happen. In `Chunking`
a buffer is three blocks and holds more than one greatest chunk, files cross it, and the hash is one bit
wider than the mask, so that it wraps. `MaxId` = 9 gives the three setup messages and two heartbeat
rounds; ids beyond it are sent only when no one answers. Two children let a child meet another's socket
and a late request; `MaxExits` = 1 exit may hit any VM at any point.

**Symmetry** is used in safety runs only, over sets whose members no definition tells apart.

**Fairness.** `ForkProtocol`: the agent's loop, the poller's loop, and the engine's thread inside
a request go on; no fairness for clients or for the application's calls. `Engine`: a thread in a
request goes on (weak fairness of its steps): all waits in the handlers have timeouts. `Browser`: the
workload's process goes on, all its reads have a timeout; Chrome owes nothing. `Harness`: each spike's
process goes on, for the same reason; VMs and agents owe nothing. Deadlock checking is off where a
system may come to an end: the ids of `ForkProtocol` and `Browser`, a finished spike, a file that is
read.

Each module with state has a type invariant. The runs keep those of `ForkProtocol`, `Engine` and
`ChunkStore`; those of the other modules (`MeterOK`, `TypeOK`) are part of the inductive invariants of
section 4, of which TLC has checked every one on the instances above.

## 4. Proofs

Every safety invariant and action property of the passing runs is a theorem for every value of the
constants. `tlapm` checks them under the `ASSUME`s of the modules: the sets of ids are disjoint, that of
the instances is finite where they are summed over, bounds are naturals, the sizes of `Chunking` are
ordered as the code's are (the mask has no more bits than the hash or the least chunk has bytes, a buffer
is a multiple of a block), and the sentinels (`None`, `Baked`, the two file
contents `"absent"` and `"empty"` of `Accounts`) are none of the values they stand beside. None of the
properties is inductive as it stands; what each needs besides:

**ForkProtocol.** `SafeInv` carries `TypeCorrect` and `CallsAreFresh`. `GenBounds`: in every slot,
images included, no generation a hook or a thread has read exceeds `forkgen`, so that after a restore the
bump leaves all of them behind. `FreshInv`: in a VM whose generation has been bumped, a hook, or a thread
past its reseed, that has the present generation goes with a stream of this VM. `ForkInv` carries the
promises about a fork: in a VM restored from a quiesced guest the agent is not at its release before the
bump (`RootIsHeld`); it releases and answers for a connection of this VM only with the context written and
the generation bumped, and no restored VM inherits a connection that carries its own name
(`ReadyIsDiverged`); a generation newer than the restored one is recorded only with a stream of this VM,
and a call that began here has read such a generation (`StaleOnlyInFlight`).

**Timeline, Engine.** `TimelineDAG` and `TimelineImmutable` are about the abstract specification.
`EngineRefinesTimeline`: every step of every handler is a transaction of `Timeline` or leaves the tables
alone. `EngineInv` carries what a snapshot request read: the parent it holds is a snapshot of the run of
its instance, which stays true because committed rows keep their run (`Immutable`). `EngineDAG` and
`EngineImmutable` follow through the refinement. `LiveVmIsUp` is by `LiveInv`: an id is booted at most
once, by the request that drew it; ids to be booted belong to one request and have no VM; what a destroy
is about to kill has been booted and is out of `LIVE`. So a VM in `LIVE` that is not up has exited by
itself. `PausedVmIsAttended` assumes `~ApiFaults`, as its
run does: with faults it is false. `RowsAreOwn` is by `OwnerInv`: the answer of `_require_owner`, asked
at the start of a request, is still right when its transaction commits.

**Metering.** `ChargesFollowUptime` is by `UptimeInv`: while the thread sleeps, what an instance of `LIVE`
has been charged ahead of its uptime is at most the time left to sleep, so it is gone when the next sample
is taken. `ChargesEndWithDestroy` is by `DoomedInv`, an instance that is destroyed, or about to be, is out
of `LIVE` for good or had its destroy before its boot, and `LateInv`: one that was charged after its row
had become DESTROYED is in no sample any more, so the tick that had sampled it before was the last.
`BillsAreCharges` is by `BillInv`: what a tick has accrued for a project is the sum of one interval for
each instance of the project it has looked up, each of which stands in its commit; an instance without a
row has been charged nothing, so that a row committed between two ticks leaves every sum as it is.

**Accounts.** `AccountsInv`: on both ways a key leaves the process that drew it, the file and the
answer, the commit of its project comes first (`ToldKeysAreValid`); as long as no daemon was cut off, a
project without a key in the file has a writer on its way (`RootKeyIsUsable`).

**ChunkStore.** `StoreInv` has a part for each theorem. `KeptInv`: a chunk of the index that is neither in
the bucket nor given up (its write raised, or its upload was cancelled) is in the hands of the thread that
holds `_store_lock`, and what a thread is about to publish is kept (`MissingHasFailed`). `HotInv`: an
empty chunk file is torn, or some thread is about to write it (`UnreadableIsTorn`). `InodeInv`: an inode
belongs to one snapshot, by a name or by an open descriptor, and holds blocks of it only (`BlocksAreOwn`).
`LoneInv`: a thread that reconstructs an image alone writes the file named `mem.tmp`, from the first block
on (`LoneForksLoadWhole`).

**Chunking.** `LoopInv`, an invariant of the loop over the bytes: the chunks cut so far flatten to what
lies before `start`, each keeps the rule, no cut was due in the open chunk, and the low `MaskBits` bits of
the hash are those of the window of all its bytes. The last is kept because a byte doubles the window and
adds its gear value (`WindowAppend`), and reducing modulo `2^Width` does not touch the low bits
(`RemainderOfMultiple`); from `MaskBits` bytes on the older ones contribute multiples of `2^MaskBits` only
(`WindowLow`), which is why the least size must not be smaller. `PutInv` lifts this to the file: all reads
but the last end at a multiple of the buffer (`ChunksRestoreFile`, `CutsStayLocal`).

**Clients.** Every step is a transaction of `Timeline` or leaves the tables alone, so that rows a
request or an answer names stay in their run. `ClientsInv` adds what a timeline holds after each of its
SELECTs (`HandlesNameRows`, `TimelineShowsWrites`, `TimelineCanBeDrawn`). `QuietInv`: as long as no call
has raised, somebody waits for every request, so an instance that runs is a sandbox of the program or on
its way to it, and a sandbox that does not run is closed or about to be (`QuietProgramIsClean`).

**Browser.** `BrowserInv`: Chrome answers in order, so every answer in the socket is older than what is
unanswered, and a body with the id awaited is the answer to the present expression wherever reading
resumes in the stream; the values gathered in a round are `None` or of this round
(`PublishedValuesAreReal`). The heartbeat awaited, or gathered, is the page's present one and exceeds all
published (`NewBeat`), which stays true because while a round has its heartbeat no other is left to
evaluate (`HeartbeatsAdvance`). The number in the file is `top`, so what a check in the fork reads is at
least what was published at the fork, and a number greater than another one read there was published
in the fork, hence is at least the page's at the fork (`PassIsNotStale`).

**Harness.** `HarnessInv` holds of each run by itself; a step of one run, or of a VM, leaves the others
in a `Frame` that keeps it. The sockets: the one path of a serial spike belongs to the VM it deals with,
a child's own path to that child, the baked path of the host to the base of a spike i that has booted
(`ChildrenDoNotCollide`). The requests: one to a base is never FORKED; one to a child is the only one in
its inbox, comes from its own spike and is about it. A child of a held snapshot is held or has reseeded
(`FrozenValuesAreExplained`). The children a spike is done with are down, so that a verdict is about what
does not change any more (`VerdictsAreSound`). `HarnessKeepsBranches` is the refinement: every step starts,
tells, notes or stops branches, or leaves them alone; it needs besides that a child a spike has come to
was started (`Spawned`).

**Sums, folds, loops.** The library's induction theorems take an operator as a parameter, which the
provers cannot instantiate. These proofs take a set instead: `LeastNat` (a set of naturals has a least
element) comes from the library's first-order theorem on well-founded relations, and gives
`IntervalInduction` and `FiniteInduction` for a set P of the indices, or of the subsets, at which the claim
holds. That a recursive function has the values its equation says is proved once, for recursions over an
interval (`RecursionDefined`, `RecursionUnique`), and used for `Total`, `FlattenSeq` and `GearLoop`; for
the sum over a set see `SumIsTable`. Powers of two are counted as sets of bits (`PowerNext`), since the
provers know nothing of exponentiation.

**Model-checked only.** Liveness, which is out of the prover's reach: `ForkSettles`, `PollerReseeds`,
`RequestsEnd`, `FailsVisibly`, `HarnessEnds`.

## 5. Not modelled

* Filesystem diff, `usage`, the measurement spikes a, e, f, `smoke.py` and `metrics.py`: they read,
  compute and print, and change no state. (`fs_diff` mounts its first disk before the `try`: if the second
  mount fails the first stays mounted, which no other operation sees.)
* The TypeScript SDK, the CLI and the timeline page make the Python SDK's HTTP calls and keep nothing
  between them.
* HTTP and API-socket framing, S3 request signing, compression: pure I/O and conversions no property
  is about.
* The UFFD handler: one loop that copies a page per fault from a read-only mapping; the engine does not
  use it, and its source leaves the protocol with Firecracker open ("MUST be reconciled").
* The hook's periodic mode reads no shared state. The setup scripts build images.
* Chrome, SQLite, Firecracker and S3 appear as the code uses them.

## 6. What is left

`PausedIsAttended` with faults: what a failed resume strands, and which request could still help.
