--------------------------- MODULE HarnessProofs ----------------------------
(***************************************************************************)
(* Proofs about Harness: for any number of spikes of any kind on one host, *)
(* any number of children, and VMs that exit at any time.                  *)
(***************************************************************************)
EXTENDS Harness, TLAPS, SequenceTheorems

(***************************************************************************)
(* Where a spike is.  Early are the steps up to the last load; a serial    *)
(* spike comes back to fork after each child.                              *)
(***************************************************************************)
Early == {"start", "api", "boot", "ping", "quiesce", "snap", "fork", "load"}

Driving(r) ==
  /\ pc[r] \in {"start", "boot", "ping", "quiesce", "snap"} => k[r] = 0
  /\ pc[r] \in {"load", "poll", "ask", "kill", "verdict", "done"} => k[r] > 0
  /\ pc[r] = "fork" => k[r] < Forks[r]
  /\ pc[r] \in {"ping", "quiesce", "ask"} => kind[r] \in Vsock
  /\ pc[r] = "quiesce" => kind[r] \in Tells
  /\ pc[r] = "poll" => kind[r] = "i"
  /\ kind[r] \in Serial /\ pc[r] \in {"verdict", "done"} => k[r] = Forks[r]
  /\ wait[r] # None => pc[r] \in {"ping", "quiesce", "ask"}
  /\ wait[r] = None => ans[r] = None
  /\ why[r] # None => pc[r] = "failed"
  /\ verdict[r] # None => pc[r] = "done"

(***************************************************************************)
(* Who has bound which socket.  The one path of a serial spike belongs to  *)
(* the VM it deals with; the baked path of the host to a base of a spike i *)
(* that has booted.                                                        *)
(***************************************************************************)
NotBound(r, n) ==
  \/ pc[r] \in Early /\ n > k[r]
  \/ pc[r] \in {"api", "load"} /\ n = k[r]
  \/ kind[r] \in Serial

Sockets(r) ==
  /\ sock[<<r, 0>>] # None => sock[<<r, 0>>] = IF kind[r] \in Serial THEN Cur(r) ELSE <<r, 0>>
  /\ pc[r] \in {"start", "api", "boot", "load"} /\ (kind[r] \in Serial \/ k[r] = 0)
       => sock[<<r, 0>>] = None
  /\ \A n \in 1..Forks[r] :
       /\ sock[<<r, n>>] # None => sock[<<r, n>>] = <<r, n>>
       /\ NotBound(r, n) => sock[<<r, n>>] = None

BakedSocket ==
  sock[Baked] # None =>
    \E q \in Runs :
      /\ sock[Baked] = <<q, 0>> /\ kind[q] = "i"
      /\ ~ (pc[q] \in {"start", "api", "boot"} /\ k[q] = 0)

(***************************************************************************)
(* The requests: one to a base comes from a base, and is never FORKED; one *)
(* to a child is the only one, comes from its own spike and is about it.   *)
(***************************************************************************)
Kind(r) == IF kind[r] \in Tells THEN "FORKED" ELSE "CHECK"

ToBase(q, v) == q.to = v /\ q.by[2] = 0 /\ q.what # "FORKED"

ToChild(q, v) == q.to = v /\ q.by = v /\ q.what = Kind(v[1])

Waiting(r) ==
  wait[r] # None =>
    /\ pc[r] = "ask" => ToChild(wait[r], Cur(r))
    /\ pc[r] # "ask" =>
         /\ wait[r].by = Cur(r) /\ wait[r].to[2] = 0 /\ ToBase(wait[r], wait[r].to)
         /\ wait[r].to # Cur(r) => r \in crossed
         /\ wait[r].what = "QUIESCE" <=> pc[r] = "quiesce"
    /\ ans[r] = "ERR" => wait[r].what = "FORKED"
    /\ ans[r] = "ok" /\ wait[r].what = "FORKED" => vm[Cur(r)].told = Cur(r)

(* A child not started yet, and one not asked yet. *)
NotSpawned(r, n) == n > k[r] /\ (kind[r] \in Serial \/ pc[r] \in Early)

NotAsked(r, n) ==
  \/ n > k[r] /\ (kind[r] \in Serial \/ pc[r] \in Early \cup {"poll", "ask"})
  \/ n = k[r] /\ pc[r] \in {"api", "load"}
  \/ n = k[r] /\ pc[r] = "ask" /\ wait[r] = None
  \/ kind[r] \notin Serial /\ pc[r] \in {"fork", "api", "load", "poll"}

Child(r, n) ==
  LET v == <<r, n>> IN
  /\ vm[v].told \in {None, v}
  /\ vm[v].inbox # << >> =>
       Len(vm[v].inbox) = 1 /\ ToChild(vm[v].inbox[1], v) /\ vm[v].told = None
  /\ report[v] = "READY" => vm[v].told = v
  /\ NotSpawned(r, n) => vm[v] = Off
  /\ NotAsked(r, n) => vm[v].inbox = << >> /\ vm[v].told = None /\ report[v] = None
  /\ pc[r] = "ask" /\ n >= k[r] => report[v] = None

Base(r) ==
  /\ \A j \in 1..Len(vm[<<r, 0>>].inbox) : ToBase(vm[<<r, 0>>].inbox[j], <<r, 0>>)
  /\ kind[r] \in Tells /\ r \notin crossed /\ Up(<<r, 0>>) =>
       /\ pc[r] = "quiesce" /\ ans[r] = "ok" => vm[<<r, 0>>].held
       /\ pc[r] = "snap" => vm[<<r, 0>>].held

(***************************************************************************)
(* A child of a snapshot that was taken of a held workload is held, or has *)
(* reseeded; and only a call of the snapshot can be under way in it.       *)
(***************************************************************************)
Frozen(r) ==
  kind[r] \in Tells /\ r \notin crossed =>
    /\ k[r] > 0 \/ pc[r] = "fork" => image[r].held
    /\ \A n \in 1..Forks[r] :
         /\ vm[<<r, n>>].on => vm[<<r, n>>].held \/ vm[<<r, n>>].fresh
         /\ vm[<<r, n>>].mid \/ vm[<<r, n>>].stale => image[r].mid

(***************************************************************************)
(* The children a spike is done with are down, so that the verdict is      *)
(* about what does not change any more.                                    *)
(***************************************************************************)
Finished(r, n) ==
  \/ pc[r] \in {"verdict", "done"}
  \/ kind[r] \in Serial /\ n < k[r]
  \/ kind[r] \in Serial /\ n = k[r] /\ pc[r] = "fork"

Over(r) == \A n \in 1..Forks[r] : Finished(r, n) => ~Up(<<r, n>>)

Witnessed(r) ==
  /\ r \in Together(vm) => r \in together
  /\ kind[r] = "i" /\ pc[r] \in {"verdict", "done"} /\ alive[r].still /\ AllReady(r)
       => r \in together

RunInv(r) ==
  /\ Driving(r) /\ Sockets(r) /\ Waiting(r) /\ Base(r)
  /\ \A n \in 1..Forks[r] : Child(r, n)
  /\ Frozen(r) /\ Over(r) /\ Witnessed(r)
  /\ why[r] = "inuse" => SharesBase(r)
  /\ verdict[r] = "works" => ForkWorked(r)

HarnessInv == TypeOK /\ BakedSocket /\ \A r \in Runs : RunInv(r)

-----------------------------------------------------------------------------
(* The VMs are pairs of a run and a number; the base has 0. *)
LEMMA Pairs ==
  /\ \A r \in Runs : Forks[r] \in Nat /\ Forks[r] > 0
  /\ \A r \in Runs : \A n \in 0..Forks[r] : <<r, n>> \in VMs /\ <<r, n>> \in Paths
  /\ \A r \in Runs : \A n \in 1..Forks[r] : <<r, n>> \in Branch /\ <<r, n>> \in Kids(r)
  /\ \A v \in VMs : v[1] \in Runs /\ v[2] \in 0..Forks[v[1]] /\ v = <<v[1], v[2]>>
  /\ \A v \in Branch : v \in VMs /\ v[2] \in 1..Forks[v[1]]
  /\ \A r \in Runs : \A v \in Kids(r) : v[1] = r /\ v[2] \in 1..Forks[r] /\ v = <<r, v[2]>>
  /\ Baked \in Paths /\ Baked \notin VMs /\ None \notin VMs
<1>1. \A r \in Runs : Forks[r] \in Nat /\ Forks[r] > 0
  BY HarnessAssumption
<1>2. \A r \in Runs : \A v \in Kids(r) : v[1] = r /\ v[2] \in 1..Forks[r] /\ v = <<r, v[2]>>
  BY DEF Kids
<1>3. \A r \in Runs : \A n \in 1..Forks[r] : <<r, n>> \in Branch /\ <<r, n>> \in Kids(r)
  BY DEF Kids, Branch
<1>4. \A v \in Branch : \E r \in Runs : v \in Kids(r)
  BY DEF Branch
<1>5. \A r \in Runs : \A n \in 0..Forks[r] : <<r, n>> \in VMs
  <2> SUFFICES ASSUME NEW r \in Runs, NEW n \in 0..Forks[r] PROVE <<r, n>> \in VMs
    OBVIOUS
  <2>1. CASE n = 0
    BY <2>1 DEF VMs
  <2>2. CASE n # 0
    <3>1. n \in 1..Forks[r]
      BY <1>1, <2>2
    <3> QED
      BY <1>3, <3>1 DEF VMs
  <2> QED
    BY <2>1, <2>2
<1>6. \A v \in VMs : v[1] \in Runs /\ v[2] \in 0..Forks[v[1]] /\ v = <<v[1], v[2]>>
  <2> SUFFICES ASSUME NEW v \in VMs
               PROVE  v[1] \in Runs /\ v[2] \in 0..Forks[v[1]] /\ v = <<v[1], v[2]>>
    OBVIOUS
  <2>1. CASE v \in Branch
    BY <1>1, <1>2, <1>4, <2>1
  <2>2. CASE v \in Runs \X {0}
    BY <1>1, <2>2
  <2> QED
    BY <2>1, <2>2 DEF VMs
<1>7. \A v \in Branch : v \in VMs /\ v[2] \in 1..Forks[v[1]]
  BY <1>2, <1>4 DEF VMs
<1>8. Baked \in Paths /\ Baked \notin VMs /\ None \notin VMs
  BY HarnessAssumption DEF Paths
<1> QED
  BY <1>1, <1>2, <1>3, <1>5, <1>6, <1>7, <1>8 DEF Paths

(* The fields of a guest. *)
LEMMA GuestFields ==
  ASSUME NEW g \in Guest
  PROVE  /\ g.proc \in {"none", "up", "dead"} /\ g.on \in BOOLEAN /\ g.held \in BOOLEAN
         /\ g.fresh \in BOOLEAN /\ g.mid \in BOOLEAN /\ g.told \in VMs \cup {None}
         /\ g.stale \in BOOLEAN /\ g.inbox \in Seq(Request)
BY DEF Guest

LEMMA OffIsGuest ==
  /\ Off \in Guest /\ Off.proc = "none" /\ Off.on = FALSE /\ Off.held = FALSE
  /\ Off.fresh = FALSE /\ Off.mid = FALSE /\ Off.told = None /\ Off.stale = FALSE
  /\ Off.inbox = << >>
BY DEF Off, Guest

(***************************************************************************)
(* A step after which the VM is as it was, or was killed; a child that is  *)
(* killed keeps what is on its console.                                    *)
(***************************************************************************)
Weaker(v) ==
  \/ vm'[v] = vm[v]
  \/ /\ Up(v) /\ vm'[v].proc = "dead" /\ vm'[v].on = FALSE /\ vm'[v].held = FALSE
     /\ vm'[v].mid = FALSE /\ vm'[v].inbox = << >>
     /\ vm'[v].told = vm[v].told /\ vm'[v].stale = vm[v].stale

LEMMA KilledIsWeaker ==
  ASSUME TypeOK, NEW S, vm' = Killed(S)
  PROVE  /\ vm' \in [VMs -> Guest]
         /\ \A v \in VMs : Weaker(v) /\ (v \notin S => vm'[v] = vm[v])
         /\ \A v \in VMs : v \in S => ~Up(v)'
<1> DEFINE K(v) == [Off EXCEPT !.proc = "dead", !.told = vm[v].told, !.stale = vm[v].stale]
<1>1. \A v \in VMs : vm[v] \in Guest
  BY DEF TypeOK
<1>2. \A v \in VMs : /\ K(v) \in Guest
                     /\ K(v).proc = "dead" /\ K(v).on = FALSE /\ K(v).held = FALSE
                     /\ K(v).mid = FALSE /\ K(v).inbox = << >>
                     /\ K(v).told = vm[v].told /\ K(v).stale = vm[v].stale
  <2> SUFFICES ASSUME NEW v \in VMs, NEW t \in VMs \cup {None}, NEW s \in BOOLEAN,
                      t = vm[v].told, s = vm[v].stale
               PROVE  /\ K(v) \in Guest
                      /\ K(v).proc = "dead" /\ K(v).on = FALSE /\ K(v).held = FALSE
                      /\ K(v).mid = FALSE /\ K(v).inbox = << >>
                      /\ K(v).told = vm[v].told /\ K(v).stale = vm[v].stale
    BY <1>1, GuestFields
  <2>1. K(v) = [proc |-> "dead", on |-> FALSE, held |-> FALSE, fresh |-> FALSE,
                mid |-> FALSE, told |-> t, stale |-> s, inbox |-> << >>]
    <3>1. K(v) = [Off EXCEPT !.proc = "dead", !.told = t, !.stale = s]
      OBVIOUS
    <3> HIDE DEF K
    <3> QED
      BY <3>1 DEF Off
  <2> HIDE DEF K
  <2>2. /\ K(v).proc = "dead" /\ K(v).on = FALSE /\ K(v).held = FALSE
        /\ K(v).mid = FALSE /\ K(v).inbox = << >> /\ K(v).told = t /\ K(v).stale = s
    BY <2>1
  <2>3. K(v) \in Guest
    BY <2>1 DEF Guest
  <2> QED
    BY <2>2, <2>3
<1>3. \A v \in VMs : vm'[v] = IF v \in S /\ Up(v) THEN K(v) ELSE vm[v]
  BY DEF Killed
<1>4. DOMAIN vm' = VMs /\ vm' = [v \in VMs |-> vm'[v]]
  BY DEF Killed
<1> HIDE DEF K
<1>5. \A v \in VMs : vm'[v] \in Guest
  BY <1>1, <1>2, <1>3
<1>6. vm' \in [VMs -> Guest]
  BY <1>4, <1>5
<1> QED
  BY <1>2, <1>3, <1>6 DEF Weaker, Up

-----------------------------------------------------------------------------
(***************************************************************************)
(* A step that is not about run x: its driver and its sockets stay, its    *)
(* VMs stay or are killed, and its base may get a request.                 *)
(***************************************************************************)
Frame(x) ==
  /\ kind' = kind /\ pc'[x] = pc[x] /\ k'[x] = k[x] /\ wait'[x] = wait[x] /\ ans'[x] = ans[x]
  /\ alive'[x] = alive[x] /\ verdict'[x] = verdict[x] /\ image'[x] = image[x] /\ why'[x] = why[x]
  /\ (x \in crossed' <=> x \in crossed) /\ (x \in together => x \in together')
  /\ \A n \in 0..Forks[x] : sock'[<<x, n>>] = sock[<<x, n>>]
  /\ \A n \in 1..Forks[x] : Weaker(<<x, n>>) /\ report'[<<x, n>>] = report[<<x, n>>]
  /\ vm'[<<x, 0>>].proc = "up" => Up(<<x, 0>>) /\ vm'[<<x, 0>>].held = vm[<<x, 0>>].held
  /\ \A j \in 1..Len(vm'[<<x, 0>>].inbox) : ToBase(vm'[<<x, 0>>].inbox[j], <<x, 0>>)

(* The quantifiers over the children of a run, as numbers. *)
LEMMA KidsAre ==
  ASSUME NEW r \in Runs
  PROVE  Kids(r) = {<<r, n>> : n \in 1..Forks[r]}
BY DEF Kids

(* What a step that at most kills keeps of the children. *)
Kept(x) ==
  \A n \in 1..Forks[x] :
    /\ vm'[<<x, n>>].told = vm[<<x, n>>].told /\ vm'[<<x, n>>].stale = vm[<<x, n>>].stale
    /\ vm'[<<x, n>>].proc = "up" => vm[<<x, n>>].proc = "up"
    /\ vm'[<<x, n>>].inbox = vm[<<x, n>>].inbox \/ vm'[<<x, n>>].inbox = << >>
    /\ vm[<<x, n>>] = Off => vm'[<<x, n>>] = Off
    /\ vm'[<<x, n>>].on = TRUE => vm'[<<x, n>>] = vm[<<x, n>>]
    /\ vm'[<<x, n>>].mid = TRUE => vm'[<<x, n>>] = vm[<<x, n>>]

LEMMA WeakerKeeps ==
  ASSUME NEW x \in Runs, \A n \in 1..Forks[x] : Weaker(<<x, n>>)
  PROVE  Kept(x) /\ (x \in Together(vm)' => x \in Together(vm))
<1>1. Kept(x)
  BY OffIsGuest DEF Kept, Weaker, Up
<1>2. x \in Together(vm)' => x \in Together(vm)
  BY <1>1, KidsAre DEF Together, Kept
<1> QED
  BY <1>1, <1>2

LEMMA FrameKeeps ==
  ASSUME TypeOK, NEW x \in Runs, RunInv(x), Frame(x)
  PROVE  RunInv(x)'
<1> USE DEF RunInv
<1>0. /\ kind' = kind /\ pc'[x] = pc[x] /\ k'[x] = k[x] /\ wait'[x] = wait[x] /\ ans'[x] = ans[x]
      /\ alive'[x] = alive[x] /\ verdict'[x] = verdict[x] /\ image'[x] = image[x]
      /\ why'[x] = why[x]
  BY DEF Frame
<1>1. \A n \in 1..Forks[x] :
        /\ vm'[<<x, n>>].told = vm[<<x, n>>].told /\ vm'[<<x, n>>].stale = vm[<<x, n>>].stale
        /\ report'[<<x, n>>] = report[<<x, n>>]
        /\ vm'[<<x, n>>].proc = "up" => vm[<<x, n>>].proc = "up"
        /\ vm'[<<x, n>>].inbox = vm[<<x, n>>].inbox \/ vm'[<<x, n>>].inbox = << >>
        /\ vm[<<x, n>>] = Off => vm'[<<x, n>>] = Off
        /\ vm'[<<x, n>>].on = TRUE => vm'[<<x, n>>] = vm[<<x, n>>]
        /\ vm'[<<x, n>>].mid = TRUE => vm'[<<x, n>>] = vm[<<x, n>>]
  BY WeakerKeeps DEF Frame, Kept
<1>2. Driving(x)'
  BY <1>0 DEF Driving
<1>3. Sockets(x)'
  <2>1. 0 \in 0..Forks[x] /\ \A n \in 1..Forks[x] : n \in 0..Forks[x]
    BY Pairs
  <2> QED
    BY <1>0, <2>1 DEF Sockets, Frame, Cur, NotBound
<1>4. Waiting(x)'
  <2>1. pc[x] = "ask" => k[x] \in 1..Forks[x]
    BY Pairs DEF Driving, TypeOK
  <2> QED
    BY <1>0, <1>1, <2>1 DEF Waiting, Frame, Cur, ToChild, ToBase, Kind
<1>5. Base(x)'
  BY <1>0 DEF Base, Frame, Up
<1>6. \A n \in 1..Forks[x] : Child(x, n)'
  BY <1>0, <1>1 DEF Child, NotSpawned, NotAsked, ToChild, Kind
<1>7. Frozen(x)'
  BY <1>0, <1>1 DEF Frozen, Frame
<1>8. Over(x)'
  BY <1>0, <1>1 DEF Over, Finished, Up
<1>9. Witnessed(x)'
  <2>1. AllReady(x)' => AllReady(x)
    BY <1>1, KidsAre DEF AllReady
  <2>2. x \in Together(vm)' => x \in Together(vm)
    BY WeakerKeeps DEF Frame
  <2> QED
    BY <1>0, <2>1, <2>2 DEF Witnessed, Frame
<1>10. (why[x] = "inuse" => SharesBase(x))'
  BY <1>0 DEF SharesBase
<1>11. (verdict[x] = "works" => ForkWorked(x))'
  BY <1>0, <1>1, KidsAre DEF ForkWorked, Frame
<1> QED
  BY <1>2, <1>3, <1>4, <1>5, <1>6, <1>7, <1>8, <1>9, <1>10, <1>11

(* A step of run r. *)
Only(r) ==
  /\ kind' = kind /\ together' = together /\ crossed' = crossed
  /\ \A x \in Runs : x # r =>
       /\ pc'[x] = pc[x] /\ k'[x] = k[x] /\ wait'[x] = wait[x] /\ ans'[x] = ans[x]
       /\ alive'[x] = alive[x] /\ verdict'[x] = verdict[x] /\ image'[x] = image[x]
       /\ why'[x] = why[x]
       /\ \A n \in 0..Forks[x] : sock'[<<x, n>>] = sock[<<x, n>>] /\ vm'[<<x, n>>] = vm[<<x, n>>]
       /\ \A n \in 1..Forks[x] : report'[<<x, n>>] = report[<<x, n>>]

LEMMA OnlyOne ==
  ASSUME HarnessInv, NEW r \in Runs, Only(r), TypeOK', BakedSocket', RunInv(r)'
  PROVE  HarnessInv'
<1>1. ASSUME NEW x \in Runs, x # r PROVE RunInv(x)'
  <2>1. 0 \in 0..Forks[x] /\ \A n \in 1..Forks[x] : n \in 0..Forks[x]
    BY Pairs
  <2>2. RunInv(x) /\ Base(x) /\ TypeOK
    BY DEF HarnessInv, RunInv
  <2>3. /\ \A n \in 0..Forks[x] : vm'[<<x, n>>] = vm[<<x, n>>]
        /\ \A n \in 1..Forks[x] : Weaker(<<x, n>>)
    BY <1>1, <2>1 DEF Only, Weaker
  <2>4. /\ vm'[<<x, 0>>].proc = "up" => Up(<<x, 0>>) /\ vm'[<<x, 0>>].held = vm[<<x, 0>>].held
        /\ \A j \in 1..Len(vm'[<<x, 0>>].inbox) : ToBase(vm'[<<x, 0>>].inbox[j], <<x, 0>>)
    BY <2>1, <2>2, <2>3 DEF Base, Up
  <2>5. Frame(x)
    BY <1>1, <2>3, <2>4 DEF Frame, Only
  <2> QED
    BY <2>2, <2>5, FrameKeeps
<1> QED
  BY <1>1 DEF HarnessInv

LEMMA BakedKept ==
  ASSUME HarnessInv, NEW r \in Runs, Only(r), sock'[Baked] = sock[Baked] \/ sock'[Baked] = None,
         pc'[r] \in {"start", "api", "boot"} /\ k'[r] = 0 =>
           pc[r] \in {"start", "api", "boot"} /\ k[r] = 0
  PROVE  BakedSocket'
BY DEF HarnessInv, BakedSocket, Only

(***************************************************************************)
(* A spike that gives up leaves things as they are, but for the VMs it     *)
(* kills.                                                                  *)
(***************************************************************************)
Quits(r, w, S) ==
  /\ S \subseteq VMs /\ \A v \in S : v[1] = r
  /\ w \in {"api", "inuse", "died", "request"} /\ Fail(r, w, S)
  /\ w = "inuse" => SharesBase(r)
  /\ pc[r] \notin {"done", "failed"}
  /\ wait' = [wait EXCEPT ![r] = None] /\ ans' = [ans EXCEPT ![r] = None]
  /\ UNCHANGED <<k, kind, report, alive, verdict, sock, image, exits, crossed, together>>

LEMMA GivingUp ==
  ASSUME HarnessInv, NEW r \in Runs, NEW w, NEW S, Quits(r, w, S)
  PROVE  HarnessInv'
<1> USE DEF Quits
<1>0. TypeOK /\ RunInv(r)
  BY DEF HarnessInv
<1>1. /\ vm' \in [VMs -> Guest]
      /\ \A v \in VMs : Weaker(v) /\ (v \notin S => vm'[v] = vm[v])
  BY <1>0, KilledIsWeaker DEF Fail
<1>2. pc'[r] = "failed" /\ why'[r] = w /\ wait'[r] = None /\ ans'[r] = None
  BY <1>0 DEF Fail, Goto, TypeOK
<1>3. TypeOK'
  BY <1>0, <1>1 DEF TypeOK, Fail, Goto
<1>4. Only(r)
  <2>1. \A x \in Runs : x # r => \A n \in 0..Forks[x] : <<x, n>> \in VMs /\ <<x, n>> \notin S
    BY Pairs
  <2>2. \A x \in Runs : x # r => \A n \in 0..Forks[x] : vm'[<<x, n>>] = vm[<<x, n>>]
    BY <1>1, <2>1
  <2> QED
    BY <1>0, <2>2 DEF Only, Fail, Goto, TypeOK
<1>5. BakedSocket'
  BY <1>2, <1>4, BakedKept
<1>6. Kept(r) /\ (r \in Together(vm)' => r \in Together(vm)) /\ Weaker(<<r, 0>>)
  <2>1. \A n \in 1..Forks[r] : Weaker(<<r, n>>)
    BY <1>1, Pairs
  <2>2. Weaker(<<r, 0>>)
    BY <1>1, Pairs
  <2> QED
    BY <2>1, <2>2, WeakerKeeps
<1>7. RunInv(r)'
  <2> USE <1>0, <1>2, <1>6 DEF RunInv
  <2>1. Driving(r)'
    BY DEF Driving
  <2>2. Sockets(r)'
    BY DEF Sockets, NotBound, Early, Cur
  <2>3. Waiting(r)'
    BY DEF Waiting
  <2>4. Base(r)'
    BY DEF Base, Weaker
  <2>5. \A n \in 1..Forks[r] : Child(r, n)'
    BY DEF Child, Kept, NotSpawned, NotAsked, ToChild, Kind, Early
  <2>6. Frozen(r)'
    BY DEF Frozen, Kept
  <2>7. Over(r)'
    BY DEF Over, Finished, Kept, Up
  <2>8. Witnessed(r)'
    BY DEF Witnessed
  <2>9. (why[r] = "inuse" => SharesBase(r))'
    BY DEF SharesBase
  <2>10. (verdict[r] = "works" => ForkWorked(r))'
    BY HarnessAssumption DEF Driving
  <2> QED
    BY <2>1, <2>2, <2>3, <2>4, <2>5, <2>6, <2>7, <2>8, <2>9, <2>10
<1> QED
  BY <1>3, <1>4, <1>5, <1>7, OnlyOne

-----------------------------------------------------------------------------
(* A spike that goes on, with its VMs and sockets as they are. *)
Still(r) ==
  /\ vm' = vm /\ sock' = sock /\ report' = report /\ image' = image /\ exits' = exits
  /\ kind' = kind /\ crossed' = crossed /\ together' = together
  /\ wait[r] = None /\ UNCHANGED <<wait, ans, k, why>>

LEMMA StillKeeps ==
  ASSUME HarnessInv, NEW r \in Runs, Still(r)
  PROVE  /\ Kept(r) /\ (r \in Together(vm)' => r \in Together(vm))
         /\ Waiting(r)'
         /\ (verdict'[r] = verdict[r] => (verdict[r] = "works" => ForkWorked(r))')
         /\ (why[r] = "inuse" => SharesBase(r))'
<1>1. Kept(r) /\ (r \in Together(vm)' => r \in Together(vm))
  BY WeakerKeeps DEF Still, Weaker
<1> QED
  BY <1>1 DEF Still, HarnessInv, RunInv, Waiting, ForkWorked, SharesBase

LEMMA ApiUpStep == ASSUME HarnessInv, NEW r \in Runs, ApiUp(r) PROVE HarnessInv'
<1>0. TypeOK /\ RunInv(r)
  BY DEF HarnessInv
<1>1. /\ Still(r) /\ UNCHANGED <<alive, verdict>>
      /\ pc[r] = "api" /\ pc'[r] = IF k[r] = 0 THEN "boot" ELSE "load"
  BY <1>0 DEF ApiUp, At, Goto, Still, results, history, TypeOK
<1>2. TypeOK'
  BY <1>0 DEF ApiUp, Goto, TypeOK, results, history
<1>3. Only(r)
  BY <1>0 DEF ApiUp, Goto, TypeOK, results, history, Only
<1>4. BakedSocket'
  BY <1>1, <1>3, BakedKept DEF Still
<1>5. k[r] \in Nat /\ k[r] <= Forks[r]
  BY <1>0 DEF TypeOK
<1>6. RunInv(r)'
  <2> USE <1>0, <1>1, <1>5 DEF RunInv, Still
  <2>1. Driving(r)'
    BY DEF Driving
  <2>2. Sockets(r)'
    BY DEF Sockets, NotBound, Early, Cur
  <2>3. Base(r)'
    BY DEF Base, Up
  <2>4. \A n \in 1..Forks[r] : Child(r, n)'
    BY DEF Child, NotSpawned, NotAsked, ToChild, Kind, Early
  <2>5. Frozen(r)' /\ Over(r)'
    BY DEF Frozen, Over, Finished, Up
  <2>6. Witnessed(r)'
    BY StillKeeps DEF Witnessed
  <2> QED
    BY <2>1, <2>2, <2>3, <2>4, <2>5, <2>6, StillKeeps
<1> QED
  BY <1>2, <1>3, <1>4, <1>6, OnlyOne

(* The poll of the children is yes or no. *)
LEMMA AliveType ==
  ASSUME NEW r \in Runs, alive \in [Runs -> [spawned : BOOLEAN, still : BOOLEAN]]
  PROVE  /\ [alive EXCEPT ![r].spawned = AllUp(r)] \in [Runs -> [spawned : BOOLEAN, still : BOOLEAN]]
         /\ [alive EXCEPT ![r].still = AllUp(r)] \in [Runs -> [spawned : BOOLEAN, still : BOOLEAN]]
         /\ [alive EXCEPT ![r].still = AllUp(r)][r].still = AllUp(r)
<1>1. AllUp(r) \in BOOLEAN
  BY DEF AllUp
<1>2. alive[r] \in [spawned : BOOLEAN, still : BOOLEAN]
  OBVIOUS
<1>3. ASSUME NEW b \in BOOLEAN
      PROVE  /\ [alive EXCEPT ![r].spawned = b] \in [Runs -> [spawned : BOOLEAN, still : BOOLEAN]]
             /\ [alive EXCEPT ![r].still = b] \in [Runs -> [spawned : BOOLEAN, still : BOOLEAN]]
             /\ [alive EXCEPT ![r].still = b][r].still = b
  BY <1>2
<1> QED
  BY <1>1, <1>3

LEMMA PollStep == ASSUME HarnessInv, NEW r \in Runs, Poll(r) PROVE HarnessInv'
<1>0. TypeOK /\ RunInv(r)
  BY DEF HarnessInv
<1>1. /\ Still(r) /\ UNCHANGED verdict
      /\ pc[r] = "poll" /\ pc'[r] = "ask"
  BY <1>0 DEF Poll, At, Goto, Still, history, TypeOK
<1>2. TypeOK'
  <2>1. alive' \in [Runs -> [spawned : BOOLEAN, still : BOOLEAN]]
    BY <1>0, AliveType DEF Poll, TypeOK
  <2> QED
    BY <1>0, <2>1 DEF Poll, Goto, TypeOK, history
<1>3. Only(r)
  BY <1>0 DEF Poll, Goto, TypeOK, history, Only
<1>4. BakedSocket'
  BY <1>1, <1>3, BakedKept DEF Still
<1>5. k[r] \in Nat /\ k[r] <= Forks[r]
  BY <1>0 DEF TypeOK
<1>6. RunInv(r)'
  <2> USE <1>0, <1>1, <1>5 DEF RunInv, Still
  <2>1. Driving(r)'
    BY DEF Driving, Vsock, Serial
  <2>2. Sockets(r)'
    BY DEF Sockets, NotBound, Early, Cur
  <2>3. Base(r)'
    BY DEF Base, Up
  <2>4. \A n \in 1..Forks[r] : Child(r, n)'
    BY DEF Child, NotSpawned, NotAsked, ToChild, Kind, Early, Driving, Serial
  <2>5. Frozen(r)' /\ Over(r)'
    BY DEF Frozen, Over, Finished, Up
  <2>6. Witnessed(r)'
    BY StillKeeps DEF Witnessed
  <2> QED
    BY <2>1, <2>2, <2>3, <2>4, <2>5, <2>6, StillKeeps
<1> QED
  BY <1>2, <1>3, <1>4, <1>6, OnlyOne

(* The verdict is given on children that are down. *)
LEMMA VerdictStep == ASSUME HarnessInv, NEW r \in Runs, Verdict(r) PROVE HarnessInv'
<1>0. TypeOK /\ RunInv(r)
  BY DEF HarnessInv
<1>1. PICK d \in {"works", "issue"} :
        /\ kind[r] = "g" => (d = "works" <=> WorksG(r))
        /\ kind[r] = "i" => (d = "works" <=> WorksI(r))
        /\ kind[r] = "c" => (d = "works" <=> CleanC(r))
        /\ verdict' = [verdict EXCEPT ![r] = d]
  BY DEF Verdict
<1>2. /\ Still(r) /\ UNCHANGED alive /\ verdict'[r] = d
      /\ pc[r] = "verdict" /\ pc'[r] = "done"
  BY <1>0, <1>1 DEF Verdict, At, Goto, Still, history, TypeOK
<1>3. TypeOK'
  BY <1>0, <1>1 DEF Verdict, Goto, TypeOK, history
<1>4. Only(r)
  BY <1>0, <1>1 DEF Verdict, Goto, TypeOK, history, Only
<1>5. BakedSocket'
  BY <1>2, <1>4, BakedKept DEF Still
<1>6. k[r] \in Nat /\ k[r] <= Forks[r]
  BY <1>0 DEF TypeOK
<1>7. RunInv(r)'
  <2> USE <1>0, <1>2, <1>6 DEF RunInv, Still
  <2>1. Driving(r)'
    BY DEF Driving
  <2>2. Sockets(r)'
    BY DEF Sockets, NotBound, Early, Cur
  <2>3. Base(r)'
    BY DEF Base, Up
  <2>4. \A n \in 1..Forks[r] : Child(r, n)'
    BY DEF Child, NotSpawned, NotAsked, ToChild, Kind, Early
  <2>5. Frozen(r)' /\ Over(r)'
    BY DEF Frozen, Over, Finished, Up
  <2>6. Witnessed(r)'
    BY StillKeeps DEF Witnessed, AllReady
  <2>7. (verdict[r] = "works" => ForkWorked(r))'
    <3> SUFFICES ASSUME d = "works" PROVE ForkWorked(r)'
      OBVIOUS
    <3>1. ForkWorked(r)
      <4>1. kind[r] = "c" => NoCross(r)
        BY <1>1 DEF CleanC
      <4>2. kind[r] \in Tells => WorksG(r)
        BY <1>1 DEF Tells, WorksI
      <4>3. kind[r] = "i" => r \in together
        BY <1>1, <4>2 DEF WorksI, WorksG, Witnessed, Tells
      <4> QED
        BY <4>1, <4>2, <4>3 DEF ForkWorked, WorksG, NoCross, AllContexts
    <3> QED
      BY <3>1 DEF ForkWorked
  <2> QED
    BY <2>1, <2>2, <2>3, <2>4, <2>5, <2>6, <2>7, StillKeeps
<1> QED
  BY <1>3, <1>4, <1>5, <1>7, OnlyOne

-----------------------------------------------------------------------------
(* Microvm.kill on VMs of the spike, which goes on at l ... *)
Kills(r, S, l) ==
  /\ S \subseteq VMs /\ \A v \in S : v[1] = r
  /\ vm' = Killed(S) /\ wait[r] = None
  /\ UNCHANGED <<k, wait, ans, kind, report, sock, exits, crossed, together>>
  /\ pc' = [pc EXCEPT ![r] = l] /\ l \in {"fork", "verdict"}
  /\ pc[r] \in {"snap", "kill"} /\ why' = why /\ verdict' = verdict
  /\ \A x \in Runs : x # r => alive'[x] = alive[x] /\ image'[x] = image[x]

(* ... and what it means for the invariant. *)
Killing(r, S, l) ==
  /\ vm' \in [VMs -> Guest] /\ Only(r) /\ BakedSocket'
  /\ pc'[r] = l /\ wait'[r] = None
  /\ Kept(r) /\ (r \in Together(vm)' => r \in Together(vm)) /\ Weaker(<<r, 0>>)
  /\ \A v \in S : vm'[v].proc # "up"
  /\ Waiting(r)' /\ Base(r)'
  /\ (verdict[r] = "works" => ForkWorked(r))'
  /\ (why[r] = "inuse" => SharesBase(r))'

LEMMA KillsIsKilling ==
  ASSUME HarnessInv, NEW r \in Runs, NEW S, NEW l, Kills(r, S, l)
  PROVE  Killing(r, S, l)
<1> USE DEF Kills
<1>0. TypeOK /\ RunInv(r)
  BY DEF HarnessInv
<1>1. /\ vm' \in [VMs -> Guest]
      /\ \A v \in VMs : Weaker(v) /\ (v \notin S => vm'[v] = vm[v])
      /\ \A v \in S : vm'[v].proc # "up"
  BY <1>0, KilledIsWeaker DEF Up
<1>2. pc'[r] = l /\ wait'[r] = None
  BY <1>0 DEF TypeOK
<1>3. Only(r)
  <2>1. \A x \in Runs : x # r => \A n \in 0..Forks[x] : <<x, n>> \in VMs /\ <<x, n>> \notin S
    BY Pairs
  <2>2. \A x \in Runs : x # r => \A n \in 0..Forks[x] : vm'[<<x, n>>] = vm[<<x, n>>]
    BY <1>1, <2>1
  <2> QED
    BY <1>0, <2>2 DEF Only, TypeOK
<1>4. BakedSocket'
  BY <1>2, <1>3, BakedKept
<1>5. Kept(r) /\ (r \in Together(vm)' => r \in Together(vm)) /\ Weaker(<<r, 0>>)
  <2>1. \A n \in 1..Forks[r] : Weaker(<<r, n>>)
    BY <1>1, Pairs
  <2>2. Weaker(<<r, 0>>)
    BY <1>1, Pairs
  <2> QED
    BY <2>1, <2>2, WeakerKeeps
<1>6. Waiting(r)'
  BY <1>2 DEF Waiting
<1>7. Base(r)'
  BY <1>0, <1>2, <1>5 DEF RunInv, Base, Weaker
<1>8. verdict[r] = None /\ why[r] = None
  BY <1>0 DEF RunInv, Driving
<1>9. /\ (verdict[r] = "works" => ForkWorked(r))'
      /\ (why[r] = "inuse" => SharesBase(r))'
  BY <1>8, HarnessAssumption
<1> QED
  BY <1>1, <1>2, <1>3, <1>4, <1>5, <1>6, <1>7, <1>9 DEF Killing

LEMMA KillSerialStep == ASSUME HarnessInv, NEW r \in Runs, KillSerial(r) PROVE HarnessInv'
<1>0. TypeOK /\ RunInv(r)
  BY DEF HarnessInv
<1> DEFINE l == IF k[r] < Forks[r] THEN "fork" ELSE "verdict"
<1>1. /\ UNCHANGED <<k, wait, ans, kind, report, alive, verdict, sock, image, exits, why, crossed, together>>
      /\ pc[r] = "kill" /\ wait[r] = None /\ kind[r] \in Serial
      /\ vm' = Killed({<<r, k[r]>>}) /\ pc' = [pc EXCEPT ![r] = l]
  BY DEF KillSerial, At, Goto, results, history, Cur
<1>2. k[r] \in Nat /\ k[r] <= Forks[r] /\ k[r] > 0 /\ Forks[r] \in Nat
  BY <1>0, <1>1, Pairs DEF TypeOK, RunInv, Driving
<1>3. {<<r, k[r]>>} \subseteq VMs
  BY <1>2, Pairs
<1>4. l \in {"fork", "verdict"}
  OBVIOUS
<1>5. /\ vm' \in [VMs -> Guest] /\ Only(r) /\ BakedSocket' /\ pc'[r] = l
      /\ Kept(r) /\ (r \in Together(vm)' => r \in Together(vm))
      /\ vm'[<<r, k[r]>>].proc # "up" /\ Waiting(r)' /\ Base(r)'
      /\ (verdict[r] = "works" => ForkWorked(r))'
      /\ (why[r] = "inuse" => SharesBase(r))'
  <2>1. Kills(r, {<<r, k[r]>>}, l)
    BY <1>1, <1>3, <1>4 DEF Kills
  <2> HIDE DEF l
  <2>2. Killing(r, {<<r, k[r]>>}, l)
    BY <2>1, KillsIsKilling
  <2> QED
    BY <2>2 DEF Killing
<1>6. TypeOK'
  BY <1>0, <1>1, <1>5 DEF TypeOK
<1>7. RunInv(r)'
  <2> USE <1>0, <1>1, <1>2, <1>5 DEF RunInv
  <2>1. Driving(r)'
    BY DEF Driving
  <2>2. Sockets(r)'
    BY DEF Sockets, NotBound, Early, Cur
  <2>3. \A n \in 1..Forks[r] : Child(r, n)'
    <3>1. \A n \in 1..Forks[r] :
            (NotSpawned(r, n)' => NotSpawned(r, n)) /\ (NotAsked(r, n)' => NotAsked(r, n))
      BY DEF NotSpawned, NotAsked
    <3>2. pc'[r] # "ask"
      OBVIOUS
    <3> HIDE DEF l
    <3> SUFFICES ASSUME NEW n \in 1..Forks[r] PROVE Child(r, n)'
      OBVIOUS
    <3>3. /\ Child(r, n) /\ report'[<<r, n>>] = report[<<r, n>>]
          /\ vm'[<<r, n>>].told = vm[<<r, n>>].told
          /\ vm'[<<r, n>>].inbox = vm[<<r, n>>].inbox \/ vm'[<<r, n>>].inbox = << >>
          /\ vm[<<r, n>>] = Off => vm'[<<r, n>>] = Off
      BY DEF Kept
    <3> QED
      BY <3>1, <3>2, <3>3 DEF Child, ToChild, Kind
  <2>4. Frozen(r)'
    BY DEF Frozen, Kept
  <2>5. Over(r)'
    <3>1. \A n \in 1..Forks[r] : n < k[r] => ~Up(<<r, n>>)'
      BY DEF Over, Finished, Kept, Up
    <3>2. \A n \in 1..Forks[r] : Finished(r, n)' => n < k[r] \/ n = k[r]
      BY DEF Finished
    <3> QED
      BY <3>1, <3>2 DEF Over, Up
  <2>6. Witnessed(r)'
    BY DEF Witnessed, Serial
  <2> QED
    BY <2>1, <2>2, <2>3, <2>4, <2>5, <2>6
<1> QED
  BY <1>5, <1>6, <1>7, OnlyOne

(* Spikes b, c, i and j kill all children at the end. *)
LEMMA KillKids ==
  ASSUME HarnessInv, NEW r \in Runs, pc[r] = "kill", wait[r] = None, kind[r] \notin Serial,
         vm' = Killed(Kids(r)), pc' = [pc EXCEPT ![r] = "verdict"],
         UNCHANGED <<k, wait, ans, kind, report, verdict, sock, image, exits, why, crossed, together>>,
         \/ alive' = alive /\ kind[r] # "i"
         \/ alive' = [alive EXCEPT ![r].still = AllUp(r)]
  PROVE  HarnessInv'
<1>0. TypeOK /\ RunInv(r)
  BY DEF HarnessInv
<1>1. Kids(r) \subseteq VMs /\ \A v \in Kids(r) : v[1] = r
  BY Pairs, KidsAre
<1>2. \A x \in Runs : x # r => alive'[x] = alive[x] /\ image'[x] = image[x]
  BY <1>0 DEF TypeOK
<1>3. /\ vm' \in [VMs -> Guest] /\ Only(r) /\ BakedSocket' /\ pc'[r] = "verdict"
      /\ Kept(r) /\ (r \in Together(vm)' => r \in Together(vm))
      /\ \A v \in Kids(r) : vm'[v].proc # "up"
      /\ Waiting(r)' /\ Base(r)'
      /\ (verdict[r] = "works" => ForkWorked(r))'
      /\ (why[r] = "inuse" => SharesBase(r))'
  <2>1. Kills(r, Kids(r), "verdict")
    BY <1>1, <1>2 DEF Kills
  <2>2. Killing(r, Kids(r), "verdict")
    BY <2>1, KillsIsKilling
  <2> QED
    BY <2>2 DEF Killing
<1>4. TypeOK'
  <2>0. alive \in [Runs -> [spawned : BOOLEAN, still : BOOLEAN]]
    BY <1>0 DEF TypeOK
  <2>1. alive' \in [Runs -> [spawned : BOOLEAN, still : BOOLEAN]]
    BY <2>0, AliveType
  <2> QED
    BY <1>0, <1>3, <2>1 DEF TypeOK
<1>5. RunInv(r)'
  <2> USE <1>0, <1>3 DEF RunInv
  <2>1. Driving(r)'
    BY DEF Driving
  <2>2. Sockets(r)'
    BY DEF Sockets, NotBound, Early, Cur
  <2>3. \A n \in 1..Forks[r] : Child(r, n)'
    BY DEF Child, Kept, NotSpawned, NotAsked, ToChild, Kind, Early
  <2>4. Frozen(r)'
    BY DEF Frozen, Kept
  <2>5. Over(r)'
    BY Pairs DEF Over, Up
  <2>6. Witnessed(r)'
    <3> SUFFICES ASSUME kind[r] = "i", alive'[r].still, AllReady(r)' PROVE r \in together
      BY DEF Witnessed
    <3>1. AllUp(r)
      BY AliveType DEF TypeOK
    <3>2. \A v \in Kids(r) : vm[v].told # None
      <4>0. \A n \in 1..Forks[r] : report[<<r, n>>] = "READY"
        BY KidsAre DEF AllReady
      <4>a. \A n \in 1..Forks[r] : <<r, n>> # None
        <5>1. \A n \in 1..Forks[r] : n \in 0..Forks[r]
          BY Pairs
        <5> QED
          BY <5>1, Pairs
      <4>1. \A n \in 1..Forks[r] : vm[<<r, n>>].told = <<r, n>> /\ <<r, n>> # None
        BY <4>0, <4>a DEF Child
      <4> QED
        BY <4>1, KidsAre
    <3>3. r \in Together(vm)
      BY <3>1, <3>2 DEF AllUp, Up, Together
    <3> QED
      BY <3>3 DEF Witnessed
  <2> QED
    BY <2>1, <2>2, <2>3, <2>4, <2>5, <2>6
<1> QED
  BY <1>3, <1>4, <1>5, OnlyOne

LEMMA KillAllStep == ASSUME HarnessInv, NEW r \in Runs, KillAll(r) PROVE HarnessInv'
<1>1. /\ pc[r] = "kill" /\ wait[r] = None /\ kind[r] \notin Serial
      /\ vm' = Killed(Kids(r)) /\ pc' = [pc EXCEPT ![r] = "verdict"]
      /\ UNCHANGED <<k, wait, ans, kind, report, verdict, sock, image, exits, why, crossed, together>>
      /\ alive' = [alive EXCEPT ![r].still = AllUp(r)]
  BY DEF KillAll, At, Goto, history, Serial
<1> QED
  BY <1>1, KillKids

LEMMA MeasureStep == ASSUME HarnessInv, NEW r \in Runs, Measure(r) PROVE HarnessInv'
<1>1. /\ pc[r] = "kill" /\ wait[r] = None /\ kind[r] \notin Serial /\ kind[r] # "i"
      /\ UNCHANGED <<k, wait, ans, kind, report, alive, verdict, sock, image, exits, crossed, together>>
  BY DEF Measure, At, results, Serial
<1>2. CASE Fail(r, "died", Kids(r))
  <2>1. Kids(r) \subseteq VMs /\ \A v \in Kids(r) : v[1] = r
    BY Pairs, KidsAre
  <2>2. wait' = [wait EXCEPT ![r] = None] /\ ans' = [ans EXCEPT ![r] = None]
    BY <1>1 DEF HarnessInv, TypeOK, RunInv, Driving
  <2>3. Quits(r, "died", Kids(r))
    BY <1>1, <1>2, <2>1, <2>2 DEF Quits
  <2> QED
    BY <2>3, GivingUp
<1>3. CASE Goto(r, "verdict") /\ vm' = Killed(Kids(r)) /\ UNCHANGED why
  BY <1>1, <1>3, KillKids DEF Goto
<1> QED
  BY <1>2, <1>3 DEF Measure

(* The image is that of the base, which is held unless the QUIESCE crossed. *)
LEMMA SnapshotStep == ASSUME HarnessInv, NEW r \in Runs, Snapshot(r) PROVE HarnessInv'
<1>0. TypeOK /\ RunInv(r)
  BY DEF HarnessInv
<1>1. /\ UNCHANGED <<k, wait, ans, kind, report, alive, verdict, sock, exits, crossed, together>>
      /\ pc[r] = "snap" /\ wait[r] = None
  BY DEF Snapshot, At, results
<1>2. CASE Fail(r, "died", {}) /\ UNCHANGED image
  <2>1. wait' = [wait EXCEPT ![r] = None] /\ ans' = [ans EXCEPT ![r] = None]
    BY <1>0, <1>1 DEF TypeOK, RunInv, Driving
  <2>2. Quits(r, "died", {})
    BY <1>1, <1>2, <2>1 DEF Quits
  <2> QED
    BY <2>2, GivingUp
<1>3. CASE /\ Up(<<r, 0>>)
           /\ image' = [image EXCEPT ![r] = [held |-> vm[<<r, 0>>].held, mid |-> vm[<<r, 0>>].mid]]
           /\ vm' = Killed({<<r, 0>>}) /\ Goto(r, "fork") /\ UNCHANGED why
  <2>a. <<r, 0>> \in VMs
    BY Pairs, 0 \in 0..Forks[r]
  <2>1. <<r, 0>> \in VMs /\ vm[<<r, 0>>] \in Guest
    BY <1>0, <2>a DEF TypeOK
  <2>2. /\ image' \in [Runs -> [held : BOOLEAN, mid : BOOLEAN]]
        /\ image'[r].held = vm[<<r, 0>>].held
        /\ \A x \in Runs : x # r => alive'[x] = alive[x] /\ image'[x] = image[x]
    BY <1>0, <1>1, <1>3, <2>1, GuestFields DEF TypeOK
  <2>3. /\ vm' \in [VMs -> Guest] /\ Only(r) /\ BakedSocket' /\ pc'[r] = "fork"
        /\ Kept(r) /\ (r \in Together(vm)' => r \in Together(vm))
        /\ Waiting(r)' /\ Base(r)'
        /\ (verdict[r] = "works" => ForkWorked(r))'
        /\ (why[r] = "inuse" => SharesBase(r))'
    <3>1. Kills(r, {<<r, 0>>}, "fork")
      BY <1>1, <1>3, <2>1, <2>2 DEF Goto, Kills
    <3>2. Killing(r, {<<r, 0>>}, "fork")
      BY <3>1, KillsIsKilling
    <3> QED
      BY <3>2 DEF Killing
  <2>4. TypeOK'
    BY <1>0, <1>1, <1>3, <2>2, <2>3 DEF TypeOK, Goto
  <2>5. k[r] = 0 /\ Forks[r] \in Nat /\ Forks[r] > 0
    BY <1>0, <1>1, Pairs DEF RunInv, Driving
  <2>6. RunInv(r)'
    <3> USE <1>0, <1>1, <2>3, <2>5 DEF RunInv
    <3>1. Driving(r)'
      BY <1>3 DEF Driving
    <3>2. Sockets(r)'
      BY DEF Sockets, NotBound, Early, Cur
    <3>3. \A n \in 1..Forks[r] : Child(r, n)'
      BY DEF Child, Kept, NotSpawned, NotAsked, ToChild, Kind, Early
    <3>4. Frozen(r)'
      <4>1. \A n \in 1..Forks[r] : vm[<<r, n>>] = Off
        BY DEF Child, NotSpawned, Early
      <4>2. \A n \in 1..Forks[r] : vm'[<<r, n>>] = Off
        BY <4>1 DEF Kept
      <4>3. kind[r] \in Tells /\ r \notin crossed => image'[r].held
        BY <1>3, <2>2 DEF Base
      <4> QED
        BY <4>2, <4>3, OffIsGuest DEF Frozen
    <3>5. Over(r)'
      BY DEF Over, Finished, Kept, Up
    <3>6. Witnessed(r)'
      BY DEF Witnessed
    <3> QED
      BY <3>1, <3>2, <3>3, <3>4, <3>5, <3>6
  <2> QED
    BY <2>3, <2>4, <2>6, OnlyOne
<1> QED
  BY <1>2, <1>3 DEF Snapshot

-----------------------------------------------------------------------------
(* One VM changes. *)
LEMMA OneVM ==
  ASSUME TypeOK, NEW v \in VMs, NEW g \in Guest, vm' = [vm EXCEPT ![v] = g]
  PROVE  /\ vm' \in [VMs -> Guest] /\ vm'[v] = g
         /\ \A w \in VMs : w # v => vm'[w] = vm[w]
BY DEF TypeOK

(* _spawn starts a process without a guest. *)
LEMMA Spawning ==
  ASSUME TypeOK, NEW r \in Runs, NEW n \in 0..Forks[r], Spawn(r, n)
  PROVE  /\ vm' \in [VMs -> Guest]
         /\ \A x \in Runs : \A m \in 0..Forks[x] :
              ~ (x = r /\ m = n) => vm'[<<x, m>>] = vm[<<x, m>>]
         /\ vm'[<<r, n>>] = [vm[<<r, n>>] EXCEPT !.proc = "up"]
         /\ k' \in [Runs -> Nat] /\ (\A x \in Runs : k'[x] <= Forks[x])
         /\ k'[r] = n /\ pc'[r] = "api"
         /\ \A x \in Runs : x # r => k'[x] = k[x] /\ pc'[x] = pc[x]
<1>1. <<r, n>> \in VMs /\ vm[<<r, n>>] \in Guest /\ Forks[r] \in Nat
  <2>1. <<r, n>> \in VMs /\ Forks[r] \in Nat
    BY Pairs
  <2> QED
    BY <2>1 DEF TypeOK
<1> DEFINE g == [vm[<<r, n>>] EXCEPT !.proc = "up"]
<1>2. g \in Guest /\ vm' = [vm EXCEPT ![<<r, n>>] = g]
  BY <1>1 DEF Spawn, Guest
<1> HIDE DEF g
<1>3. /\ vm' \in [VMs -> Guest] /\ vm'[<<r, n>>] = g
      /\ \A w \in VMs : w # <<r, n>> => vm'[w] = vm[w]
  BY <1>1, <1>2, OneVM
<1>4. \A x \in Runs : \A m \in 0..Forks[x] :
        ~ (x = r /\ m = n) => vm'[<<x, m>>] = vm[<<x, m>>]
  <2>1. \A x \in Runs : \A m \in 0..Forks[x] : <<x, m>> \in VMs
    BY Pairs
  <2> QED
    BY <1>3, <2>1
<1>5. n \in Nat /\ n <= Forks[r]
  BY <1>1
<1>6. /\ k' \in [Runs -> Nat] /\ (\A x \in Runs : k'[x] <= Forks[x])
      /\ k'[r] = n /\ pc'[r] = "api"
      /\ \A x \in Runs : x # r => k'[x] = k[x] /\ pc'[x] = pc[x]
  BY <1>5 DEF Spawn, Goto, TypeOK
<1> QED
  BY <1>3, <1>4, <1>6 DEF g

LEMMA StartStep == ASSUME HarnessInv, NEW r \in Runs, Start(r) PROVE HarnessInv'
<1>0. TypeOK /\ RunInv(r)
  BY DEF HarnessInv
<1>1. /\ pc[r] = "start" /\ wait[r] = None /\ Spawn(r, 0)
      /\ sock' = IF kind[r] = "i" THEN [sock EXCEPT ![Baked] = None] ELSE sock
      /\ UNCHANGED <<wait, ans, kind, report, alive, verdict, image, exits, why, crossed, together>>
  BY DEF Start, At, results, history, Unlinked
<1>2. 0 \in 0..Forks[r] /\ k[r] = 0 /\ Forks[r] \in Nat
  BY <1>0, <1>1, Pairs DEF RunInv, Driving
<1>3. /\ vm' \in [VMs -> Guest]
      /\ \A x \in Runs : \A m \in 0..Forks[x] :
           ~ (x = r /\ m = 0) => vm'[<<x, m>>] = vm[<<x, m>>]
      /\ vm'[<<r, 0>>] = [vm[<<r, 0>>] EXCEPT !.proc = "up"]
      /\ k' \in [Runs -> Nat] /\ (\A x \in Runs : k'[x] <= Forks[x])
      /\ k'[r] = 0 /\ pc'[r] = "api"
      /\ \A x \in Runs : x # r => k'[x] = k[x] /\ pc'[x] = pc[x]
  BY <1>0, <1>1, <1>2, Spawning
<1>4. /\ sock' \in [Paths -> VMs \cup {None}]
      /\ sock'[Baked] = sock[Baked] \/ sock'[Baked] = None
      /\ \A v \in VMs : sock'[v] = sock[v]
  BY <1>0, <1>1, Pairs DEF TypeOK, Paths
<1>5. \A x \in Runs : \A m \in 0..Forks[x] : sock'[<<x, m>>] = sock[<<x, m>>]
  BY <1>4, Pairs
<1>6. TypeOK'
  BY <1>0, <1>1, <1>3, <1>4 DEF TypeOK, Spawn, Goto
<1>7. Only(r)
  BY <1>1, <1>3, <1>5 DEF Only
<1>8. BakedSocket'
  BY <1>1, <1>2, <1>4, <1>7, BakedKept
<1>9. \A n \in 1..Forks[r] : vm'[<<r, n>>] = vm[<<r, n>>] /\ sock'[<<r, n>>] = sock[<<r, n>>]
  <2>1. \A n \in 1..Forks[r] : n \in 0..Forks[r] /\ n # 0
    BY <1>2
  <2> QED
    BY <1>3, <1>5, <2>1
<1>10. /\ vm'[<<r, 0>>].inbox = vm[<<r, 0>>].inbox /\ sock'[<<r, 0>>] = sock[<<r, 0>>]
  BY <1>0, <1>2, <1>3, <1>5, Pairs DEF TypeOK, Guest
<1>11. RunInv(r)'
  <2> USE <1>0, <1>1, <1>2, <1>9, <1>10 DEF RunInv
  <2>0. pc'[r] = "api" /\ k'[r] = 0 /\ why[r] = None /\ verdict[r] = None
    BY <1>3 DEF Driving
  <2>1. Driving(r)'
    BY <2>0 DEF Driving
  <2>2. Sockets(r)'
    BY <2>0 DEF Sockets, NotBound, Early, Cur
  <2>3. Waiting(r)'
    BY DEF Waiting
  <2>4. Base(r)'
    BY <2>0 DEF Base
  <2>5. \A n \in 1..Forks[r] : Child(r, n)'
    BY <2>0 DEF Child, NotSpawned, NotAsked, ToChild, Kind, Early
  <2>6. Frozen(r)' /\ Over(r)'
    BY <2>0 DEF Frozen, Over, Finished, Up
  <2>7. Witnessed(r)'
    <3>1. r \in Together(vm)' => r \in Together(vm)
      BY KidsAre DEF Together
    <3> QED
      BY <2>0, <3>1 DEF Witnessed
  <2>8. /\ (verdict[r] = "works" => ForkWorked(r))'
        /\ (why[r] = "inuse" => SharesBase(r))'
    BY <2>0, HarnessAssumption
  <2> QED
    BY <2>1, <2>2, <2>3, <2>4, <2>5, <2>6, <2>7, <2>8
<1> QED
  BY <1>6, <1>7, <1>8, <1>11, OnlyOne

(* A child is started: it has neither been told nor asked anything. *)
LEMMA ForkStep ==
  ASSUME HarnessInv, NEW r \in Runs, ForkSerial(r) \/ ForkRemapped(r) \/ ForkPlain(r)
  PROVE  HarnessInv'
<1>0. TypeOK /\ RunInv(r)
  BY DEF HarnessInv
<1>1. /\ pc[r] = "fork" /\ wait[r] = None /\ Spawn(r, k[r] + 1)
      /\ sock' = IF kind[r] \in Serial THEN [sock EXCEPT ![<<r, 0>>] = None] ELSE sock
      /\ UNCHANGED <<wait, ans, kind, report, alive, verdict, image, exits, why, crossed, together>>
  BY DEF ForkSerial, ForkRemapped, ForkPlain, At, results, history, Unlinked, BasePath, Serial, Plain
<1>2. /\ k[r] + 1 \in 0..Forks[r] /\ k[r] + 1 \in 1..Forks[r] /\ k[r] \in Nat
      /\ Forks[r] \in Nat /\ 0 \in 0..Forks[r]
  BY <1>0, <1>1, Pairs DEF RunInv, Driving, TypeOK
<1>3. /\ vm' \in [VMs -> Guest]
      /\ \A x \in Runs : \A m \in 0..Forks[x] :
           ~ (x = r /\ m = k[r] + 1) => vm'[<<x, m>>] = vm[<<x, m>>]
      /\ vm'[<<r, k[r] + 1>>] = [vm[<<r, k[r] + 1>>] EXCEPT !.proc = "up"]
      /\ k' \in [Runs -> Nat] /\ (\A x \in Runs : k'[x] <= Forks[x])
      /\ k'[r] = k[r] + 1 /\ pc'[r] = "api"
      /\ \A x \in Runs : x # r => k'[x] = k[x] /\ pc'[x] = pc[x]
  BY <1>0, <1>1, <1>2, Spawning
<1>4. /\ sock' \in [Paths -> VMs \cup {None}]
      /\ sock'[Baked] = sock[Baked]
      /\ \A v \in VMs : v # <<r, 0>> => sock'[v] = sock[v]
      /\ sock'[<<r, 0>>] = IF kind[r] \in Serial THEN None ELSE sock[<<r, 0>>]
  <2>1. <<r, 0>> \in VMs /\ <<r, 0>> \in Paths /\ <<r, 0>> # Baked
    BY <1>2, Pairs
  <2> QED
    BY <1>0, <1>1, <2>1, Pairs DEF TypeOK, Paths
<1>5. \A x \in Runs : \A m \in 0..Forks[x] :
        ~ (x = r /\ m = 0) => sock'[<<x, m>>] = sock[<<x, m>>]
  BY <1>4, Pairs
<1>6. TypeOK'
  BY <1>0, <1>1, <1>3, <1>4 DEF TypeOK, Spawn, Goto
<1>7. Only(r)
  BY <1>1, <1>3, <1>5 DEF Only
<1>8. BakedSocket'
  BY <1>1, <1>2, <1>3, <1>4, <1>7, BakedKept
<1>9. /\ \A n \in 1..Forks[r] : n # k[r] + 1 => vm'[<<r, n>>] = vm[<<r, n>>]
      /\ \A n \in 1..Forks[r] : sock'[<<r, n>>] = sock[<<r, n>>]
      /\ vm'[<<r, 0>>] = vm[<<r, 0>>]
  <2>1. \A n \in 1..Forks[r] : n \in 0..Forks[r] /\ n # 0
    BY <1>2
  <2> QED
    BY <1>2, <1>3, <1>5, <2>1
<1>10. LET c == vm'[<<r, k[r] + 1>>] IN
       /\ c.proc = "up" /\ c.on = FALSE /\ c.mid = FALSE /\ c.stale = FALSE /\ c.told = None
       /\ c.inbox = << >> /\ report[<<r, k[r] + 1>>] = None
  <2>1. Child(r, k[r] + 1)
    BY <1>0, <1>2 DEF RunInv
  <2>2. NotSpawned(r, k[r] + 1) /\ NotAsked(r, k[r] + 1)
    BY <1>1, <1>2 DEF NotSpawned, NotAsked, Early
  <2>3. vm[<<r, k[r] + 1>>] = Off /\ report[<<r, k[r] + 1>>] = None
    BY <2>1, <2>2 DEF Child
  <2>4. vm'[<<r, k[r] + 1>>] = [Off EXCEPT !.proc = "up"]
    BY <1>3, <2>3
  <2> QED
    BY <2>3, <2>4 DEF Off
<1>11. RunInv(r)'
  <2> USE <1>0, <1>1, <1>2, <1>9 DEF RunInv
  <2>0. pc'[r] = "api" /\ k'[r] = k[r] + 1 /\ why[r] = None /\ verdict[r] = None
    BY <1>3 DEF Driving
  <2>1. Driving(r)'
    BY <2>0 DEF Driving
  <2>2. Sockets(r)'
    BY <1>4, <2>0 DEF Sockets, NotBound, Early, Cur
  <2>3. Waiting(r)'
    BY DEF Waiting
  <2>4. Base(r)'
    BY <2>0 DEF Base
  <2>5. \A n \in 1..Forks[r] : Child(r, n)'
    <3> SUFFICES ASSUME NEW n \in 1..Forks[r] PROVE Child(r, n)'
      OBVIOUS
    <3>1. CASE n = k[r] + 1
      <4>1. /\ vm'[<<r, n>>].told = None /\ vm'[<<r, n>>].inbox = << >> /\ report'[<<r, n>>] = None
            /\ ~ NotSpawned(r, n)'
        BY <1>10, <2>0, <3>1 DEF NotSpawned
      <4> QED
        BY <2>0, <4>1, HarnessAssumption DEF Child
    <3>2. CASE n # k[r] + 1
      <4>1. (NotSpawned(r, n)' => NotSpawned(r, n)) /\ (NotAsked(r, n)' => NotAsked(r, n))
        BY <2>0, <3>2 DEF NotSpawned, NotAsked, Early
      <4>2. Child(r, n) /\ vm'[<<r, n>>] = vm[<<r, n>>] /\ report'[<<r, n>>] = report[<<r, n>>]
        BY <3>2
      <4> QED
        BY <2>0, <4>1, <4>2 DEF Child, ToChild, Kind
    <3> QED
      BY <3>1, <3>2
  <2>6. Frozen(r)'
    BY <1>10, <2>0 DEF Frozen
  <2>7. Over(r)'
    BY <2>0 DEF Over, Finished, Up
  <2>8. Witnessed(r)'
    <3>1. r \notin Together(vm)'
      BY <1>10, KidsAre DEF Together
    <3> QED
      BY <2>0, <3>1 DEF Witnessed
  <2>9. /\ (verdict[r] = "works" => ForkWorked(r))'
        /\ (why[r] = "inuse" => SharesBase(r))'
    BY <2>0, HarnessAssumption
  <2> QED
    BY <2>1, <2>2, <2>3, <2>4, <2>5, <2>6, <2>7, <2>8, <2>9
<1> QED
  BY <1>6, <1>7, <1>8, <1>11, OnlyOne

LEMMA ApiNeverUpStep == ASSUME HarnessInv, NEW r \in Runs, ApiNeverUp(r) PROVE HarnessInv'
<1>1. /\ pc[r] = "api" /\ wait[r] = None /\ Fail(r, "api", {})
      /\ UNCHANGED <<k, wait, ans, kind, report, alive, verdict, sock, image, exits, crossed, together>>
  BY DEF ApiNeverUp, At, results
<1>2. wait' = [wait EXCEPT ![r] = None] /\ ans' = [ans EXCEPT ![r] = None]
  BY <1>1 DEF HarnessInv, TypeOK, RunInv, Driving
<1>3. Quits(r, "api", {})
  BY <1>1, <1>2 DEF Quits
<1> QED
  BY <1>3, GivingUp

(* The kinds of spikes. *)
LEMMA KindsAre == ASSUME TypeOK, NEW r \in Runs PROVE kind[r] \in Kinds
BY HarnessAssumption DEF TypeOK

(* The path a VM binds is free, but for the baked one of the host. *)
LEMMA PathIsFree ==
  ASSUME HarnessInv, NEW r \in Runs, pc[r] \in {"boot", "load"}, ~Binds(r)
  PROVE  pc[r] = "boot" /\ SharesBase(r)
<1>0. TypeOK /\ RunInv(r) /\ BakedSocket
  BY DEF HarnessInv
<1>1. kind[r] \in Vsock /\ sock[Path(r)] # None
  BY DEF Binds
<1>2. CASE pc[r] = "load"
  <2>1. k[r] \in 1..Forks[r] /\ k[r] # 0
    BY <1>0, <1>2, Pairs DEF RunInv, Driving, TypeOK
  <2>2. CASE kind[r] \in Serial
    <3>1. Path(r) = <<r, 0>>
      BY <2>1, <2>2 DEF Path, ChildPath, BasePath, Serial
    <3> QED
      BY <1>0, <1>1, <1>2, <2>2, <3>1 DEF RunInv, Sockets
  <2>3. CASE kind[r] \notin Serial
    <3>1. Path(r) = <<r, k[r]>>
      BY <2>1, <2>3 DEF Path, ChildPath
    <3>2. NotBound(r, k[r])
      BY <1>2 DEF NotBound
    <3> QED
      BY <1>0, <1>1, <2>1, <3>1, <3>2 DEF RunInv, Sockets
  <2> QED
    BY <2>2, <2>3
<1>3. CASE pc[r] = "boot"
  <2>1. k[r] = 0
    BY <1>0, <1>3 DEF RunInv, Driving
  <2>2. CASE kind[r] # "i"
    BY <1>0, <1>1, <1>3, <2>1, <2>2 DEF Path, BasePath, RunInv, Sockets
  <2>3. CASE kind[r] = "i"
    <3>1. sock[Baked] # None
      BY <1>1, <2>1, <2>3 DEF Path, BasePath
    <3>2. PICK q \in Runs : /\ sock[Baked] = <<q, 0>> /\ kind[q] = "i"
                            /\ ~ (pc[q] \in {"start", "api", "boot"} /\ k[q] = 0)
      BY <1>0, <3>1 DEF BakedSocket
    <3> QED
      BY <1>3, <2>1, <2>3, <3>2 DEF SharesBase
  <2> QED
    BY <2>2, <2>3
<1> QED
  BY <1>2, <1>3

(* The base boots: it binds its socket. *)
LEMMA ConfigureStep == ASSUME HarnessInv, NEW r \in Runs, ConfigureAndStart(r) PROVE HarnessInv'
<1>0. TypeOK /\ RunInv(r)
  BY DEF HarnessInv
<1>1. /\ UNCHANGED <<k, wait, ans, kind, report, alive, verdict, image, exits, crossed, together>>
      /\ pc[r] = "boot" /\ wait[r] = None
  BY DEF ConfigureAndStart, At, results
<1>2. k[r] = 0 /\ ans[r] = None /\ why[r] = None /\ verdict[r] = None /\ Forks[r] \in Nat
  BY <1>0, <1>1, Pairs DEF RunInv, Driving
<1>3. <<r, 0>> \in VMs /\ <<r, 0>> \in Paths /\ <<r, 0>> # Baked /\ Baked \in Paths
  BY <1>2, Pairs, 0 \in 0..Forks[r]
<1>4. ASSUME NEW w \in {"inuse", "died"}, Fail(r, w, WithBase(r)), UNCHANGED sock,
             w = "inuse" => ~Binds(r)
      PROVE  HarnessInv'
  <2>1. wait' = [wait EXCEPT ![r] = None] /\ ans' = [ans EXCEPT ![r] = None]
    BY <1>0, <1>1, <1>2 DEF TypeOK
  <2>2. WithBase(r) \subseteq VMs /\ \A v \in WithBase(r) : v[1] = r
    BY <1>3 DEF WithBase
  <2>3. w = "inuse" => SharesBase(r)
    BY <1>1, <1>4, PathIsFree
  <2>4. w \in {"api", "inuse", "died", "request"} /\ pc[r] \notin {"done", "failed"}
    BY <1>1
  <2>5. Fail(r, w, WithBase(r)) /\ UNCHANGED sock
    BY <1>4
  <2>6. Quits(r, w, WithBase(r))
    BY <1>1, <2>1, <2>2, <2>3, <2>4, <2>5 DEF Quits
  <2> QED
    BY <2>6, GivingUp
<1>5. CASE /\ Binds(r) /\ sock' = Bound(r) /\ vm' = [vm EXCEPT ![Cur(r)].on = TRUE]
           /\ Goto(r, IF kind[r] \in Vsock THEN "ping" ELSE "snap") /\ UNCHANGED why
  <2> DEFINE g == [vm[<<r, 0>>] EXCEPT !.on = TRUE]
  <2>1. /\ g \in Guest /\ g.inbox = vm[<<r, 0>>].inbox
        /\ vm' = [vm EXCEPT ![<<r, 0>>] = g]
    <3>1. vm[<<r, 0>>] \in Guest
      BY <1>0, <1>3 DEF TypeOK
    <3> QED
      BY <3>1, <1>2, <1>5 DEF Cur, Guest
  <2> HIDE DEF g
  <2>2. /\ vm' \in [VMs -> Guest] /\ vm'[<<r, 0>>] = g
        /\ \A w \in VMs : w # <<r, 0>> => vm'[w] = vm[w]
    BY <1>0, <1>3, <2>1, OneVM
  <2>3. /\ pc'[r] = IF kind[r] \in Vsock THEN "ping" ELSE "snap"
        /\ pc' = [pc EXCEPT ![r] = IF kind[r] \in Vsock THEN "ping" ELSE "snap"]
    BY <1>0, <1>5 DEF Goto, TypeOK
  <2>4. sock' = IF kind[r] \in Vsock
                  THEN [sock EXCEPT ![IF kind[r] = "i" THEN Baked ELSE <<r, 0>>] = <<r, 0>>]
                  ELSE sock
    BY <1>2, <1>5 DEF Bound, Path, BasePath, Cur
  <2>5. /\ sock' \in [Paths -> VMs \cup {None}]
        /\ \A p \in Paths : p \notin {<<r, 0>>, Baked} => sock'[p] = sock[p]
        /\ sock'[<<r, 0>>] = sock[<<r, 0>>] \/ sock'[<<r, 0>>] = <<r, 0>>
        /\ \/ sock'[Baked] = sock[Baked]
           \/ kind[r] = "i" /\ sock'[Baked] = <<r, 0>>
    BY <1>0, <1>3, <2>4 DEF TypeOK
  <2>6. TypeOK'
    BY <1>0, <1>1, <2>2, <2>3, <2>5, <1>5 DEF TypeOK
  <2>7. \A x \in Runs : \A m \in 0..Forks[x] : ~ (x = r /\ m = 0) =>
          sock'[<<x, m>>] = sock[<<x, m>>] /\ vm'[<<x, m>>] = vm[<<x, m>>]
    BY <2>2, <2>5, Pairs
  <2>8. Only(r)
    BY <1>0, <1>1, <1>5, <2>3, <2>7 DEF Only, TypeOK
  <2>9. BakedSocket'
    <3>1. CASE sock'[Baked] = sock[Baked]
      BY <2>3, <2>8, <3>1, BakedKept
    <3>2. CASE kind[r] = "i" /\ sock'[Baked] = <<r, 0>>
      BY <1>1, <2>3, <3>2 DEF BakedSocket
    <3> QED
      BY <2>5, <3>1, <3>2
  <2>10. \A n \in 1..Forks[r] : vm'[<<r, n>>] = vm[<<r, n>>] /\ sock'[<<r, n>>] = sock[<<r, n>>]
    <3>1. \A n \in 1..Forks[r] : n \in 0..Forks[r] /\ n # 0
      BY <1>2
    <3> QED
      BY <2>7, <3>1
  <2>11. RunInv(r)'
    <3> USE <1>0, <1>1, <1>2, <2>3, <2>10 DEF RunInv
    <3>1. Driving(r)'
      BY <1>5 DEF Driving
    <3>2. Sockets(r)'
      BY <2>5 DEF Sockets, NotBound, Early, Cur
    <3>3. Waiting(r)'
      BY DEF Waiting
    <3>4. Base(r)'
      BY <2>1, <2>2 DEF Base, Vsock, Tells
    <3>5. \A n \in 1..Forks[r] : Child(r, n)'
      BY DEF Child, NotSpawned, NotAsked, ToChild, Kind, Early
    <3>6. Frozen(r)' /\ Over(r)'
      BY DEF Frozen, Over, Finished, Up
    <3>7. Witnessed(r)'
      <4>1. r \in Together(vm)' => r \in Together(vm)
        BY KidsAre DEF Together
      <4> QED
        BY <4>1 DEF Witnessed
    <3>8. /\ (verdict[r] = "works" => ForkWorked(r))'
          /\ (why[r] = "inuse" => SharesBase(r))'
      BY <1>5, HarnessAssumption
    <3> QED
      BY <3>1, <3>2, <3>3, <3>4, <3>5, <3>6, <3>7, <3>8
  <2> QED
    BY <2>6, <2>8, <2>9, <2>11, OnlyOne
<1> QED
  BY <1>4, <1>5 DEF ConfigureAndStart

(* A child comes up as the snapshot was, with a socket of its own. *)
LEMMA LoadStep == ASSUME HarnessInv, NEW r \in Runs, Load(r) PROVE HarnessInv'
<1>0. TypeOK /\ RunInv(r)
  BY DEF HarnessInv
<1>1. /\ UNCHANGED <<wait, ans, kind, report, alive, verdict, image, exits, crossed, together>>
      /\ pc[r] = "load" /\ wait[r] = None
  BY DEF Load, At, results
<1>2. /\ k[r] \in 1..Forks[r] /\ k[r] \in 0..Forks[r] /\ k[r] \in Nat /\ Forks[r] \in Nat /\ k[r] > 0
      /\ ans[r] = None /\ why[r] = None /\ verdict[r] = None
  BY <1>0, <1>1, Pairs DEF RunInv, Driving, TypeOK
<1>3. Binds(r)
  BY <1>1, PathIsFree
<1>4. CASE Fail(r, "died", {}) /\ UNCHANGED <<k, sock>>
  <2>1. wait' = [wait EXCEPT ![r] = None] /\ ans' = [ans EXCEPT ![r] = None]
    BY <1>0, <1>1, <1>2 DEF TypeOK
  <2>2. Quits(r, "died", {})
    BY <1>1, <1>4, <2>1 DEF Quits
  <2> QED
    BY <2>2, GivingUp
<1>5. CASE /\ sock' = Bound(r)
           /\ vm' = [vm EXCEPT ![Cur(r)].on = TRUE, ![Cur(r)].held = image[r].held,
                               ![Cur(r)].mid = image[r].mid]
           /\ AfterLoad(r) /\ UNCHANGED why
  <2> DEFINE c == <<r, k[r]>>
             h == image[r].held
             d == image[r].mid
             g == [vm[c] EXCEPT !.on = TRUE, !.held = h, !.mid = d]
  <2>1. c \in VMs /\ c \in Paths /\ c # Baked /\ vm[c] \in Guest /\ h \in BOOLEAN /\ d \in BOOLEAN
    <3>1. c \in VMs /\ c \in Paths /\ c # Baked
      BY <1>2, Pairs
    <3> QED
      BY <1>0, <3>1 DEF TypeOK
  <2>2. vm' = [vm EXCEPT ![c] = g]
    BY <1>0, <1>5, <2>1 DEF Cur, TypeOK
  <2>3. /\ g \in Guest /\ g.proc = vm[c].proc /\ g.on = TRUE /\ g.held = h /\ g.mid = d
        /\ g.stale = vm[c].stale /\ g.told = vm[c].told /\ g.inbox = vm[c].inbox
    <3> HIDE DEF h, d, c
    <3> QED
      BY <2>1 DEF Guest
  <2> HIDE DEF g
  <2>4. /\ vm' \in [VMs -> Guest] /\ vm'[c] = g
        /\ \A w \in VMs : w # c => vm'[w] = vm[w]
    <3> HIDE DEF c
    <3> QED
      BY <1>0, <2>1, <2>2, <2>3, OneVM
  <2>5. sock' = IF kind[r] \in Vsock
                  THEN [sock EXCEPT ![IF kind[r] \in Serial THEN <<r, 0>> ELSE c] = c] ELSE sock
    <3>1. kind[r] \in Serial => Path(r) = <<r, 0>>
      BY <1>2 DEF Path, ChildPath, BasePath, Serial
    <3>2. kind[r] \notin Serial => Path(r) = c
      BY <1>2 DEF Path, ChildPath
    <3>3. sock' = IF kind[r] \in Vsock THEN [sock EXCEPT ![Path(r)] = c] ELSE sock
      BY <1>5 DEF Bound, Cur
    <3> HIDE DEF c
    <3> QED
      BY <3>1, <3>2, <3>3
  <2>6. /\ sock' \in [Paths -> VMs \cup {None}] /\ sock'[Baked] = sock[Baked]
        /\ \A p \in Paths : p \notin {<<r, 0>>, c} => sock'[p] = sock[p]
        /\ sock'[<<r, 0>>] = IF kind[r] \in Serial THEN c ELSE sock[<<r, 0>>]
        /\ sock'[c] = sock[c] \/ (sock'[c] = c /\ kind[r] \notin Serial)
    <3>1. <<r, 0>> \in Paths /\ <<r, 0>> # Baked /\ <<r, 0>> # c /\ Baked \in Paths
      BY <1>2, Pairs, 0 \in 0..Forks[r]
    <3>2. kind[r] \in Serial => kind[r] \in Vsock
      BY DEF Serial, Vsock
    <3> HIDE DEF c
    <3> QED
      BY <1>0, <2>1, <2>5, <3>1, <3>2 DEF TypeOK
  <2>7. \/ pc'[r] = "fork" /\ k'[r] = k[r] /\ kind[r] \notin Serial /\ k[r] < Forks[r]
        \/ kind[r] \in Plain /\ pc'[r] = "kill" /\ k'[r] = 1
        \/ kind[r] = "i" /\ pc'[r] = "poll" /\ k'[r] = 1
        \/ kind[r] = "j" /\ pc'[r] = "ask" /\ k'[r] = 1
        \/ kind[r] \in Serial /\ pc'[r] = "ask" /\ k'[r] = k[r]
    BY <1>0, <1>5, KindsAre DEF AfterLoad, Goto, TypeOK, Kinds, Serial, Plain
  <2>8. /\ \A x \in Runs : x # r => pc'[x] = pc[x] /\ k'[x] = k[x]
        /\ k' \in [Runs -> Nat] /\ \A x \in Runs : k'[x] <= Forks[x]
    <3>1. \A x \in Runs : x # r => pc'[x] = pc[x]
      BY <1>0, <1>5 DEF AfterLoad, Goto, TypeOK
    <3>2. k \in [Runs -> Nat] /\ (\A x \in Runs : k[x] <= Forks[x]) /\ 1 <= Forks[r] /\ 1 \in Nat
      BY <1>0, <1>2 DEF TypeOK
    <3>3. CASE k' = k
      BY <3>1, <3>2, <3>3
    <3>4. CASE k' = [k EXCEPT ![r] = 1]
      <4>1. \A x \in Runs : k'[x] = IF x = r THEN 1 ELSE k[x]
        BY <3>2, <3>4
      <4>2. k' \in [Runs -> Nat]
        BY <3>2, <3>4
      <4> QED
        BY <3>1, <3>2, <4>1, <4>2
    <3>5. k' = k \/ k' = [k EXCEPT ![r] = 1]
      BY <1>5 DEF AfterLoad
    <3> QED
      BY <3>3, <3>4, <3>5
  <2>9. TypeOK'
    <3>1. pc' \in [Runs -> {"start", "api", "boot", "ping", "quiesce", "snap", "fork",
                            "load", "poll", "ask", "kill", "verdict", "done", "failed"}]
      BY <1>0, <1>5 DEF AfterLoad, Goto, TypeOK
    <3> QED
      BY <1>0, <1>1, <1>5, <2>4, <2>6, <2>8, <3>1 DEF TypeOK
  <2>10. \A x \in Runs : \A m \in 0..Forks[x] : x # r =>
           sock'[<<x, m>>] = sock[<<x, m>>] /\ vm'[<<x, m>>] = vm[<<x, m>>]
    BY <2>4, <2>6, Pairs
  <2>11. Only(r)
    BY <1>1, <1>5, <2>8, <2>10 DEF Only
  <2>12. BakedSocket'
    BY <2>6, <2>7, <2>11, BakedKept
  <2>13. /\ \A n \in 1..Forks[r] : n # k[r] =>
              vm'[<<r, n>>] = vm[<<r, n>>] /\ sock'[<<r, n>>] = sock[<<r, n>>]
         /\ vm'[<<r, 0>>] = vm[<<r, 0>>]
    <3>1. \A n \in 0..Forks[r] : n # k[r] => <<r, n>> \in VMs /\ <<r, n>> \in Paths /\ <<r, n>> # c
      BY Pairs
    <3>2. /\ \A n \in 1..Forks[r] : n \in 0..Forks[r] /\ <<r, n>> # <<r, 0>>
          /\ 0 \in 0..Forks[r] /\ 0 # k[r]
      BY <1>2
    <3> HIDE DEF c
    <3> QED
      BY <2>4, <2>6, <3>1, <3>2
  <2>14. RunInv(r)'
    <3> USE <1>0, <1>1, <1>2, <2>7, <2>13 DEF RunInv
    <3>1. Driving(r)'
      BY <1>5 DEF Driving, Vsock, Serial, Plain
    <3>2. Sockets(r)'
      <4>1. sock'[<<r, 0>>] # None =>
              sock'[<<r, 0>>] = IF kind[r] \in Serial THEN <<r, k'[r]>> ELSE <<r, 0>>
        BY <2>6 DEF Sockets, Plain, Serial
      <4>2. \A n \in 1..Forks[r] :
              /\ sock'[<<r, n>>] # None => sock'[<<r, n>>] = <<r, n>>
              /\ NotBound(r, n)' => sock'[<<r, n>>] = None
        <5> SUFFICES ASSUME NEW n \in 1..Forks[r]
                     PROVE  /\ sock'[<<r, n>>] # None => sock'[<<r, n>>] = <<r, n>>
                            /\ NotBound(r, n)' => sock'[<<r, n>>] = None
          OBVIOUS
        <5>1. NotBound(r, n)' => NotBound(r, n) /\ (n # k[r] \/ kind[r] \in Serial)
          BY DEF NotBound, Early
        <5> QED
          BY <2>6, <5>1 DEF Sockets
      <4> QED
        BY <4>1, <4>2 DEF Sockets, Cur
    <3>3. Waiting(r)'
      BY DEF Waiting
    <3>4. Base(r)'
      BY DEF Base
    <3>5. \A n \in 1..Forks[r] :
            /\ vm'[<<r, n>>].told = vm[<<r, n>>].told /\ vm'[<<r, n>>].inbox = vm[<<r, n>>].inbox
            /\ vm'[<<r, n>>].proc = vm[<<r, n>>].proc /\ vm'[<<r, n>>].stale = vm[<<r, n>>].stale
      BY <2>3, <2>4
    <3>6. \A n \in 1..Forks[r] : Child(r, n)'
      <4> SUFFICES ASSUME NEW n \in 1..Forks[r] PROVE Child(r, n)'
        OBVIOUS
      <4>1. /\ NotSpawned(r, n)' => NotSpawned(r, n) /\ n # k[r]
            /\ NotAsked(r, n)' => NotAsked(r, n)
            /\ pc'[r] = "ask" /\ n >= k'[r] => NotAsked(r, n)
        BY DEF NotSpawned, NotAsked, Early, Serial, Plain
      <4>2. Child(r, n) /\ report'[<<r, n>>] = report[<<r, n>>]
        OBVIOUS
      <4> QED
        BY <3>5, <4>1, <4>2 DEF Child, ToChild, Kind
    <3>7. Frozen(r)'
      <4>1. kind[r] \in Tells /\ r \notin crossed => image[r].held
        BY DEF Frozen
      <4>2. /\ vm'[<<r, k[r]>>].held = image[r].held /\ vm'[<<r, k[r]>>].mid = image[r].mid
            /\ vm'[<<r, k[r]>>].stale = vm[<<r, k[r]>>].stale
        BY <2>3, <2>4
      <4> QED
        BY <4>1, <4>2 DEF Frozen
    <3>8. Over(r)'
      BY <3>5 DEF Over, Finished, Up, Serial, Plain
    <3>9. Witnessed(r)'
      <4>1. r \in Together(vm)' => r \in Together(vm)
        BY <3>5, KidsAre DEF Together
      <4> QED
        BY <4>1 DEF Witnessed
    <3>10. /\ (verdict[r] = "works" => ForkWorked(r))'
           /\ (why[r] = "inuse" => SharesBase(r))'
      BY <1>5, HarnessAssumption
    <3> QED
      BY <3>1, <3>2, <3>3, <3>4, <3>6, <3>7, <3>8, <3>9, <3>10
  <2> QED
    BY <2>9, <2>11, <2>12, <2>14, OnlyOne
<1> QED
  BY <1>3, <1>4, <1>5 DEF Load

-----------------------------------------------------------------------------
(***************************************************************************)
(* Whom a request reaches: the child that the spike deals with, or a base, *)
(* its own unless the path is the baked one of the host.                   *)
(***************************************************************************)
LEMMA Destination ==
  ASSUME HarnessInv, NEW r \in Runs, pc[r] \in {"ping", "quiesce", "ask"},
         NEW v, v = sock[Path(r)], v # None
  PROVE  /\ v \in VMs
         /\ pc[r] = "ask" => k[r] \in 1..Forks[r] /\ v = <<r, k[r]>>
         /\ pc[r] # "ask" => k[r] = 0 /\ \E y \in Runs : v = <<y, 0>>
<1>0. TypeOK /\ RunInv(r) /\ BakedSocket
  BY DEF HarnessInv
<1>1. CASE pc[r] = "ask"
  <2>1. k[r] \in 1..Forks[r] /\ k[r] # 0 /\ <<r, k[r]>> \in VMs
    <3>1. k[r] \in 1..Forks[r] /\ k[r] \in 0..Forks[r] /\ k[r] # 0
      BY <1>0, <1>1, Pairs DEF RunInv, Driving, TypeOK
    <3> QED
      BY <3>1, Pairs
  <2>2. CASE kind[r] \in Serial
    <3>1. Path(r) = <<r, 0>>
      BY <2>1, <2>2 DEF Path, ChildPath, BasePath, Serial
    <3> QED
      BY <1>0, <1>1, <2>1, <2>2, <3>1 DEF RunInv, Sockets, Cur
  <2>3. CASE kind[r] \notin Serial
    <3>1. Path(r) = <<r, k[r]>>
      BY <2>1, <2>3 DEF Path, ChildPath
    <3> QED
      BY <1>0, <1>1, <2>1, <3>1 DEF RunInv, Sockets
  <2> QED
    BY <2>2, <2>3
<1>2. CASE pc[r] # "ask"
  <2>1. k[r] = 0 /\ <<r, 0>> \in VMs
    BY <1>0, <1>2 DEF RunInv, Driving, VMs
  <2>2. CASE kind[r] # "i"
    <3>1. v = <<r, 0>>
      BY <1>0, <2>1, <2>2 DEF Path, BasePath, RunInv, Sockets, Cur
    <3> QED
      BY <1>2, <2>1, <3>1
  <2>3. CASE kind[r] = "i"
    <3>1. sock[Baked] = v
      BY <2>1, <2>3 DEF Path, BasePath
    <3>2. PICK q \in Runs : sock[Baked] = <<q, 0>>
      BY <1>0, <3>1 DEF BakedSocket
    <3>3. <<q, 0>> \in VMs
      BY DEF VMs
    <3> QED
      BY <1>2, <2>1, <3>1, <3>2, <3>3
  <2> QED
    BY <2>2, <2>3
<1> QED
  BY <1>1, <1>2

(* A request is put into the inbox of a VM. *)
LEMMA Posted ==
  ASSUME TypeOK, NEW v \in VMs, NEW q \in Request, vm' = [vm EXCEPT ![v].inbox = Append(@, q)]
  PROVE  /\ vm' \in [VMs -> Guest]
         /\ \A w \in VMs : w # v => vm'[w] = vm[w]
         /\ vm'[v].inbox = Append(vm[v].inbox, q) /\ vm[v].inbox \in Seq(Request)
         /\ vm'[v].proc = vm[v].proc /\ vm'[v].on = vm[v].on /\ vm'[v].held = vm[v].held
         /\ vm'[v].fresh = vm[v].fresh /\ vm'[v].mid = vm[v].mid
         /\ vm'[v].told = vm[v].told /\ vm'[v].stale = vm[v].stale
<1> DEFINE b == Append(vm[v].inbox, q)
           g == [vm[v] EXCEPT !.inbox = b]
<1>1. vm[v] \in Guest
  BY DEF TypeOK
<1>2. vm[v].inbox \in Seq(Request) /\ b \in Seq(Request)
  BY <1>1, GuestFields, AppendProperties
<1>3. vm' = [vm EXCEPT ![v] = g]
  BY <1>1 DEF TypeOK
<1> HIDE DEF b
<1>4. /\ g \in Guest /\ g.inbox = b /\ g.proc = vm[v].proc /\ g.on = vm[v].on
      /\ g.held = vm[v].held /\ g.fresh = vm[v].fresh /\ g.mid = vm[v].mid
      /\ g.told = vm[v].told /\ g.stale = vm[v].stale
  BY <1>1, <1>2 DEF Guest
<1> HIDE DEF g
<1>5. /\ vm' \in [VMs -> Guest] /\ vm'[v] = g
      /\ \A w \in VMs : w # v => vm'[w] = vm[w]
  BY <1>3, <1>4, OneVM
<1> QED
  BY <1>2, <1>4, <1>5 DEF b

LEMMA AskStep == ASSUME HarnessInv, NEW r \in Runs, Ask(r) PROVE HarnessInv'
<1>0. TypeOK /\ RunInv(r) /\ BakedSocket
  BY DEF HarnessInv
<1> DEFINE v == sock[Path(r)]
           c == <<r, k[r]>>
           q == [to |-> v, what |-> Question(r), by |-> c]
<1>1. /\ UNCHANGED <<pc, k, ans, kind, report, alive, verdict, sock, image, exits, why, together>>
      /\ pc[r] \in {"ping", "quiesce", "ask"} /\ wait[r] = None
      /\ v # None /\ Up(v) /\ wait' = [wait EXCEPT ![r] = q]
      /\ vm' = [vm EXCEPT ![v].inbox = Append(@, q)]
      /\ crossed' = IF k[r] = 0 /\ v # c THEN crossed \cup {r} ELSE crossed
  BY DEF Ask, Connect, Refused, Cur, results
<1>2. /\ ans[r] = None /\ why[r] = None /\ verdict[r] = None /\ Forks[r] \in Nat
      /\ k[r] \in 0..Forks[r] /\ c \in VMs
  <2>1. k[r] \in 0..Forks[r] /\ Forks[r] \in Nat
    BY <1>0, Pairs DEF TypeOK
  <2> QED
    BY <1>0, <1>1, <2>1, Pairs DEF RunInv, Driving
<1>3. /\ v \in VMs
      /\ pc[r] = "ask" => k[r] \in 1..Forks[r] /\ v = c
      /\ pc[r] # "ask" => k[r] = 0 /\ \E y \in Runs : v = <<y, 0>>
  <2> HIDE DEF v
  <2> QED
    BY <1>1, Destination DEF v
<1>4. /\ Question(r) \in {"PING", "QUIESCE", "CHECK", "FORKED"}
      /\ pc[r] = "ask" => Question(r) = Kind(r)
      /\ pc[r] # "ask" => Question(r) # "FORKED"
      /\ pc[r] # "ask" => (Question(r) = "QUIESCE" <=> pc[r] = "quiesce")
  BY <1>1 DEF Question, Kind
<1> HIDE DEF v, c
<1>5. q \in Request /\ q.to = v /\ q.what = Question(r) /\ q.by = c /\ q # None
  <2>1. q \in Request /\ q.to = v /\ q.what = Question(r) /\ q.by = c
    BY <1>2, <1>3, <1>4 DEF Request
  <2> QED
    BY <2>1, HarnessAssumption
<1> HIDE DEF q
<1>6. /\ vm' \in [VMs -> Guest]
      /\ \A w \in VMs : w # v => vm'[w] = vm[w]
      /\ vm'[v].inbox = Append(vm[v].inbox, q) /\ vm[v].inbox \in Seq(Request)
      /\ vm'[v].proc = vm[v].proc /\ vm'[v].on = vm[v].on /\ vm'[v].held = vm[v].held
      /\ vm'[v].fresh = vm[v].fresh /\ vm'[v].mid = vm[v].mid
      /\ vm'[v].told = vm[v].told /\ vm'[v].stale = vm[v].stale
  BY <1>0, <1>1, <1>3, <1>5, Posted
<1>7. TypeOK'
  <2>1. wait' \in [Runs -> Request \cup {None}] /\ crossed' \subseteq Runs
    BY <1>0, <1>1, <1>5 DEF TypeOK
  <2> QED
    BY <1>0, <1>1, <1>6, <2>1 DEF TypeOK
<1>8. BakedSocket'
  BY <1>0, <1>1 DEF BakedSocket
<1>9. /\ wait'[r] = q /\ \A x \in Runs : x # r => wait'[x] = wait[x]
      /\ \A x \in Runs : x # r => (x \in crossed' <=> x \in crossed)
      /\ r \in crossed => r \in crossed'
  BY <1>0, <1>1 DEF TypeOK
<1>10. Driving(r)' /\ Sockets(r)' /\ (why[r] = "inuse" => SharesBase(r))'
       /\ (verdict[r] = "works" => ForkWorked(r))'
  <2>1. Driving(r)'
    BY <1>0, <1>1, <1>2, <1>5, <1>9 DEF RunInv, Driving
  <2>2. Sockets(r)'
    BY <1>0, <1>1 DEF RunInv, Sockets, NotBound, Cur
  <2> QED
    BY <1>1, <1>2, <2>1, <2>2, HarnessAssumption
<1>11. \A x \in Runs : \A n \in 0..Forks[x] :
         /\ vm'[<<x, n>>].told = vm[<<x, n>>].told /\ vm'[<<x, n>>].stale = vm[<<x, n>>].stale
         /\ vm'[<<x, n>>].proc = vm[<<x, n>>].proc /\ vm'[<<x, n>>].held = vm[<<x, n>>].held
         /\ vm'[<<x, n>>].on = vm[<<x, n>>].on /\ vm'[<<x, n>>].fresh = vm[<<x, n>>].fresh
         /\ vm'[<<x, n>>].mid = vm[<<x, n>>].mid
  <2>1. \A x \in Runs : \A n \in 0..Forks[x] : <<x, n>> \in VMs
    BY Pairs
  <2> QED
    BY <1>6, <2>1
<1>12. Frozen(r)' /\ Over(r)' /\ Witnessed(r)'
  <2>0. \A n \in 1..Forks[r] : n \in 0..Forks[r]
    BY <1>2
  <2>1. Frozen(r)'
    BY <1>0, <1>1, <1>9, <1>11, <2>0 DEF RunInv, Frozen
  <2>2. Over(r)'
    BY <1>0, <1>1, <1>11, <2>0 DEF RunInv, Over, Finished, Up
  <2>3. r \in Together(vm)' => r \in Together(vm)
    BY <1>11, <2>0, KidsAre DEF Together
  <2>4. Witnessed(r)'
    BY <1>0, <1>1, <2>3 DEF RunInv, Witnessed
  <2> QED
    BY <2>1, <2>2, <2>4
<1>13. CASE pc[r] = "ask"
  <2>1. crossed' = crossed /\ v = c /\ k[r] \in 1..Forks[r]
    BY <1>1, <1>3, <1>13
  <2>2. \A x \in Runs : x # r => \A n \in 0..Forks[x] : vm'[<<x, n>>] = vm[<<x, n>>]
    <3>1. \A x \in Runs : x # r => \A n \in 0..Forks[x] : <<x, n>> \in VMs /\ <<x, n>> # v
      BY <2>1, Pairs DEF c
    <3> QED
      BY <1>6, <3>1
  <2>3. Only(r)
    BY <1>1, <1>9, <2>1, <2>2 DEF Only
  <2>4. \A n \in 0..Forks[r] : n # k[r] => vm'[<<r, n>>] = vm[<<r, n>>]
    <3>1. \A n \in 0..Forks[r] : n # k[r] => <<r, n>> \in VMs /\ <<r, n>> # v
      BY <2>1, Pairs DEF c
    <3> QED
      BY <1>6, <3>1
  <2>5. ToChild(q, c)
    BY <1>4, <1>5, <1>13, <2>1 DEF ToChild, c, Kind
  <2>6. Waiting(r)'
    <3>1. ToChild(wait[r], Cur(r))'
      BY <1>1, <1>9, <2>5 DEF ToChild, Cur, Kind, c
    <3> QED
      BY <1>1, <1>2, <1>13, <3>1, HarnessAssumption DEF Waiting
  <2>7. Base(r)'
    <3>1. vm'[<<r, 0>>] = vm[<<r, 0>>]
      BY <1>2, <2>1, <2>4
    <3> QED
      BY <1>0, <1>1, <1>13, <2>1, <3>1 DEF RunInv, Base, Up
  <2>8. \A n \in 1..Forks[r] : Child(r, n)'
    <3> SUFFICES ASSUME NEW n \in 1..Forks[r] PROVE Child(r, n)'
      OBVIOUS
    <3>1. Child(r, n) /\ n \in 0..Forks[r]
      BY <1>0, <1>2 DEF RunInv
    <3>2. /\ NotSpawned(r, n)' <=> NotSpawned(r, n)
          /\ NotAsked(r, n)' => NotAsked(r, n) /\ n # k[r]
          /\ NotSpawned(r, n) => n # k[r]
      BY <1>0, <1>1, <1>2, <1>5, <1>9, <1>13 DEF NotSpawned, NotAsked, Early, TypeOK
    <3>3. CASE n # k[r]
      <4>1. vm'[<<r, n>>] = vm[<<r, n>>] /\ report' = report /\ pc' = pc /\ k' = k /\ kind' = kind
        BY <1>1, <2>4, <3>1, <3>3
      <4> QED
        BY <3>1, <3>2, <4>1 DEF Child, ToChild, Kind
    <3>4. CASE n = k[r]
      <4>1. NotAsked(r, n)
        BY <1>1, <1>13, <3>4 DEF NotAsked
      <4>2. vm[c].inbox = << >> /\ vm[c].told = None /\ report[c] = None
        BY <3>1, <3>4, <4>1 DEF Child, c
      <4>3. vm'[c].inbox = <<q>> /\ vm'[c].told = None
        BY <1>6, <2>1, <4>2
      <4>4. Len(vm'[c].inbox) = 1 /\ vm'[c].inbox[1] = q
        BY <4>3
      <4>5. report'[c] = None /\ None # "READY"
        BY <1>1, <4>2, HarnessAssumption
      <4>6. <<r, n>> = c /\ k' = k
        BY <1>1, <3>4 DEF c
      <4>7. ASSUME NEW u, u = c PROVE ToChild(vm[u].inbox[1], u)'
        BY <1>1, <2>5, <4>4, <4>7 DEF ToChild, Kind
      <4>8. ToChild(vm[<<r, n>>].inbox[1], <<r, n>>)'
        BY <4>6, <4>7
      <4> QED
        BY <3>2, <3>4, <4>3, <4>4, <4>5, <4>6, <4>8 DEF Child
    <3> QED
      BY <3>3, <3>4
  <2>9. RunInv(r)'
    BY <1>10, <1>12, <2>6, <2>7, <2>8 DEF RunInv
  <2> QED
    BY <1>7, <1>8, <2>3, <2>9, OnlyOne
<1>14. CASE pc[r] # "ask"
  <2>0. k[r] = 0 /\ c = <<r, 0>>
    BY <1>3, <1>14 DEF c
  <2>1. PICK y \in Runs : v = <<y, 0>>
    BY <1>3, <1>14
  <2>2. \A x \in Runs : \A n \in 1..Forks[x] : vm'[<<x, n>>] = vm[<<x, n>>]
    <3>1. \A x \in Runs : \A n \in 1..Forks[x] : n \in 0..Forks[x] /\ n # 0
      BY Pairs
    <3>2. \A x \in Runs : \A n \in 1..Forks[x] : <<x, n>> \in VMs /\ <<x, n>> # v
      BY <2>1, <3>1, Pairs
    <3> QED
      BY <1>6, <3>2
  <2>3. ToBase(q, v)
    BY <1>4, <1>5, <1>14, <2>0 DEF ToBase
  <2>4. ASSUME NEW x \in Runs
        PROVE  \A j \in 1..Len(vm'[<<x, 0>>].inbox) : ToBase(vm'[<<x, 0>>].inbox[j], <<x, 0>>)
    <3>1. /\ \A j \in 1..Len(vm[<<x, 0>>].inbox) : ToBase(vm[<<x, 0>>].inbox[j], <<x, 0>>)
          /\ <<x, 0>> \in VMs
      BY DEF HarnessInv, RunInv, Base, VMs
    <3>2. CASE <<x, 0>> # v
      BY <1>6, <3>1, <3>2
    <3>3. CASE <<x, 0>> = v
      <4> SUFFICES ASSUME NEW j \in 1..Len(vm'[v].inbox) PROVE ToBase(vm'[v].inbox[j], v)
        BY <3>3
      <4> DEFINE s == vm[v].inbox
      <4>1. s \in Seq(Request) /\ vm'[v].inbox = Append(s, q) /\ Len(s) \in Nat
        BY <1>6
      <4>2. \A i \in 1..Len(s) : ToBase(s[i], v)
        BY <3>1, <3>3
      <4> HIDE DEF s
      <4>3. /\ Len(Append(s, q)) = Len(s) + 1
            /\ \A i \in 1..Len(s) : Append(s, q)[i] = s[i]
            /\ Append(s, q)[Len(s) + 1] = q
        BY <1>5, <4>1, AppendProperties
      <4>4. j \in 1..Len(s) \/ j = Len(s) + 1
        BY <4>1, <4>3
      <4> QED
        BY <2>3, <4>1, <4>2, <4>3, <4>4
    <3> QED
      BY <3>2, <3>3
  <2>5. ASSUME NEW x \in Runs, x # r PROVE RunInv(x)'
    <3>1. RunInv(x) /\ 0 \in 0..Forks[x]
      BY Pairs DEF HarnessInv
    <3>2. \A n \in 1..Forks[x] : Weaker(<<x, n>>)
      BY <2>2 DEF Weaker
    <3>3. vm'[<<x, 0>>].proc = "up" => Up(<<x, 0>>) /\ vm'[<<x, 0>>].held = vm[<<x, 0>>].held
      BY <1>11, <3>1 DEF Up
    <3>4. Frame(x)
      BY <1>1, <1>9, <2>4, <2>5, <3>2, <3>3 DEF Frame
    <3> QED
      BY <1>0, <3>1, <3>4, FrameKeeps
  <2>6. Waiting(r)'
    <3>1. wait'[r] = q /\ k' = k /\ pc' = pc /\ ans' = ans
      BY <1>1, <1>9
    <3>2. q.by = c /\ q.to[2] = 0 /\ q.to = v /\ (q.what = "QUIESCE" <=> pc[r] = "quiesce")
      BY <1>4, <1>5, <1>14, <2>1
    <3>3. v # c => r \in crossed'
      BY <1>1, <2>0
    <3> QED
      BY <1>2, <1>14, <2>3, <3>1, <3>2, <3>3, HarnessAssumption DEF Waiting, Cur, c, ToBase
  <2>7. Base(r)'
    <3>1. (\A j \in 1..Len(vm[<<r, 0>>].inbox) : ToBase(vm[<<r, 0>>].inbox[j], <<r, 0>>))'
      BY <2>4 DEF ToBase
    <3> QED
      BY <1>1, <1>2, <3>1, HarnessAssumption DEF Base
  <2>8. \A n \in 1..Forks[r] : Child(r, n)'
    <3> SUFFICES ASSUME NEW n \in 1..Forks[r] PROVE Child(r, n)'
      OBVIOUS
    <3>1. Child(r, n) /\ vm'[<<r, n>>] = vm[<<r, n>>] /\ report' = report /\ pc' = pc /\ k' = k
          /\ kind' = kind
      BY <1>0, <1>1, <2>2 DEF RunInv
    <3>2. NotSpawned(r, n)' <=> NotSpawned(r, n)
      BY <3>1 DEF NotSpawned
    <3>3. NotAsked(r, n)' => NotAsked(r, n)
      BY <1>1, <1>14, <3>1 DEF NotAsked
    <3> QED
      BY <3>1, <3>2, <3>3 DEF Child, ToChild, Kind
  <2>9. RunInv(r)'
    BY <1>10, <1>12, <2>6, <2>7, <2>8 DEF RunInv
  <2> QED
    BY <1>7, <1>8, <2>5, <2>9 DEF HarnessInv
<1> QED
  BY <1>13, <1>14

-----------------------------------------------------------------------------
(***************************************************************************)
(* A request is over, with what the spike has noted and goes on from: a    *)
(* READY of a child that was told its branch, a base that is held.         *)
(***************************************************************************)
Ends(r, a) ==
  /\ pc[r] \in {"ping", "quiesce", "ask"}
  /\ a \in {"READY", "ERR"} /\ Noted(r, a) /\ Proceed(r)
  /\ wait' = [wait EXCEPT ![r] = None] /\ ans' = [ans EXCEPT ![r] = None]
  /\ UNCHANGED <<kind, alive, verdict, vm, sock, image, exits, why, crossed, together>>
  /\ pc[r] = "ask" /\ kind[r] \in Tells /\ a = "READY" => vm[<<r, k[r]>>].told = <<r, k[r]>>
  /\ pc[r] = "quiesce" /\ r \notin crossed /\ Up(<<r, 0>>) => vm[<<r, 0>>].held

LEMMA EndsRequest ==
  ASSUME HarnessInv, NEW r \in Runs, NEW a, Ends(r, a)
  PROVE  HarnessInv'
<1>0. TypeOK /\ RunInv(r)
  BY DEF HarnessInv
<1>1. /\ UNCHANGED <<kind, alive, verdict, vm, sock, image, exits, why, crossed, together>>
      /\ pc[r] \in {"ping", "quiesce", "ask"}
      /\ pc[r] = "quiesce" /\ r \notin crossed /\ Up(<<r, 0>>) => vm[<<r, 0>>].held
  BY DEF Ends
<1>2. /\ wait'[r] = None /\ ans'[r] = None
      /\ wait' \in [Runs -> Request \cup {None}] /\ ans' \in [Runs -> {None, "ok", "ERR"}]
      /\ \A x \in Runs : x # r => wait'[x] = wait[x] /\ ans'[x] = ans[x]
  BY <1>0 DEF Ends, TypeOK
<1>3. /\ k[r] \in Nat /\ k[r] <= Forks[r] /\ Forks[r] \in Nat
      /\ pc[r] = "ask" => k[r] \in 1..Forks[r]
      /\ pc[r] # "ask" => k[r] = 0
      /\ why[r] = None /\ verdict[r] = None
  BY <1>0, <1>1, Pairs DEF RunInv, Driving, TypeOK
<1>4. /\ \/ pc[r] = "ping" /\ kind[r] \in Tells /\ pc'[r] = "quiesce" /\ k'[r] = k[r]
         \/ pc[r] = "ping" /\ kind[r] \notin Tells /\ pc'[r] = "snap" /\ k'[r] = k[r]
         \/ pc[r] = "quiesce" /\ pc'[r] = "snap" /\ k'[r] = k[r]
         \/ /\ pc[r] = "ask" /\ kind[r] \notin Serial /\ k[r] < Forks[r]
            /\ pc'[r] = "ask" /\ k'[r] = k[r] + 1
         \/ pc[r] = "ask" /\ pc'[r] = "kill" /\ k'[r] = k[r]
      /\ \A x \in Runs : x # r => pc'[x] = pc[x] /\ k'[x] = k[x]
  BY <1>0, <1>1 DEF Ends, Proceed, Goto, TypeOK
<1>5. /\ pc' \in [Runs -> {"start", "api", "boot", "ping", "quiesce", "snap", "fork",
                           "load", "poll", "ask", "kill", "verdict", "done", "failed"}]
      /\ k' \in [Runs -> Nat] /\ \A x \in Runs : k'[x] <= Forks[x]
  <2>1. pc' \in [Runs -> {"start", "api", "boot", "ping", "quiesce", "snap", "fork",
                           "load", "poll", "ask", "kill", "verdict", "done", "failed"}]
    BY <1>0 DEF Ends, Proceed, Goto, TypeOK
  <2>2. k' \in [Runs -> Nat]
    BY <1>0, <1>3 DEF Ends, Proceed, TypeOK
  <2>3. k'[r] <= Forks[r]
    BY <1>3, <1>4
  <2> QED
    BY <1>0, <1>4, <2>1, <2>2, <2>3 DEF TypeOK
<1>6. /\ report' \in [Branch -> {None, "READY", "ERR"}]
      /\ \A b \in Branch : b # <<r, k[r]>> \/ pc[r] # "ask" => report'[b] = report[b]
      /\ pc[r] = "ask" => \/ report'[<<r, k[r]>>] = report[<<r, k[r]>>]
                          \/ kind[r] \in Tells /\ report'[<<r, k[r]>>] = a
  <2>1. pc[r] = "ask" => <<r, k[r]>> \in Branch
    BY <1>3, Pairs
  <2>2. report' = IF pc[r] = "ask" /\ kind[r] \in Tells
                    THEN [report EXCEPT ![<<r, k[r]>>] = a] ELSE report
    BY DEF Ends, Noted, Cur
  <2>3. a \in {"READY", "ERR"} /\ report \in [Branch -> {None, "READY", "ERR"}]
    BY <1>0 DEF Ends, TypeOK
  <2> QED
    BY <2>1, <2>2, <2>3
<1>7. TypeOK'
  BY <1>0, <1>1, <1>2, <1>5, <1>6 DEF TypeOK
<1>8. \A x \in Runs : \A n \in 1..Forks[x] :
        x # r \/ n # k[r] \/ pc[r] # "ask" => report'[<<x, n>>] = report[<<x, n>>]
  <2>1. \A x \in Runs : \A n \in 1..Forks[x] : <<x, n>> \in Branch
    BY Pairs
  <2> QED
    BY <1>6, <2>1
<1>9. Only(r)
  BY <1>1, <1>2, <1>4, <1>8 DEF Only
<1>10. BakedSocket'
  BY <1>1, <1>4, <1>9, BakedKept
<1>11. RunInv(r)'
  <2> USE <1>0, <1>1, <1>2, <1>3, <1>4 DEF RunInv
  <2>1. Driving(r)'
    BY DEF Driving
  <2>2. Sockets(r)'
    BY DEF Sockets, NotBound, Early, Cur, Serial
  <2>3. Waiting(r)'
    BY DEF Waiting
  <2>4. Base(r)'
    <3>1. None # "ok"
      BY HarnessAssumption
    <3> QED
      BY <3>1 DEF Base, ToBase, Up
  <2>5. \A n \in 1..Forks[r] : Child(r, n)'
    <3> SUFFICES ASSUME NEW n \in 1..Forks[r] PROVE Child(r, n)'
      OBVIOUS
    <3>1. /\ NotSpawned(r, n)' => NotSpawned(r, n)
          /\ NotAsked(r, n)' => NotAsked(r, n) /\ (n # k[r] \/ pc[r] # "ask")
      BY DEF NotSpawned, NotAsked, Early, Serial
    <3>2. pc'[r] = "ask" /\ n >= k'[r] => pc[r] = "ask" /\ n > k[r]
      OBVIOUS
    <3>3. report'[<<r, n>>] = "READY" => vm[<<r, n>>].told = <<r, n>>
      <4>1. report[<<r, n>>] = "READY" => vm[<<r, n>>].told = <<r, n>>
        BY DEF Child
      <4>2. CASE n # k[r] \/ pc[r] # "ask"
        BY <1>8, <4>1, <4>2
      <4>3. CASE n = k[r] /\ pc[r] = "ask"
        BY <1>6, <4>1, <4>3 DEF Ends
      <4> QED
        BY <4>2, <4>3
    <3>4. /\ NotAsked(r, n)' => report'[<<r, n>>] = report[<<r, n>>]
          /\ pc'[r] = "ask" /\ n >= k'[r] => report'[<<r, n>>] = report[<<r, n>>]
      BY <1>8, <3>1, <3>2
    <3>5. Child(r, n) /\ vm'[<<r, n>>] = vm[<<r, n>>]
      OBVIOUS
    <3> QED
      BY <3>1, <3>2, <3>3, <3>4, <3>5 DEF Child, ToChild, Kind
  <2>6. Frozen(r)'
    BY DEF Frozen
  <2>7. Over(r)'
    BY DEF Over, Finished, Up
  <2>8. Witnessed(r)'
    <3>1. r \in Together(vm)' => r \in Together(vm)
      BY DEF Together
    <3> QED
      BY <3>1 DEF Witnessed
  <2>9. /\ (verdict[r] = "works" => ForkWorked(r))'
        /\ (why[r] = "inuse" => SharesBase(r))'
    BY HarnessAssumption
  <2> QED
    BY <2>1, <2>2, <2>3, <2>4, <2>5, <2>6, <2>7, <2>8, <2>9
<1> QED
  BY <1>7, <1>9, <1>10, <1>11, OnlyOne

LEMMA ReceiveEnds ==
  ASSUME HarnessInv, NEW r \in Runs, Receive(r)
  PROVE  Ends(r, "READY") \/ Ends(r, "ERR")
<1>0. TypeOK /\ RunInv(r)
  BY DEF HarnessInv
<1>1. /\ wait[r] # None /\ Proceed(r)
      /\ wait' = [wait EXCEPT ![r] = None] /\ ans' = [ans EXCEPT ![r] = None]
      /\ UNCHANGED <<kind, alive, verdict, vm, sock, image, exits, why, crossed, together>>
  BY DEF Receive, history
<1>2. /\ pc[r] \in {"ping", "quiesce", "ask"}
      /\ pc[r] = "quiesce" => kind[r] \in Tells /\ k[r] = 0
  BY <1>0, <1>1 DEF RunInv, Driving
<1>3. CASE ans[r] = "ok" /\ Noted(r, "READY")
  <2>1. pc[r] = "ask" /\ kind[r] \in Tells => vm[<<r, k[r]>>].told = <<r, k[r]>>
    BY <1>0, <1>1, <1>3 DEF RunInv, Waiting, ToChild, Kind, Cur
  <2>2. pc[r] = "quiesce" /\ r \notin crossed /\ Up(<<r, 0>>) => vm[<<r, 0>>].held
    BY <1>0, <1>2, <1>3 DEF RunInv, Base
  <2>3. Ends(r, "READY")
    BY <1>1, <1>2, <1>3, <2>1, <2>2 DEF Ends
  <2> QED
    BY <2>3
<1>4. CASE Noted(r, "ERR") /\ (ans[r] = "ERR" \/ (ans[r] = None /\ ~Up(wait[r].to)))
  <2>1. pc[r] = "quiesce" /\ r \notin crossed => ~Up(<<r, 0>>)
    BY <1>0, <1>1, <1>2, <1>4 DEF RunInv, Waiting, ToBase, Cur
  <2>2. Ends(r, "ERR")
    BY <1>1, <1>2, <1>4, <2>1 DEF Ends
  <2> QED
    BY <2>2
<1> QED
  BY <1>3, <1>4 DEF Receive

LEMMA ReceiveStep == ASSUME HarnessInv, NEW r \in Runs, Receive(r) PROVE HarnessInv'
BY ReceiveEnds, EndsRequest

LEMMA RequestFailsEnds ==
  ASSUME HarnessInv, NEW r \in Runs, RequestFails(r)
  PROVE  Ends(r, "ERR") \/ \E S : Quits(r, "request", S)
<1>0. TypeOK /\ RunInv(r)
  BY DEF HarnessInv
<1>1. /\ wait' = [wait EXCEPT ![r] = None] /\ ans' = [ans EXCEPT ![r] = None]
      /\ UNCHANGED <<kind, alive, verdict, sock, image, exits, crossed, together>>
  BY DEF RequestFails
<1>2. pc[r] \in {"ping", "quiesce", "ask"}
  BY <1>0 DEF RequestFails, RunInv, Driving
<1>3. CASE pc[r] = "ask" /\ kind[r] # "h"
  <2>1. Ends(r, "ERR")
    BY <1>1, <1>2, <1>3 DEF RequestFails, Ends
  <2> QED
    BY <2>1
<1>4. CASE ~ (pc[r] = "ask" /\ kind[r] # "h")
  <2>1. PICK S \in GivesUp(r) : Fail(r, "request", S)
    BY <1>4 DEF RequestFails
  <2>2. S \subseteq VMs /\ \A v \in S : v[1] = r
    BY DEF GivesUp, WithBase, VMs
  <2>3. Quits(r, "request", S)
    BY <1>1, <1>2, <1>4, <2>1, <2>2 DEF RequestFails, Quits
  <2> QED
    BY <2>3
<1> QED
  BY <1>3, <1>4

LEMMA RequestFailsStep == ASSUME HarnessInv, NEW r \in Runs, RequestFails(r) PROVE HarnessInv'
BY RequestFailsEnds, EndsRequest, GivingUp

-----------------------------------------------------------------------------
(* A VM exits on its own. *)
LEMMA ExitStep == ASSUME HarnessInv, NEW v \in VMs, Exit(v) PROVE HarnessInv'
<1>0. TypeOK /\ BakedSocket
  BY DEF HarnessInv
<1>1. /\ UNCHANGED <<pc, k, wait, ans, kind, report, alive, verdict, sock, image, why, crossed, together>>
      /\ exits' = exits + 1 /\ exits < MaxExits /\ vm' = Killed({v})
  BY DEF Exit, driver, results, history
<1>2. vm' \in [VMs -> Guest] /\ \A w \in VMs : Weaker(w)
  BY <1>0, <1>1, KilledIsWeaker
<1>3. TypeOK'
  <2>1. exits' \in 0..MaxExits
    BY <1>0, <1>1, HarnessAssumption DEF TypeOK
  <2> QED
    BY <1>0, <1>1, <1>2, <2>1 DEF TypeOK
<1>4. BakedSocket'
  BY <1>0, <1>1 DEF BakedSocket
<1>5. ASSUME NEW x \in Runs PROVE RunInv(x)'
  <2>1. RunInv(x) /\ Base(x)
    BY DEF HarnessInv, RunInv
  <2>2. (\A n \in 1..Forks[x] : Weaker(<<x, n>>)) /\ Weaker(<<x, 0>>)
    <3>1. 0 \in 0..Forks[x] /\ \A n \in 1..Forks[x] : n \in 0..Forks[x]
      BY Pairs
    <3> QED
      BY <1>2, <3>1, Pairs
  <2>3. /\ vm'[<<x, 0>>].proc = "up" => Up(<<x, 0>>) /\ vm'[<<x, 0>>].held = vm[<<x, 0>>].held
        /\ \A j \in 1..Len(vm'[<<x, 0>>].inbox) : ToBase(vm'[<<x, 0>>].inbox[j], <<x, 0>>)
    BY <2>1, <2>2 DEF Base, Weaker, Up
  <2>4. Frame(x)
    BY <1>1, <2>2, <2>3 DEF Frame
  <2> QED
    BY <1>0, <2>1, <2>4, FrameKeeps
<1> QED
  BY <1>3, <1>4, <1>5 DEF HarnessInv

(* The workload of a child prints: it has reseeded, unless a call was under way. *)
LEMMA SampleStep == ASSUME HarnessInv, NEW v \in VMs, Sample(v) PROVE HarnessInv'
<1> DEFINE r == v[1]
           m == v[2]
           g == [vm[v] EXCEPT !.stale = TRUE]
<1>1. r \in Runs /\ m \in 1..Forks[r] /\ v = <<r, m>> /\ Forks[r] \in Nat
  BY Pairs DEF Sample
<1>0. TypeOK /\ RunInv(r) /\ BakedSocket /\ vm[v] \in Guest
  BY <1>1 DEF HarnessInv, TypeOK
<1>2. /\ UNCHANGED <<pc, k, wait, ans, kind, report, alive, verdict, sock, image, exits, why,
                     crossed, together>>
      /\ vm' = [vm EXCEPT ![v] = g] /\ vm[v].proc = "up" /\ vm[v].on /\ ~vm[v].held
      /\ ~vm[v].fresh \/ vm[v].mid
  BY <1>0 DEF Sample, driver, results, history, Up, TypeOK
<1>3. /\ g \in Guest /\ g.inbox = vm[v].inbox /\ g.proc = vm[v].proc /\ g.on = vm[v].on
      /\ g.held = vm[v].held /\ g.fresh = vm[v].fresh /\ g.mid = vm[v].mid
      /\ g.told = vm[v].told
  BY <1>0 DEF Guest
<1> HIDE DEF g
<1>4. /\ vm' \in [VMs -> Guest] /\ vm'[v] = g
      /\ \A w \in VMs : w # v => vm'[w] = vm[w]
  BY <1>0, <1>2, <1>3, OneVM
<1> HIDE DEF r, m
<1>5. TypeOK' /\ BakedSocket'
  BY <1>0, <1>2, <1>4 DEF TypeOK, BakedSocket
<1>6. \A x \in Runs : \A n \in 0..Forks[x] : x # r \/ n # m => vm'[<<x, n>>] = vm[<<x, n>>]
  <2>1. \A x \in Runs : \A n \in 0..Forks[x] :
          <<x, n>> \in VMs /\ (x # r \/ n # m => <<x, n>> # v)
    BY <1>1, Pairs
  <2> QED
    BY <1>4, <2>1
<1>7. Only(r)
  BY <1>2, <1>6 DEF Only
<1>8. /\ vm'[<<r, 0>>] = vm[<<r, 0>>]
      /\ \A n \in 1..Forks[r] :
           /\ vm'[<<r, n>>].told = vm[<<r, n>>].told /\ vm'[<<r, n>>].inbox = vm[<<r, n>>].inbox
           /\ vm'[<<r, n>>].proc = vm[<<r, n>>].proc /\ vm'[<<r, n>>].on = vm[<<r, n>>].on
           /\ vm'[<<r, n>>].held = vm[<<r, n>>].held /\ vm'[<<r, n>>].fresh = vm[<<r, n>>].fresh
           /\ vm'[<<r, n>>].mid = vm[<<r, n>>].mid
           /\ n # m => vm'[<<r, n>>] = vm[<<r, n>>]
  <2>1. 0 \in 0..Forks[r] /\ 0 # m /\ \A n \in 1..Forks[r] : n \in 0..Forks[r]
    BY <1>1
  <2> QED
    BY <1>1, <1>3, <1>4, <1>6, <2>1
<1>9. RunInv(r)'
  <2> USE <1>0, <1>1, <1>2, <1>8 DEF RunInv
  <2>1. Driving(r)' /\ Sockets(r)' /\ Base(r)'
    BY DEF Driving, Sockets, NotBound, Cur, Base, ToBase, Up
  <2>2. Waiting(r)'
    <3>1. pc[r] = "ask" => k[r] \in 1..Forks[r]
      BY DEF Driving, TypeOK
    <3> QED
      BY <3>1 DEF Waiting, Cur, ToChild, ToBase, Kind
  <2>3. \A n \in 1..Forks[r] : Child(r, n)'
    <3> SUFFICES ASSUME NEW n \in 1..Forks[r] PROVE Child(r, n)'
      OBVIOUS
    <3>1. (NotSpawned(r, n)' <=> NotSpawned(r, n)) /\ (NotAsked(r, n)' <=> NotAsked(r, n))
      BY DEF NotSpawned, NotAsked
    <3>2. ~NotSpawned(r, m)
      BY OffIsGuest DEF Child
    <3>3. NotSpawned(r, n) => vm'[<<r, n>>] = vm[<<r, n>>]
      BY <3>2
    <3>4. /\ Child(r, n) /\ report' = report /\ pc' = pc /\ k' = k /\ kind' = kind
          /\ vm'[<<r, n>>].told = vm[<<r, n>>].told /\ vm'[<<r, n>>].inbox = vm[<<r, n>>].inbox
      OBVIOUS
    <3> QED
      BY ONLY <3>1, <3>3, <3>4 DEF Child, ToChild, Kind
  <2>4. Frozen(r)'
    <3>1. kind[r] \in Tells /\ r \notin crossed => image[r].mid
      BY DEF Frozen
    <3> QED
      BY <3>1 DEF Frozen
  <2>5. Over(r)' /\ ~Finished(r, m)
    BY DEF Over, Finished, Up
  <2>6. Witnessed(r)'
    <3>1. r \in Together(vm)' => r \in Together(vm)
      BY KidsAre DEF Together
    <3> QED
      BY <3>1 DEF Witnessed, AllReady
  <2>7. /\ (verdict[r] = "works" => ForkWorked(r))'
        /\ (why[r] = "inuse" => SharesBase(r))'
    <3>1. verdict[r] # "works"
      BY <2>5, HarnessAssumption DEF Finished, Driving
    <3> QED
      BY <3>1 DEF SharesBase
  <2> QED
    BY <2>1, <2>2, <2>3, <2>4, <2>5, <2>6, <2>7
<1> QED
  BY <1>1, <1>5, <1>7, <1>9, OnlyOne

(* What the agent does with a request q, and its answer a. *)
Handled(v, q, g, a) ==
  /\ g \in Guest /\ g.inbox = Tail(vm[v].inbox)
  /\ g.proc = vm[v].proc /\ g.on = vm[v].on /\ g.stale = vm[v].stale
  /\ a \in {"ok", "ERR"} /\ (a = "ERR" => q.what = "FORKED")
  /\ IF q.what = "FORKED" /\ a = "ok"
       THEN g.told = q.by /\ g.fresh = TRUE
       ELSE g.told = vm[v].told /\ g.fresh = vm[v].fresh
  /\ q.what = "QUIESCE" => g.held = TRUE
  /\ q.what # "QUIESCE" => g.mid = vm[v].mid
  /\ q.what \notin {"QUIESCE", "FORKED"} \/ a = "ERR" => g.held = vm[v].held

LEMMA Handling ==
  ASSUME TypeOK, NEW v \in VMs, Serve(v), NEW q, q = Head(vm[v].inbox)
  PROVE  /\ q \in Request /\ vm[v].inbox \in Seq(Request) /\ vm[v].inbox # << >>
         /\ \E g, a : Handled(v, q, g, a) /\ vm' = [vm EXCEPT ![v] = g] /\ Answered(q, a)
<1>1. vm[v] \in Guest /\ vm[v].inbox \in Seq(Request) /\ vm[v].inbox # << >>
  <2>1. vm[v] \in Guest
    BY DEF TypeOK
  <2> QED
    BY <2>1, GuestFields DEF Serve
<1> DEFINE t == Tail(vm[v].inbox)
<1>2. q \in Request /\ t \in Seq(Request)
  BY <1>1, HeadTailProperties
<1>3. q.by \in VMs /\ q.what \in {"PING", "QUIESCE", "CHECK", "FORKED"}
  BY <1>2 DEF Request
<1>4. CASE /\ \E g \in Served(v, q) : vm' = [vm EXCEPT ![v] = [g EXCEPT !.inbox = Tail(@)]]
           /\ Answered(q, "ok")
  <2>1. PICK g \in Served(v, q) : vm' = [vm EXCEPT ![v] = [g EXCEPT !.inbox = Tail(@)]]
    BY <1>4
  <2>2. CASE q.what = "QUIESCE"
    <3>1. PICK b \in BOOLEAN : g = [vm[v] EXCEPT !.held = TRUE, !.mid = b]
      BY <2>1, <2>2 DEF Served
    <3> DEFINE f == [vm[v] EXCEPT !.held = TRUE, !.mid = b, !.inbox = t]
    <3>2. [g EXCEPT !.inbox = Tail(@)] = f
      BY <1>1, <3>1 DEF Guest
    <3> HIDE DEF t
    <3>3. /\ f \in Guest /\ f.inbox = t /\ f.proc = vm[v].proc /\ f.on = vm[v].on
          /\ f.stale = vm[v].stale /\ f.told = vm[v].told /\ f.fresh = vm[v].fresh /\ f.held = TRUE
      BY <1>1, <1>2 DEF Guest
    <3> HIDE DEF f
    <3>4. Handled(v, q, f, "ok")
      BY <2>2, <3>3 DEF Handled, t
    <3> QED
      BY <1>1, <1>2, <1>4, <2>1, <3>2, <3>4
  <2>3. CASE q.what = "FORKED"
    <3>1. g = [vm[v] EXCEPT !.held = FALSE, !.fresh = TRUE, !.told = q.by]
      BY <2>1, <2>3 DEF Served
    <3> DEFINE b == q.by
               f == [vm[v] EXCEPT !.held = FALSE, !.fresh = TRUE, !.told = b, !.inbox = t]
    <3>2. [g EXCEPT !.inbox = Tail(@)] = f
      BY <1>1, <3>1 DEF Guest
    <3> HIDE DEF t, b
    <3>3. /\ f \in Guest /\ f.inbox = t /\ f.proc = vm[v].proc /\ f.on = vm[v].on
          /\ f.stale = vm[v].stale /\ f.told = b /\ f.fresh = TRUE /\ f.mid = vm[v].mid
      BY <1>1, <1>2, <1>3 DEF Guest, b
    <3> HIDE DEF f
    <3>4. Handled(v, q, f, "ok")
      BY <2>3, <3>3 DEF Handled, t, b
    <3> QED
      BY <1>1, <1>2, <1>4, <2>1, <3>2, <3>4
  <2>4. CASE q.what \notin {"QUIESCE", "FORKED"}
    <3>1. g = vm[v]
      BY <2>1, <2>4 DEF Served
    <3> DEFINE f == [vm[v] EXCEPT !.inbox = t]
    <3>2. [g EXCEPT !.inbox = Tail(@)] = f
      BY <1>1, <3>1 DEF Guest
    <3> HIDE DEF t
    <3>3. /\ f \in Guest /\ f.inbox = t /\ f.proc = vm[v].proc /\ f.on = vm[v].on
          /\ f.stale = vm[v].stale /\ f.told = vm[v].told /\ f.fresh = vm[v].fresh
          /\ f.mid = vm[v].mid /\ f.held = vm[v].held
      BY <1>1, <1>2 DEF Guest
    <3> HIDE DEF f
    <3>4. Handled(v, q, f, "ok")
      BY <2>4, <3>3 DEF Handled, t
    <3> QED
      BY <1>1, <1>2, <1>4, <2>1, <3>2, <3>4
  <2> QED
    BY <2>2, <2>3, <2>4
<1>5. CASE q.what = "FORKED" /\ vm' = [vm EXCEPT ![v].inbox = Tail(@)] /\ Answered(q, "ERR")
  <2> DEFINE f == [vm[v] EXCEPT !.inbox = t]
  <2>1. vm' = [vm EXCEPT ![v] = f]
    BY <1>5 DEF TypeOK
  <2> HIDE DEF t
  <2>2. /\ f \in Guest /\ f.inbox = t /\ f.proc = vm[v].proc /\ f.on = vm[v].on
        /\ f.stale = vm[v].stale /\ f.told = vm[v].told /\ f.fresh = vm[v].fresh
        /\ f.mid = vm[v].mid /\ f.held = vm[v].held
    BY <1>1, <1>2 DEF Guest
  <2> HIDE DEF f
  <2>3. Handled(v, q, f, "ERR")
    BY <1>5, <2>2 DEF Handled, t
  <2> QED
    BY <1>1, <1>2, <1>5, <2>1, <2>3
<1> QED
  BY <1>4, <1>5 DEF Serve

LEMMA ServeStep == ASSUME HarnessInv, NEW v \in VMs, Serve(v) PROVE HarnessInv'
<1>0. TypeOK /\ BakedSocket /\ \A x \in Runs : RunInv(x)
  BY DEF HarnessInv
<1> DEFINE r == v[1]
           m == v[2]
           q == Head(vm[v].inbox)
<1>1. /\ UNCHANGED <<pc, k, wait, kind, report, alive, verdict, sock, image, exits, why, crossed>>
      /\ vm[v].proc = "up" /\ together' = together \cup Together(vm')
  BY DEF Serve, results, Up
<1>2. q \in Request /\ vm[v].inbox \in Seq(Request) /\ vm[v].inbox # << >> /\ q # None
  BY <1>0, Handling, HarnessAssumption
<1>3. PICK g, a : Handled(v, q, g, a) /\ vm' = [vm EXCEPT ![v] = g] /\ Answered(q, a)
  BY <1>0, Handling
<1>4. r \in Runs /\ m \in 0..Forks[r] /\ v = <<r, m>> /\ Forks[r] \in Nat
  BY Pairs
<1> HIDE DEF q, r, m
<1>5. /\ vm' \in [VMs -> Guest] /\ vm'[v] = g
      /\ \A w \in VMs : w # v => vm'[w] = vm[w]
  BY <1>0, <1>3, OneVM DEF Handled
<1>6. \A x \in Runs : \A n \in 0..Forks[x] : x # r \/ n # m => vm'[<<x, n>>] = vm[<<x, n>>]
  <2>1. \A x \in Runs : \A n \in 0..Forks[x] :
          <<x, n>> \in VMs /\ (x # r \/ n # m => <<x, n>> # v)
    BY <1>4, Pairs
  <2> QED
    BY <1>5, <2>1
<1>7. /\ a \in {"ok", "ERR"}
      /\ \A x \in Runs : ans'[x] = IF wait[x] = q THEN a ELSE ans[x]
  BY <1>3 DEF Answered, Handled
<1>8. TypeOK'
  <2>1. ans' \in [Runs -> {None, "ok", "ERR"}]
    BY <1>0, <1>3, <1>7 DEF Answered, TypeOK
  <2>2. together' \subseteq Runs
    BY <1>0, <1>1 DEF TypeOK, Together
  <2> QED
    BY <1>0, <1>1, <1>5, <2>1, <2>2 DEF TypeOK
<1>9. BakedSocket'
  BY <1>0, <1>1 DEF BakedSocket
<1>10. \A x \in Runs : /\ x \in together => x \in together'
                       /\ x \in Together(vm)' => x \in together'
  BY <1>1 DEF Together
<1>11. ASSUME NEW x \in Runs, wait[x] = q
       PROVE  /\ pc[x] = "ask" => q.to = <<x, k[x]>> /\ k[x] \in 1..Forks[x]
              /\ pc[x] # "ask" => q.to[2] = 0 /\ q.what # "FORKED"
              /\ pc[x] = "quiesce" => q.what = "QUIESCE"
              /\ pc[x] # "ask" /\ x \notin crossed => q.to = <<x, 0>>
              /\ wait[x] # None
  <2>1. RunInv(x) /\ wait[x] # None
    BY <1>0, <1>2, <1>11
  <2>2. pc[x] = "ask" => k[x] \in 1..Forks[x]
    BY <1>0, <2>1, Pairs DEF RunInv, Driving, TypeOK
  <2>3. pc[x] # "ask" => k[x] = 0
    BY <2>1 DEF RunInv, Driving
  <2> QED
    BY <1>11, <2>1, <2>2, <2>3 DEF RunInv, Waiting, ToChild, ToBase, Cur
<1>12. CASE m = 0
  <2>1. ToBase(q, <<r, 0>>) /\ \A j \in 1..Len(vm'[<<r, 0>>].inbox) : ToBase(vm'[<<r, 0>>].inbox[j], <<r, 0>>)
    <3> DEFINE s == vm[v].inbox
    <3>1. \A j \in 1..Len(s) : ToBase(s[j], v)
      BY <1>0, <1>4, <1>12 DEF RunInv, Base
    <3>2. s \in Seq(Request) /\ s # << >> /\ q = s[1] /\ vm'[v].inbox = Tail(s)
      BY <1>2, <1>3, <1>5 DEF q, Handled
    <3> HIDE DEF s
    <3>3. Len(s) \in Nat /\ 1 \in 1..Len(s)
      BY <3>2
    <3>4. Len(Tail(s)) = Len(s) - 1 /\ \A i \in 1..Len(Tail(s)) : Tail(s)[i] = s[i + 1]
      BY <3>2, HeadTailProperties
    <3>5. \A i \in 1..Len(Tail(s)) : i + 1 \in 1..Len(s)
      BY <3>3, <3>4
    <3>6. \A i \in 1..Len(Tail(s)) : ToBase(Tail(s)[i], v)
      BY <3>1, <3>4, <3>5
    <3>7. ToBase(q, v)
      BY <3>1, <3>2, <3>3
    <3> QED
      BY <1>4, <1>12, <3>2, <3>6, <3>7
  <2>2. /\ q.what # "FORKED" /\ q.to = v /\ a = "ok"
        /\ vm'[v].proc = "up" /\ (q.what = "QUIESCE" => vm'[v].held)
        /\ vm[v].held => vm'[v].held
    <3>1. q.what # "FORKED" /\ q.to = v
      BY <1>4, <1>12, <2>1 DEF ToBase
    <3>2. vm[v] \in Guest /\ g \in Guest
      BY <1>0, <1>3 DEF TypeOK, Handled
    <3> QED
      BY <1>1, <1>3, <1>5, <3>1, <3>2 DEF Handled
  <2>3. \A x \in Runs : \A n \in 1..Forks[x] : vm'[<<x, n>>] = vm[<<x, n>>]
    <3>1. \A x \in Runs : \A n \in 1..Forks[x] : n \in 0..Forks[x] /\ n # 0
      BY Pairs
    <3> QED
      BY <1>6, <1>12, <3>1
  <2>4. ASSUME NEW x \in Runs PROVE RunInv(x)'
    <3> USE <1>1 DEF RunInv
    <3>0. RunInv(x)
      BY <1>0
    <3>1. wait[x] = q => pc[x] # "ask"
      <4>1. wait[x] = q /\ pc[x] = "ask" => v = <<x, k[x]>> /\ k[x] \in 1..Forks[x]
        BY <1>11, <2>2
      <4>2. Forks[x] \in Nat
        BY Pairs
      <4> QED
        BY <1>4, <1>12, <4>1, <4>2
    <3>2. Driving(x)' /\ Sockets(x)'
      BY <1>7, <1>11, <3>0 DEF Driving, Sockets, NotBound, Cur
    <3>3. Waiting(x)'
      <4>1. pc[x] = "ask" => k[x] \in 1..Forks[x]
        BY <1>0, Pairs DEF Driving, TypeOK
      <4>2. pc[x] = "ask" => ans'[x] = ans[x] /\ vm'[<<x, k[x]>>] = vm[<<x, k[x]>>]
        BY <1>7, <2>3, <3>1, <4>1
      <4>3. ans'[x] = ans[x] \/ (ans'[x] = "ok" /\ wait[x].what # "FORKED")
        BY <1>7, <2>2
      <4>4. pc[x] # "ask" /\ wait[x] # None => wait[x].what # "FORKED"
        BY <3>0 DEF Waiting, ToBase
      <4> QED
        BY <3>0, <4>2, <4>3, <4>4 DEF Waiting, ToChild, ToBase, Kind, Cur
    <3>4. Base(x)'
      <4>1. CASE x = r
        <5>1. pc[r] = "quiesce" /\ ans'[r] = "ok" /\ r \notin crossed /\ kind[r] \in Tells
                => vm'[<<r, 0>>].held
          BY <1>1, <1>4, <1>7, <1>11, <1>12, <2>2, <3>0, <4>1 DEF Base, Up
        <5>2. pc[r] = "snap" /\ r \notin crossed /\ kind[r] \in Tells => vm'[<<r, 0>>].held
          BY <1>1, <1>4, <1>12, <2>2, <3>0, <4>1 DEF Base, Up
        <5>3. (\A j \in 1..Len(vm[<<r, 0>>].inbox) : ToBase(vm[<<r, 0>>].inbox[j], <<r, 0>>))'
          BY <2>1 DEF ToBase, r
        <5> QED
          BY <2>1, <4>1, <5>1, <5>2, <5>3 DEF Base, ToBase
      <4>2. CASE x # r
        <5>1. vm'[<<x, 0>>] = vm[<<x, 0>>]
          BY <1>6, <4>2, Pairs, 0 \in 0..Forks[x]
        <5>2. wait[x] = q /\ x \notin crossed => pc[x] # "quiesce"
          BY <1>4, <1>11, <1>12, <2>2, <4>2
        <5>3. pc[x] = "quiesce" /\ x \notin crossed => ans'[x] = ans[x]
          BY <1>7, <5>2
        <5> QED
          BY <3>0, <5>1, <5>3 DEF Base, ToBase, Up
      <4> QED
        BY <4>1, <4>2
    <3>5. \A n \in 1..Forks[x] : Child(x, n)'
      BY <2>3, <3>0 DEF Child, NotSpawned, NotAsked, ToChild, Kind
    <3>6. Frozen(x)' /\ Over(x)'
      BY <2>3, <3>0 DEF Frozen, Over, Finished, Up
    <3>7. Witnessed(x)'
      BY <1>10, <3>0 DEF Witnessed, AllReady
    <3>8. (why[x] = "inuse" => SharesBase(x))'
      BY <3>0 DEF SharesBase
    <3>9. (verdict[x] = "works" => ForkWorked(x))'
      BY <1>10, <2>3, <3>0, KidsAre DEF ForkWorked
    <3> QED
      BY <3>2, <3>3, <3>4, <3>5, <3>6, <3>7, <3>8, <3>9
  <2> QED
    BY <1>8, <1>9, <2>4 DEF HarnessInv
<1>13. CASE m # 0
  <2>1. m \in 1..Forks[r] /\ RunInv(r) /\ Child(r, m)
    BY <1>0, <1>4, <1>13 DEF RunInv
  <2>2. /\ Len(vm[v].inbox) = 1 /\ ToChild(q, v) /\ vm[v].told = None /\ q.by = v /\ q.to = v
        /\ vm'[v].inbox = << >>
    <3> DEFINE s == vm[v].inbox
    <3>1. s # << >> /\ Len(s) = 1 /\ ToChild(s[1], v) /\ vm[v].told = None
      BY <1>2, <1>4, <2>1 DEF Child
    <3>2. s \in Seq(Request) /\ q = s[1] /\ vm'[v].inbox = Tail(s)
      BY <1>2, <1>3, <1>5 DEF q, Handled
    <3> HIDE DEF s
    <3>3. Tail(s) = << >>
      BY <3>1, <3>2
    <3> QED
      BY <3>1, <3>2, <3>3 DEF s, ToChild
  <2>3. ASSUME NEW x \in Runs, wait[x] = q PROVE x = r /\ pc[x] = "ask" /\ k[x] = m
    BY <1>4, <1>11, <1>13, <2>2, <2>3
  <2>4. ASSUME NEW x \in Runs, x # r PROVE RunInv(x)'
    <3>1. RunInv(x) /\ Base(x) /\ 0 \in 0..Forks[x] /\ \A n \in 1..Forks[x] : n \in 0..Forks[x]
      BY <1>0, Pairs DEF RunInv
    <3>2. /\ \A n \in 0..Forks[x] : vm'[<<x, n>>] = vm[<<x, n>>]
          /\ \A n \in 1..Forks[x] : Weaker(<<x, n>>)
      BY <1>6, <2>4, <3>1 DEF Weaker
    <3>3. ans'[x] = ans[x]
      BY <1>7, <2>3, <2>4
    <3>4. /\ vm'[<<x, 0>>].proc = "up" => Up(<<x, 0>>) /\ vm'[<<x, 0>>].held = vm[<<x, 0>>].held
          /\ \A j \in 1..Len(vm'[<<x, 0>>].inbox) : ToBase(vm'[<<x, 0>>].inbox[j], <<x, 0>>)
      BY <3>1, <3>2 DEF Base, Up
    <3>5. Frame(x)
      BY <1>1, <1>10, <3>2, <3>3, <3>4 DEF Frame
    <3> QED
      BY <1>0, <3>1, <3>5, FrameKeeps
  <2>5. /\ vm'[<<r, 0>>] = vm[<<r, 0>>]
        /\ \A n \in 1..Forks[r] : n # m => vm'[<<r, n>>] = vm[<<r, n>>]
    <3>1. 0 \in 0..Forks[r] /\ \A n \in 1..Forks[r] : n \in 0..Forks[r]
      BY <1>4
    <3> QED
      BY <1>4, <1>6, <1>13, <3>1
  <2>6. /\ vm'[<<r, m>>].proc = "up" /\ vm[<<r, m>>].proc = "up" /\ vm[<<r, m>>].inbox # << >>
        /\ vm'[<<r, m>>].inbox = << >> /\ vm'[<<r, m>>].stale = vm[<<r, m>>].stale
        /\ vm'[<<r, m>>].mid = vm[<<r, m>>].mid /\ vm'[<<r, m>>].on = vm[<<r, m>>].on
        /\ vm[<<r, m>>].told = None /\ vm'[<<r, m>>].told \in {None, <<r, m>>}
        /\ \/ vm'[<<r, m>>].held = vm[<<r, m>>].held /\ vm'[<<r, m>>].fresh = vm[<<r, m>>].fresh
           \/ vm'[<<r, m>>].fresh = TRUE
        /\ a = "ok" /\ q.what = "FORKED" => vm'[<<r, m>>].told = <<r, m>>
        /\ a = "ERR" => q.what = "FORKED"
    <3>1. q.what # "QUIESCE"
      BY <2>2 DEF ToChild, Kind
    <3> QED
      BY <1>1, <1>2, <1>3, <1>4, <1>5, <2>2, <3>1 DEF Handled
  <2>7. RunInv(r)'
    <3> USE <1>1, <1>4, <2>1 DEF RunInv
    <3>1. ~Finished(r, m) /\ ~NotSpawned(r, m) /\ ~NotAsked(r, m)
      BY <2>6, OffIsGuest DEF Over, Up, Child
    <3>2. Driving(r)' /\ Sockets(r)'
      BY <1>7, <1>11 DEF Driving, Sockets, NotBound, Cur
    <3>3. Waiting(r)'
      <4>1. pc[r] = "ask" => k[r] \in 1..Forks[r]
        BY <1>0, Pairs DEF Driving, TypeOK
      <4>2. pc[r] # "ask" => ans'[r] = ans[r] /\ (wait[r] # None => wait[r].what # "FORKED")
        BY <1>7, <2>3 DEF Waiting, ToBase
      <4>3. \/ ans'[r] = ans[r]
            \/ ans'[r] = a /\ wait[r] = q /\ k[r] = m
        BY <1>7, <2>3
      <4>4. wait[r] # None /\ ans'[r] = "ERR" => wait[r].what = "FORKED"
        BY <2>6, <4>3 DEF Waiting
      <4>5. pc[r] = "ask" /\ wait[r] # None /\ ans'[r] = "ok" /\ wait[r].what = "FORKED" =>
              vm'[<<r, k[r]>>].told = <<r, k[r]>>
        <5> SUFFICES ASSUME pc[r] = "ask", wait[r] # None, ans'[r] = "ok", wait[r].what = "FORKED"
                     PROVE  vm'[<<r, k[r]>>].told = <<r, k[r]>>
          OBVIOUS
        <5>1. CASE ans'[r] = ans[r]
          <6>1. vm[<<r, k[r]>>].told = <<r, k[r]>>
            BY <5>1 DEF Waiting, Cur
          <6>2. k[r] # m
            <7>1. None # <<r, m>>
              BY <1>4, Pairs
            <7> QED
              BY <2>6, <6>1, <7>1
          <6> QED
            BY <2>5, <4>1, <6>1, <6>2
        <5>2. CASE ans'[r] = a /\ wait[r] = q /\ k[r] = m
          BY <2>6, <5>2
        <5> QED
          BY <4>3, <5>1, <5>2
      <4> QED
        BY <4>2, <4>4, <4>5 DEF Waiting, ToChild, ToBase, Kind, Cur
    <3>4. Base(r)'
      <4>1. pc[r] = "quiesce" => ans'[r] = ans[r]
        BY <1>7, <2>3
      <4> QED
        BY <2>5, <4>1 DEF Base, ToBase, Up
    <3>5. \A n \in 1..Forks[r] : Child(r, n)'
      <4> SUFFICES ASSUME NEW n \in 1..Forks[r] PROVE Child(r, n)'
        OBVIOUS
      <4>1. /\ (NotSpawned(r, n)' <=> NotSpawned(r, n)) /\ (NotAsked(r, n)' <=> NotAsked(r, n))
            /\ Child(r, n) /\ report' = report /\ pc' = pc /\ k' = k /\ kind' = kind
        BY DEF NotSpawned, NotAsked
      <4>2. CASE n # m
        <5>1. vm'[<<r, n>>] = vm[<<r, n>>]
          BY <2>5, <4>2
        <5> QED
          BY ONLY <4>1, <5>1 DEF Child, ToChild, Kind
      <4>3. CASE n = m
        <5>1. report[<<r, m>>] # "READY"
          <6>1. None # <<r, m>>
            BY Pairs
          <6> QED
            BY <2>6, <6>1 DEF Child
        <5> QED
          BY <2>6, <3>1, <4>1, <4>3, <5>1 DEF Child
      <4> QED
        BY <4>2, <4>3
    <3>6. Frozen(r)'
      BY <2>5, <2>6 DEF Frozen
    <3>7. Over(r)'
      <4>1. ~Finished(r, m)'
        BY <3>1 DEF Finished
      <4> QED
        BY <2>5, <4>1 DEF Over, Finished, Up
    <3>8. Witnessed(r)'
      BY <1>10 DEF Witnessed, AllReady
    <3>9. (why[r] = "inuse" => SharesBase(r))'
      BY DEF SharesBase
    <3>10. (verdict[r] = "works" => ForkWorked(r))'
      BY <3>1, HarnessAssumption DEF Finished, Driving
    <3> QED
      BY <3>2, <3>3, <3>4, <3>5, <3>6, <3>7, <3>8, <3>9, <3>10
  <2> QED
    BY <1>8, <1>9, <2>4, <2>7 DEF HarnessInv
<1> QED
  BY <1>12, <1>13

-----------------------------------------------------------------------------
LEMMA HarnessInit == Init => HarnessInv
<1> SUFFICES ASSUME Init PROVE HarnessInv
  OBVIOUS
<1>1. TypeOK
  BY OffIsGuest, HarnessAssumption DEF Init, TypeOK
<1>2. BakedSocket
  BY Pairs DEF Init, BakedSocket
<1>3. ASSUME NEW r \in Runs PROVE RunInv(r)
  <2>0. /\ pc[r] = "start" /\ k[r] = 0 /\ wait[r] = None /\ ans[r] = None /\ verdict[r] = None
        /\ why[r] = None /\ Forks[r] \in Nat /\ Forks[r] > 0
        /\ sock[<<r, 0>>] = None /\ vm[<<r, 0>>] = Off
        /\ \A n \in 1..Forks[r] : /\ sock[<<r, n>>] = None /\ vm[<<r, n>>] = Off
                                  /\ report[<<r, n>>] = None
    <3>1. \A n \in 0..Forks[r] : <<r, n>> \in VMs /\ <<r, n>> \in Paths
      BY Pairs
    <3>2. /\ 0 \in 0..Forks[r]
          /\ \A n \in 1..Forks[r] : n \in 0..Forks[r] /\ <<r, n>> \in Branch
      BY Pairs
    <3> QED
      BY <3>1, <3>2, Pairs DEF Init
  <2> USE <2>0, OffIsGuest
  <2>1. Driving(r) /\ Sockets(r) /\ Waiting(r)
    BY DEF Driving, Sockets, Waiting
  <2>2. Base(r)
    BY DEF Base
  <2>3. \A n \in 1..Forks[r] : Child(r, n)
    BY HarnessAssumption DEF Child
  <2>4. Frozen(r) /\ Over(r)
    BY DEF Frozen, Over, Up
  <2>5. Witnessed(r)
    <3>1. 1 \in 1..Forks[r]
      OBVIOUS
    <3>2. r \notin Together(vm)
      BY <3>1, KidsAre DEF Together
    <3> QED
      BY <3>2 DEF Witnessed
  <2> QED
    BY <2>1, <2>2, <2>3, <2>4, <2>5, HarnessAssumption DEF RunInv
<1> QED
  BY <1>1, <1>2, <1>3 DEF HarnessInv

LEMMA HarnessStep == HarnessInv /\ [Next]_vars => HarnessInv'
<1> SUFFICES ASSUME HarnessInv, [Next]_vars PROVE HarnessInv'
  OBVIOUS
<1>1. ASSUME NEW r \in Runs, Driver(r) PROVE HarnessInv'
  BY <1>1, StartStep, ApiUpStep, ApiNeverUpStep, ConfigureStep, AskStep, ReceiveStep,
     RequestFailsStep, SnapshotStep, ForkStep, LoadStep, PollStep, KillSerialStep, KillAllStep,
     MeasureStep, VerdictStep DEF Driver
<1>2. ASSUME NEW v \in VMs, Serve(v) \/ Sample(v) \/ Exit(v) PROVE HarnessInv'
  BY <1>2, ServeStep, SampleStep, ExitStep
<1>3. CASE UNCHANGED vars
  <2>1. TypeOK' /\ BakedSocket'
    BY <1>3 DEF HarnessInv, TypeOK, BakedSocket, vars, driver, results, history
  <2>2. ASSUME NEW x \in Runs PROVE RunInv(x)'
    <3>1. /\ UNCHANGED <<pc, k, wait, ans, kind, report, alive, verdict, vm, sock, image, why,
                         crossed, together>>
          /\ RunInv(x) /\ Base(x) /\ TypeOK
      BY <1>3 DEF vars, driver, results, history, HarnessInv, RunInv
    <3>2. Frame(x)
      BY <3>1 DEF Frame, Weaker, Base, Up
    <3> QED
      BY <3>1, <3>2, FrameKeeps
  <2> QED
    BY <2>1, <2>2 DEF HarnessInv
<1> QED
  BY <1>1, <1>2, <1>3 DEF Next

LEMMA HarnessInvariant == Spec => []HarnessInv
BY HarnessInit, HarnessStep, PTL DEF Spec

(***************************************************************************)
(* No child of a fork spike fails on a socket that another one has bound,  *)
(* whatever spikes run beside it: only the bases of two spikes i collide.  *)
(***************************************************************************)
THEOREM ChildrenDoNotCollide == Spec => []NoCollision
<1>1. HarnessInv => NoCollision
  BY DEF HarnessInv, RunInv, NoCollision
<1> QED
  BY <1>1, HarnessInvariant, PTL

(***************************************************************************)
(* A child of a quiesced base prints a value of the frozen RNG state only  *)
(* if a call was under way at the stop or the QUIESCE went astray.         *)
(***************************************************************************)
THEOREM FrozenValuesAreExplained == Spec => []FrozenMeansCrossed
<1>1. HarnessInv => FrozenMeansCrossed
  <2> SUFFICES ASSUME HarnessInv, NEW v \in Branch, kind[v[1]] \in Tells, vm[v].stale
               PROVE  image[v[1]].mid \/ v[1] \in crossed
    BY DEF FrozenMeansCrossed
  <2>1. v[1] \in Runs /\ v[2] \in 1..Forks[v[1]] /\ v = <<v[1], v[2]>>
    BY Pairs
  <2> QED
    BY <2>1 DEF HarnessInv, RunInv, Frozen
<1> QED
  BY <1>1, HarnessInvariant, PTL

(***************************************************************************)
(* A spike that says WORKS is right: its children diverged, each was told  *)
(* its own branch and those of spike i were all up at once, at the end of  *)
(* the run and ever after.                                                 *)
(***************************************************************************)
THEOREM VerdictsAreSound == Spec => []VerdictSound
<1>1. HarnessInv => VerdictSound
  BY DEF HarnessInv, RunInv, VerdictSound
<1> QED
  BY <1>1, HarnessInvariant, PTL

-----------------------------------------------------------------------------
(***************************************************************************)
(* The refinement of Branches.  The children a spike has come to have been *)
(* started; it notes nothing of one that has not.                          *)
(***************************************************************************)
Reached(r, n) ==
  \/ n <= k[r]
  \/ kind[r] \notin Serial /\ pc[r] \in {"poll", "ask", "kill"}

Spawned == \A r \in Runs : \A n \in 1..Forks[r] : Reached(r, n) => vm[<<r, n>>].proc # "none"

(* What a step does to the branches: some end, ... *)
Stops ==
  /\ report' = report
  /\ \A b \in Branch :
       /\ vm'[b].told = vm[b].told
       /\ vm'[b].proc # vm[b].proc => vm[b].proc = "up" /\ vm'[b].proc = "dead"

(* ... one is started, ... *)
Starts(c) ==
  /\ c \in Branch /\ vm[c].proc = "none" /\ vm'[c].proc = "up" /\ report' = report
  /\ \A b \in Branch : vm'[b].told = vm[b].told /\ (b # c => vm'[b].proc = vm[b].proc)

(* ... is told which one it is, ... *)
Tolds(c) ==
  /\ c \in Branch /\ vm[c].proc = "up" /\ vm[c].told = None /\ vm'[c].told = c /\ report' = report
  /\ \A b \in Branch : vm'[b].proc = vm[b].proc /\ (b # c => vm'[b].told = vm[b].told)

(* ... or is noted. *)
Notes(c, a) ==
  /\ c \in Branch /\ report[c] = None /\ vm[c].proc # "none" /\ a \in {"READY", "ERR"}
  /\ a = "READY" => vm[c].told = c
  /\ report' = [report EXCEPT ![c] = a] /\ vm' = vm

Moves == Stops \/ \E c \in Branch : Starts(c) \/ Tolds(c) \/ \E a \in {"READY", "ERR"} : Notes(c, a)

(* The life of a branch, as the refinement mapping has it. *)
Life == [b \in Branch |-> CASE vm[b].proc = "none" -> "new"
                            [] vm[b].proc = "up" -> "alive"
                            [] OTHER -> "over"]

Named == [b \in Branch |-> vm[b].told]

LEMMA MovesAreSteps ==
  ASSUME TypeOK, TypeOK', Moves
  PROVE  B!Next
<1>1. /\ \A b \in Branch : vm[b].proc \in {"none", "up", "dead"} /\ vm'[b].proc \in {"none", "up", "dead"}
  <2>1. \A b \in Branch : vm[b] \in Guest /\ vm'[b] \in Guest
    BY Pairs DEF TypeOK
  <2> QED
    BY <2>1, GuestFields
<1>2. /\ \A b \in Branch : /\ vm[b].proc = "none" => Life[b] = "new"
                           /\ vm[b].proc = "up" => Life[b] = "alive"
                           /\ vm[b].proc = "dead" => Life[b] = "over"
                           /\ Named[b] = vm[b].told
      /\ \A b \in Branch : /\ vm'[b].proc = "none" => Life'[b] = "new"
                           /\ vm'[b].proc = "up" => Life'[b] = "alive"
                           /\ vm'[b].proc = "dead" => Life'[b] = "over"
                           /\ Named'[b] = vm'[b].told
      /\ Life = [b \in Branch |-> Life[b]] /\ Life' = [b \in Branch |-> Life'[b]]
      /\ Named = [b \in Branch |-> Named[b]] /\ Named' = [b \in Branch |-> Named'[b]]
  BY DEF Life, Named
<1>3. /\ \A b \in Branch : Life[b] \in {"new", "alive", "over"} /\ Life'[b] \in {"new", "alive", "over"}
      /\ \A b \in Branch : vm'[b].proc = vm[b].proc => Life'[b] = Life[b]
  BY <1>1, <1>2
<1>4. ASSUME Stops PROVE B!Stop
  <2>1. \A b \in Branch : Life'[b] # Life[b] => Life[b] = "alive" /\ Life'[b] = "over"
    BY <1>2, <1>3, <1>4 DEF Stops
  <2>2. Life' \in [Branch -> {"new", "alive", "over"}]
    BY <1>2, <1>3
  <2>3. Named' = Named /\ report' = report
    BY <1>2, <1>4 DEF Stops, Named
  <2> QED
    BY <2>1, <2>2, <2>3 DEF B!Stop, Life, Named
<1>5. ASSUME NEW c \in Branch, Starts(c) PROVE B!Start(c)
  <2>1. Life[c] = "new" /\ Life'[c] = "alive"
    BY <1>2, <1>5 DEF Starts
  <2>2. Life' = [Life EXCEPT ![c] = "alive"]
    BY <1>2, <1>3, <1>5, <2>1 DEF Starts
  <2>3. Named' = Named /\ report' = report
    BY <1>2, <1>5 DEF Starts, Named
  <2> QED
    BY <2>1, <2>2, <2>3 DEF B!Start, Life, Named
<1>6. ASSUME NEW c \in Branch, Tolds(c) PROVE B!Tell(c)
  <2>1. Life[c] = "alive" /\ Named[c] = None
    BY <1>2, <1>6 DEF Tolds
  <2>2. Life' = Life
    BY <1>2, <1>3, <1>6 DEF Tolds
  <2>3. Named' = [Named EXCEPT ![c] = c] /\ report' = report
    BY <1>2, <1>6 DEF Tolds
  <2> QED
    BY <2>1, <2>2, <2>3 DEF B!Tell, Life, Named
<1>7. ASSUME NEW c \in Branch, NEW a \in {"READY", "ERR"}, Notes(c, a) PROVE B!Note(c, a)
  <2>1. Life[c] # "new" /\ (a = "READY" => Named[c] = c) /\ report[c] = None
    BY <1>1, <1>2, <1>7 DEF Notes
  <2>2. Life' = Life /\ Named' = Named /\ report' = [report EXCEPT ![c] = a]
    BY <1>7 DEF Notes, Life, Named
  <2> QED
    BY <2>1, <2>2 DEF B!Note, Life, Named
<1> QED
  BY <1>4, <1>5, <1>6, <1>7 DEF Moves, B!Next

LEMMA KilledStops ==
  ASSUME TypeOK, NEW S, vm' = Killed(S), report' = report
  PROVE  Stops
<1>1. \A b \in Branch : Weaker(b)
  BY KilledIsWeaker, Pairs
<1> QED
  BY <1>1 DEF Stops, Weaker, Up

LEMMA UnmovedStops ==
  ASSUME report' = report, \A b \in Branch : vm'[b].told = vm[b].told /\ vm'[b].proc = vm[b].proc
  PROVE  Stops
BY DEF Stops

LEMMA EndsMoves ==
  ASSUME HarnessInv, Spawned, NEW r \in Runs, NEW a, Ends(r, a)
  PROVE  Moves
<1>0. TypeOK /\ RunInv(r) /\ vm' = vm /\ a \in {"READY", "ERR"}
  BY DEF HarnessInv, Ends
<1>1. CASE pc[r] = "ask" /\ kind[r] \in Tells
  <2> DEFINE c == <<r, k[r]>>
  <2>1. k[r] \in 1..Forks[r] /\ c \in Branch /\ k[r] \in Nat
    <3>1. k[r] \in 1..Forks[r] /\ k[r] \in Nat
      BY <1>0, <1>1, Pairs DEF RunInv, Driving, TypeOK
    <3> QED
      BY <3>1, Pairs
  <2>2. vm[c].proc # "none"
    <3>1. Reached(r, k[r])
      BY <2>1 DEF Reached
    <3> QED
      BY <2>1, <3>1 DEF Spawned
  <2>3. report[c] = None
    <3>1. Child(r, k[r])
      BY <1>0, <2>1 DEF RunInv
    <3> QED
      BY <1>1, <2>1, <3>1 DEF Child
  <2>4. report' = [report EXCEPT ![c] = a] /\ (a = "READY" => vm[c].told = c)
    BY <1>1 DEF Ends, Noted, Cur
  <2> HIDE DEF c
  <2>5. Notes(c, a)
    BY <1>0, <2>1, <2>2, <2>3, <2>4 DEF Notes
  <2> QED
    BY <1>0, <2>1, <2>5 DEF Moves
<1>2. CASE ~ (pc[r] = "ask" /\ kind[r] \in Tells)
  <2>1. report' = report
    BY <1>2 DEF Ends, Noted
  <2>2. Stops
    BY <1>0, <2>1, UnmovedStops
  <2> QED
    BY <2>2 DEF Moves
<1> QED
  BY <1>1, <1>2

LEMMA SpawnMoves ==
  ASSUME HarnessInv, NEW r \in Runs, Start(r) \/ ForkSerial(r) \/ ForkRemapped(r) \/ ForkPlain(r)
  PROVE  Moves
<1>0. TypeOK /\ RunInv(r) /\ report' = report /\ Forks[r] \in Nat
  BY Pairs DEF HarnessInv, Start, ForkSerial, ForkRemapped, ForkPlain, results
<1>1. CASE Start(r)
  <2>1. 0 \in 0..Forks[r] /\ Spawn(r, 0)
    BY <1>0, <1>1 DEF Start
  <2>2. \A x \in Runs : \A m \in 0..Forks[x] : ~ (x = r /\ m = 0) => vm'[<<x, m>>] = vm[<<x, m>>]
    BY <1>0, <2>1, Spawning
  <2>3. \A b \in Branch : b[1] \in Runs /\ b[2] \in 0..Forks[b[1]] /\ b[2] # 0 /\ b = <<b[1], b[2]>>
    BY Pairs
  <2>4. \A b \in Branch : vm'[b] = vm[b]
    BY <2>2, <2>3
  <2> QED
    BY <1>0, <2>4, UnmovedStops DEF Moves
<1>2. CASE ForkSerial(r) \/ ForkRemapped(r) \/ ForkPlain(r)
  <2> DEFINE n == k[r] + 1
             c == <<r, n>>
  <2>1. pc[r] = "fork" /\ Spawn(r, n)
    BY <1>2 DEF ForkSerial, ForkRemapped, ForkPlain, At
  <2>2. n \in 1..Forks[r] /\ n \in 0..Forks[r] /\ n > k[r]
    BY <1>0, <2>1 DEF RunInv, Driving, TypeOK
  <2>3. vm[c] = Off
    <3>1. Child(r, n) /\ NotSpawned(r, n)
      BY <1>0, <2>1, <2>2 DEF RunInv, NotSpawned, Early
    <3> QED
      BY <3>1 DEF Child
  <2> HIDE DEF n
  <2>4. /\ \A x \in Runs : \A m \in 0..Forks[x] : ~ (x = r /\ m = n) => vm'[<<x, m>>] = vm[<<x, m>>]
        /\ vm'[c] = [vm[c] EXCEPT !.proc = "up"]
    BY <1>0, <2>1, <2>2, Spawning
  <2>5. c \in Branch
    BY <2>2, Pairs
  <2>6. vm[c].proc = "none" /\ vm'[c].proc = "up" /\ vm'[c].told = vm[c].told
    BY <2>3, <2>4 DEF Off
  <2>7. \A b \in Branch : b # c => vm'[b] = vm[b]
    <3>1. \A b \in Branch : b[1] \in Runs /\ b[2] \in 0..Forks[b[1]] /\ b = <<b[1], b[2]>>
      BY Pairs
    <3> QED
      BY <2>4, <3>1
  <2> HIDE DEF c
  <2>8. Starts(c)
    BY <1>0, <2>5, <2>6, <2>7 DEF Starts
  <2> QED
    BY <2>5, <2>8 DEF Moves
<1> QED
  BY <1>1, <1>2

LEMMA ServeMoves == ASSUME HarnessInv, NEW v \in VMs, Serve(v) PROVE Moves
<1>0. TypeOK /\ report' = report /\ vm[v].proc = "up"
  BY DEF HarnessInv, Serve, Up, results
<1> DEFINE q == Head(vm[v].inbox)
<1>1. vm[v].inbox \in Seq(Request) /\ vm[v].inbox # << >>
  BY <1>0, Handling
<1>2. PICK g, a : Handled(v, q, g, a) /\ vm' = [vm EXCEPT ![v] = g]
  BY <1>0, Handling
<1>3. /\ vm' \in [VMs -> Guest] /\ vm'[v] = g
      /\ \A w \in VMs : w # v => vm'[w] = vm[w]
  <2> HIDE DEF q
  <2> QED
    BY <1>0, <1>2, OneVM DEF Handled
<1>4. \A b \in Branch : b \in VMs /\ vm'[b].proc = vm[b].proc /\ (b # v => vm'[b] = vm[b])
  <2> HIDE DEF q
  <2> QED
    BY <1>2, <1>3, Pairs DEF Handled
<1>5. CASE v \in Branch /\ q.what = "FORKED" /\ a = "ok"
  <2>1. v[1] \in Runs /\ v[2] \in 1..Forks[v[1]] /\ v = <<v[1], v[2]>>
    BY <1>5, Pairs
  <2>2. Child(v[1], v[2])
    BY <2>1 DEF HarnessInv, RunInv
  <2>3. ToChild(vm[v].inbox[1], v) /\ vm[v].told = None
    BY <1>1, <2>1, <2>2 DEF Child
  <2>4. vm'[v].told = v
    BY <1>1, <1>2, <1>3, <1>5, <2>3 DEF Handled, ToChild
  <2>5. Tolds(v)
    BY <1>0, <1>4, <1>5, <2>3, <2>4 DEF Tolds
  <2> QED
    BY <1>5, <2>5 DEF Moves
<1>6. CASE ~ (v \in Branch /\ q.what = "FORKED" /\ a = "ok")
  <2>1. \A b \in Branch : vm'[b].told = vm[b].told
    <3> HIDE DEF q
    <3> QED
      BY <1>2, <1>3, <1>4, <1>6 DEF Handled
  <2> QED
    BY <1>0, <1>4, <2>1, UnmovedStops DEF Moves
<1> QED
  BY <1>5, <1>6

LEMMA NextMoves == ASSUME HarnessInv, Spawned, Next PROVE Moves
<1>0. TypeOK /\ \A b \in Branch : b \in VMs /\ vm[b] \in Guest
  BY Pairs DEF HarnessInv, TypeOK
<1>1. ASSUME NEW r \in Runs, Start(r) \/ ForkSerial(r) \/ ForkRemapped(r) \/ ForkPlain(r)
      PROVE  Moves
  BY <1>1, SpawnMoves
<1>2. ASSUME NEW r \in Runs, ApiUp(r) \/ Poll(r) \/ Verdict(r) PROVE Moves
  <2>1. vm' = vm /\ report' = report
    BY <1>2 DEF ApiUp, Poll, Verdict, results
  <2> QED
    BY <2>1, UnmovedStops DEF Moves
<1>3. ASSUME NEW r \in Runs, ApiNeverUp(r) \/ Snapshot(r) \/ KillSerial(r) \/ KillAll(r) \/ Measure(r)
      PROVE  Moves
  <2>1. report' = report /\ \E S : vm' = Killed(S)
    BY <1>3 DEF ApiNeverUp, Snapshot, KillSerial, KillAll, Measure, Fail, results
  <2> QED
    BY <1>0, <2>1, KilledStops DEF Moves
<1>4. ASSUME NEW r \in Runs, Receive(r) PROVE Moves
  BY <1>4, ReceiveEnds, EndsMoves
<1>5. ASSUME NEW r \in Runs, RequestFails(r) PROVE Moves
  <2>1. CASE Ends(r, "ERR")
    BY <2>1, EndsMoves
  <2>2. ASSUME NEW S, Quits(r, "request", S) PROVE Moves
    <3>1. report' = report /\ vm' = Killed(S)
      BY <2>2 DEF Quits, Fail
    <3> QED
      BY <1>0, <3>1, KilledStops DEF Moves
  <2> QED
    BY <1>5, <2>1, <2>2, RequestFailsEnds
<1>6. ASSUME NEW r \in Runs, ConfigureAndStart(r) \/ Load(r) PROVE Moves
  <2>1. report' = report
    BY <1>6 DEF ConfigureAndStart, Load, results
  <2>2. CASE \E S : vm' = Killed(S)
    BY <1>0, <2>1, <2>2, KilledStops DEF Moves
  <2>3. CASE vm' = [vm EXCEPT ![Cur(r)].on = TRUE]
    <3>1. \A b \in Branch : vm'[b].told = vm[b].told /\ vm'[b].proc = vm[b].proc
      BY <1>0, <2>3 DEF TypeOK, Guest
    <3> QED
      BY <2>1, <3>1, UnmovedStops DEF Moves
  <2>4. CASE vm' = [vm EXCEPT ![Cur(r)].on = TRUE, ![Cur(r)].held = image[r].held,
                              ![Cur(r)].mid = image[r].mid]
    <3>1. \A b \in Branch : vm'[b].told = vm[b].told /\ vm'[b].proc = vm[b].proc
      BY <1>0, <2>4 DEF TypeOK, Guest
    <3> QED
      BY <2>1, <3>1, UnmovedStops DEF Moves
  <2> QED
    BY <1>6, <2>2, <2>3, <2>4 DEF ConfigureAndStart, Load, Fail
<1>7. ASSUME NEW r \in Runs, Ask(r) PROVE Moves
  <2>1. report' = report /\ \E v, q : vm' = [vm EXCEPT ![v].inbox = Append(@, q)]
    BY <1>7 DEF Ask, Connect, results
  <2>2. \A b \in Branch : vm'[b].told = vm[b].told /\ vm'[b].proc = vm[b].proc
    BY <1>0, <2>1 DEF TypeOK, Guest
  <2> QED
    BY <2>1, <2>2, UnmovedStops DEF Moves
<1>8. ASSUME NEW v \in VMs, Serve(v) PROVE Moves
  BY <1>8, ServeMoves
<1>9. ASSUME NEW v \in VMs, Sample(v) PROVE Moves
  <2>1. report' = report /\ vm' = [vm EXCEPT ![v].stale = TRUE]
    BY <1>9 DEF Sample, results
  <2>2. \A b \in Branch : vm'[b].told = vm[b].told /\ vm'[b].proc = vm[b].proc
    BY <1>0, <2>1 DEF TypeOK, Guest
  <2> QED
    BY <2>1, <2>2, UnmovedStops DEF Moves
<1>10. ASSUME NEW v \in VMs, Exit(v) PROVE Moves
  <2>1. report' = report /\ vm' = Killed({v})
    BY <1>10 DEF Exit, results
  <2> QED
    BY <1>0, <2>1, KilledStops DEF Moves
<1> QED
  BY <1>1, <1>2, <1>3, <1>4, <1>5, <1>6, <1>7, <1>8, <1>9, <1>10 DEF Next, Driver

(* A spike comes to a child by starting it, or after all have been started. *)
Reaches(r) ==
  /\ kind' = kind /\ \A x \in Runs : x # r => pc'[x] = pc[x] /\ k'[x] = k[x]
  /\ \A n \in 1..Forks[r] : Reached(r, n)' => Reached(r, n) \/ vm'[<<r, n>>].proc = "up"

LEMMA DriverReaches == ASSUME HarnessInv, NEW r \in Runs, Driver(r) PROVE Reaches(r)
<1>0. /\ TypeOK /\ RunInv(r) /\ k[r] \in Nat /\ Forks[r] \in Nat /\ k[r] <= Forks[r]
      /\ pc \in [Runs -> {"start", "api", "boot", "ping", "quiesce", "snap", "fork",
                          "load", "poll", "ask", "kill", "verdict", "done", "failed"}]
      /\ k \in [Runs -> Nat]
  BY Pairs DEF HarnessInv, TypeOK
<1>1. CASE Start(r) \/ ForkSerial(r) \/ ForkRemapped(r) \/ ForkPlain(r)
  <2>1. PICK n \in 0..Forks[r] : Spawn(r, n) /\ n <= k[r] + 1 /\ kind' = kind
    <3>1. CASE Start(r)
      <4>1. 0 \in 0..Forks[r] /\ 0 <= k[r] + 1 /\ Spawn(r, 0) /\ kind' = kind
        BY <1>0, <3>1 DEF Start, results
      <4> QED
        BY <4>1
    <3>2. CASE ForkSerial(r) \/ ForkRemapped(r) \/ ForkPlain(r)
      <4>1. pc[r] = "fork" /\ Spawn(r, k[r] + 1) /\ kind' = kind
        BY <3>2 DEF ForkSerial, ForkRemapped, ForkPlain, At, results
      <4>2. k[r] + 1 \in 0..Forks[r]
        BY <1>0, <4>1 DEF RunInv, Driving
      <4> QED
        BY <1>0, <4>1, <4>2
    <3> QED
      BY <1>1, <3>1, <3>2
  <2>2. /\ k'[r] = n /\ pc'[r] = "api"
        /\ \A x \in Runs : x # r => k'[x] = k[x] /\ pc'[x] = pc[x]
        /\ vm'[<<r, n>>] = [vm[<<r, n>>] EXCEPT !.proc = "up"]
    BY <1>0, <2>1, Spawning
  <2>3. vm'[<<r, n>>].proc = "up"
    <3>1. <<r, n>> \in VMs
      BY Pairs
    <3>2. vm[<<r, n>>] \in Guest
      BY <1>0, <3>1 DEF TypeOK
    <3> QED
      BY <2>2, <3>2 DEF Guest
  <2>4. ASSUME NEW m \in 1..Forks[r], Reached(r, m)' PROVE Reached(r, m) \/ vm'[<<r, m>>].proc = "up"
    <3>1. m <= n
      BY <2>2, <2>4 DEF Reached
    <3>2. m <= k[r] \/ m = n
      BY <1>0, <2>1, <3>1
    <3> QED
      BY <2>3, <3>2 DEF Reached
  <2> QED
    BY <2>1, <2>2, <2>4 DEF Reaches
<1>2. CASE Load(r) /\ AfterLoad(r)
  <2>1. /\ kind' = kind /\ \A x \in Runs : x # r => pc'[x] = pc[x] /\ k'[x] = k[x]
    BY <1>0, <1>2 DEF Load, AfterLoad, Goto, results
  <2>2. k[r] > 0
    BY <1>0, <1>2 DEF Load, At, RunInv, Driving
  <2>3. \/ pc'[r] = "fork" /\ k'[r] = k[r]
        \/ kind[r] \in Serial /\ k'[r] = k[r]
        \/ k[r] = Forks[r] /\ k'[r] = 1
    BY <1>0, <1>2 DEF AfterLoad, Goto
  <2>4. \A n \in 1..Forks[r] : Reached(r, n)' => Reached(r, n)
    BY <1>0, <2>1, <2>2, <2>3 DEF Reached
  <2> QED
    BY <2>1, <2>4 DEF Reaches
<1>3. CASE Receive(r) \/ (RequestFails(r) /\ Proceed(r))
  <2>1. kind' = kind /\ Proceed(r) /\ pc[r] \in {"ping", "quiesce", "ask"}
    BY <1>0, <1>3 DEF Receive, RequestFails, RunInv, Driving
  <2>2. \A x \in Runs : x # r => pc'[x] = pc[x] /\ k'[x] = k[x]
    BY <1>0, <2>1 DEF Proceed, Goto
  <2>3. \/ pc[r] = "ask" /\ k'[r] = k[r]
        \/ pc'[r] \in {"quiesce", "snap"} /\ k'[r] = k[r]
        \/ pc[r] = "ask" /\ kind[r] \notin Serial
    BY <1>0, <2>1 DEF Proceed, Goto
  <2>4. \A n \in 1..Forks[r] : Reached(r, n)' => Reached(r, n)
    BY <2>1, <2>3 DEF Reached
  <2> QED
    BY <2>1, <2>2, <2>4 DEF Reaches
<1>4. CASE /\ kind' = kind /\ k' = k /\ \A x \in Runs : x # r => pc'[x] = pc[x]
           /\ kind[r] \in Serial \/ pc'[r] = pc[r] \/ pc[r] = "poll"
                \/ pc'[r] \notin {"poll", "ask", "kill"}
  BY <1>4 DEF Reaches, Reached
<1>5. ASSUME ApiUp(r) \/ ApiNeverUp(r) \/ ConfigureAndStart(r) \/ Snapshot(r) \/ Poll(r)
               \/ KillSerial(r) \/ KillAll(r) \/ Measure(r) \/ Verdict(r) \/ Ask(r)
      PROVE  Reaches(r)
  <2>1. kind' = kind /\ k' = k
    BY <1>5 DEF ApiUp, ApiNeverUp, ConfigureAndStart, Snapshot, Poll, KillSerial, KillAll, Measure,
                Verdict, Ask, Connect, results
  <2>2. (pc' = pc) \/ (pc[r] = "poll" /\ Goto(r, "ask"))
          \/ \E l \in {"boot", "load", "failed", "ping", "snap", "fork", "verdict", "done"} : Goto(r, l)
    BY <1>5 DEF ApiUp, ApiNeverUp, ConfigureAndStart, Snapshot, Poll, KillSerial, KillAll, Measure,
                Verdict, Ask, Connect, Fail, At
  <2> QED
    BY <1>0, <1>4, <2>1, <2>2 DEF Goto
<1>6. ASSUME \E S : \E w : Fail(r, w, S), k' = k, kind' = kind PROVE Reaches(r)
  <2>1. Goto(r, "failed")
    BY <1>6 DEF Fail
  <2> QED
    BY <1>0, <1>4, <1>6, <2>1 DEF Goto
<1>7. CASE Load(r)
  BY <1>2, <1>6, <1>7 DEF Load, results
<1>8. CASE RequestFails(r)
  BY <1>3, <1>6, <1>8 DEF RequestFails
<1> QED
  BY <1>1, <1>3, <1>5, <1>7, <1>8 DEF Driver

LEMMA SpawnedStep == ASSUME HarnessInv, Spawned, [Next]_vars PROVE Spawned'
<1>1. CASE UNCHANGED vars
  BY <1>1 DEF vars, driver, results, Spawned, Reached
<1>2. CASE Next
  <2>1. \A b \in Branch : vm[b].proc # "none" => vm'[b].proc # "none"
    <3>1. Moves
      BY <1>2, NextMoves
    <3> QED
      BY <3>1 DEF Moves, Stops, Starts, Tolds, Notes
  <2>2. ASSUME NEW x \in Runs, NEW n \in 1..Forks[x]
        PROVE  Reached(x, n)' => Reached(x, n) \/ vm'[<<x, n>>].proc = "up"
    <3>1. CASE \E r \in Runs : Driver(r)
      <4>1. PICK r \in Runs : Reaches(r)
        BY <3>1, DriverReaches
      <4>2. CASE x = r
        BY <4>1, <4>2 DEF Reaches
      <4>3. CASE x # r
        BY <4>1, <4>3 DEF Reaches, Reached
      <4> QED
        BY <4>2, <4>3
    <3>2. CASE \E v \in VMs : Serve(v) \/ Sample(v) \/ Exit(v)
      <4>1. pc' = pc /\ k' = k /\ kind' = kind
        BY <3>2 DEF Serve, Sample, Exit, driver, results
      <4> QED
        BY <4>1 DEF Reached
    <3> QED
      BY <1>2, <3>1, <3>2 DEF Next
  <2> QED
    BY <2>1, <2>2, Pairs DEF Spawned
<1> QED
  BY <1>1, <1>2

LEMMA SpawnedInvariant == Spec => []Spawned
<1>1. Init => Spawned
  <2> SUFFICES ASSUME Init, NEW r \in Runs, NEW n \in 1..Forks[r] PROVE ~Reached(r, n)
    BY DEF Spawned
  <2>1. pc[r] = "start" /\ k[r] = 0
    BY DEF Init
  <2> QED
    BY <2>1 DEF Reached
<1>2. HarnessInv /\ Spawned /\ [Next]_vars => Spawned'
  BY SpawnedStep
<1> QED
  BY <1>1, <1>2, HarnessInvariant, PTL DEF Spec

(***************************************************************************)
(* The harness implements Branches: although all children bind one baked   *)
(* path and late requests are served, every child is started once, told    *)
(* once that it is itself, and READY only if it was told.                  *)
(***************************************************************************)
THEOREM HarnessKeepsBranches == Spec => RefinesBranches
<1>1. Init => B!Init
  <2> SUFFICES ASSUME Init PROVE B!Init
    OBVIOUS
  <2>1. \A b \in Branch : b \in VMs
    BY Pairs
  <2>2. \A b \in Branch : vm[b].proc = "none" /\ vm[b].told = None
    BY <2>1, OffIsGuest DEF Init
  <2> QED
    BY <2>2 DEF Init, B!Init
<1>2. HarnessInv /\ HarnessInv' /\ Spawned /\ [Next]_vars => [B!Next]_(B!vars)
  <2> SUFFICES ASSUME HarnessInv, HarnessInv', Spawned, [Next]_vars PROVE [B!Next]_(B!vars)
    OBVIOUS
  <2>1. CASE UNCHANGED vars
    BY <2>1 DEF vars, results, B!vars
  <2>2. CASE Next
    <3>1. B!Next
      BY <2>2, NextMoves, MovesAreSteps DEF HarnessInv
    <3> QED
      BY <3>1
  <2> QED
    BY <2>1, <2>2
<1> QED
  BY <1>1, <1>2, HarnessInvariant, SpawnedInvariant, PTL DEF Spec, RefinesBranches, B!Spec

=============================================================================
