------------------------- MODULE ForkProtocolProofs -------------------------
(***************************************************************************)
(* Proofs about ForkProtocol, for every set of VMs, snapshots and          *)
(* processes, with or without faults.                                      *)
(***************************************************************************)
EXTENDS ForkProtocol, TLAPS

LEMMA VMsAreSlots == VMs \subseteq Slots /\ Snaps \subseteq Slots
  BY DEF Slots

(***************************************************************************)
(* Updating a component of a nested function keeps its type.               *)
(***************************************************************************)
LEMMA Update2 ==
  ASSUME NEW A, NEW B, NEW C, NEW f \in [A -> [B -> C]],
         NEW a \in A, NEW b \in B, NEW c \in C
  PROVE  [f EXCEPT ![a][b] = c] \in [A -> [B -> C]]
  OBVIOUS

LEMMA Update3 ==
  ASSUME NEW A, NEW B, NEW C, NEW D, NEW f \in [A -> [B -> [C -> D]]],
         NEW a \in A, NEW b \in B, NEW c \in C, NEW d \in D
  PROVE  [f EXCEPT ![a][b][c] = d] \in [A -> [B -> [C -> D]]]
<1>1. [f[a][b] EXCEPT ![c] = d] \in [C -> D]
  OBVIOUS
<1>2. [f[a] EXCEPT ![b] = [f[a][b] EXCEPT ![c] = d]] \in [B -> [C -> D]]
  BY <1>1
<1> QED BY <1>1, <1>2

-----------------------------------------------------------------------------
LEMMA InitTypeOK == Init => TypeOK
  BY ForkAssumption DEF Init, TypeOK, Threads, CallerPC, PollerPC, Slots

(***************************************************************************)
(* What a snapshot in progress needs: its id is one of the Snaps.          *)
(***************************************************************************)
SidOK == \A v \in VMs : host[v] = "quiescing" => sid[v] \in Snaps

LEMMA CopyGuestTyped ==
  ASSUME TypeOK, NEW x \in Slots, NEW y \in Slots, CopyGuest(x, y)
  PROVE  /\ used' \subseteq Slots
         /\ forkgen' \in [Slots -> Nat]
         /\ agent' \in [Slots -> {"accept", "bump", "cont"}]
         /\ client' \in [Slots -> VMs \cup {None}]
         /\ branch' \in [Slots -> VMs \cup {None}]
         /\ stopped' \in [Slots -> SUBSET {Root}]
         /\ hookgen' \in [Slots -> [Procs -> Nat]]
         /\ rng' \in [Slots -> [Procs -> VMs \cup {None}]]
         /\ pc' \in [Slots -> [Procs -> [Threads -> CallerPC \cup PollerPC]]]
         /\ g' \in [Slots -> [Procs -> [Threads -> Nat]]]
  BY DEF TypeOK, CopyGuest

LEMMA GotoTyped ==
  ASSUME TypeOK, NEW v \in VMs, NEW p \in Procs, NEW t \in Threads,
         NEW l \in CallerPC \cup PollerPC, Goto(v, p, t, l)
  PROVE  pc' \in [Slots -> [Procs -> [Threads -> CallerPC \cup PollerPC]]]
<1>1. v \in Slots
  BY VMsAreSlots
<1>2. pc \in [Slots -> [Procs -> [Threads -> CallerPC \cup PollerPC]]]
  BY DEF TypeOK
<1>3. [pc EXCEPT ![v][p][t] = l]
        \in [Slots -> [Procs -> [Threads -> CallerPC \cup PollerPC]]]
  BY <1>1, <1>2, Update3
<1> QED BY <1>3 DEF Goto

LEMMA PCs ==
  /\ {"caller", "poller"} = Threads
  /\ {"import", "app", "cmp", "reseed", "set", "call", "sleep"}
       \subseteq CallerPC \cup PollerPC
  /\ \A t \in Threads : Return(t) \in CallerPC \cup PollerPC
  BY DEF Threads, CallerPC, PollerPC, Return

LEMMA HookTyped ==
  ASSUME TypeOK, NEW v \in VMs, NEW p \in Procs, Hook(v, p)
  PROVE  TypeOK'
<1>0. /\ v \in Slots
      /\ forkgen[v] \in Nat
      /\ \A t \in Threads : g[v][p][t] \in Nat
  BY VMsAreSlots DEF TypeOK
<1>1. CASE HookBaseline(v, p)
  <2>1. hookgen' \in [Slots -> [Procs -> Nat]]
    BY <1>1, <1>0, Update2 DEF HookBaseline, TypeOK
  <2>2. pc' \in [Slots -> [Procs -> [Threads -> CallerPC \cup PollerPC]]]
    BY <1>1, GotoTyped, PCs DEF HookBaseline
  <2> QED BY <1>1, <2>1, <2>2 DEF HookBaseline, TypeOK, hostVars, history
<1>2. CASE HookImport(v, p)
  <2>1. rng' \in [Slots -> [Procs -> VMs \cup {None}]]
    BY <1>2, <1>0, Update2 DEF HookImport, TypeOK
  <2>2. [t \in Threads |-> IF t = "caller" THEN "app" ELSE "sleep"]
          \in [Threads -> CallerPC \cup PollerPC]
    BY PCs
  <2>3. pc' \in [Slots -> [Procs -> [Threads -> CallerPC \cup PollerPC]]]
    BY <1>2, <1>0, <2>2, Update2 DEF HookImport, TypeOK
  <2> QED BY <1>2, <2>1, <2>3 DEF HookImport, TypeOK, hostVars, history
<1>3. ASSUME NEW t \in Threads, MaybeReseed(v, p, t) PROVE TypeOK'
  <2>1. CASE ReadGen(v, p, t)
    <3>1. g' \in [Slots -> [Procs -> [Threads -> Nat]]]
      BY <2>1, <1>0, Update3 DEF ReadGen, TypeOK
    <3>2. (mine[v][p] \/ t = "caller") \in BOOLEAN
      OBVIOUS
    <3>3. mine' \in [VMs -> [Procs -> BOOLEAN]]
      BY <2>1, <3>2, Update2 DEF ReadGen, TypeOK
    <3>4. pc' \in [Slots -> [Procs -> [Threads -> CallerPC \cup PollerPC]]]
      BY <2>1, GotoTyped, PCs DEF ReadGen
    <3> QED BY <2>1, <3>1, <3>3, <3>4 DEF ReadGen, TypeOK, hostVars
  <2>2. CASE Compare(v, p, t)
    <3>1. pc' \in [Slots -> [Procs -> [Threads -> CallerPC \cup PollerPC]]]
      BY <2>2, GotoTyped, PCs DEF Compare
    <3> QED BY <2>2, <3>1 DEF Compare, TypeOK, hostVars, history
  <2>3. CASE Reseed(v, p, t)
    <3>1. rng' \in [Slots -> [Procs -> VMs \cup {None}]]
      BY <2>3, <1>0, Update2 DEF Reseed, TypeOK
    <3>2. pc' \in [Slots -> [Procs -> [Threads -> CallerPC \cup PollerPC]]]
      BY <2>3, GotoTyped, PCs DEF Reseed
    <3> QED BY <2>3, <3>1, <3>2 DEF Reseed, TypeOK, hostVars, history
  <2>4. CASE SetGen(v, p, t)
    <3>1. hookgen' \in [Slots -> [Procs -> Nat]]
      BY <2>4, <1>0, Update2 DEF SetGen, TypeOK
    <3>2. pc' \in [Slots -> [Procs -> [Threads -> CallerPC \cup PollerPC]]]
      BY <2>4, GotoTyped, PCs DEF SetGen
    <3> QED BY <2>4, <3>1, <3>2 DEF SetGen, TypeOK, hostVars, history
  <2> QED BY <1>3, <2>1, <2>2, <2>3, <2>4 DEF MaybeReseed
<1>4. CASE Draw(v, p)
  <2>1. pc' \in [Slots -> [Procs -> [Threads -> CallerPC \cup PollerPC]]]
    BY <1>4, GotoTyped, PCs DEF Draw
  <2> QED BY <1>4, <2>1 DEF Draw, TypeOK, hostVars, history
<1> QED BY <1>1, <1>2, <1>3, <1>4 DEF Hook

LEMMA AgentTyped ==
  ASSUME TypeOK, NEW v \in VMs, Agent(v)
  PROVE  TypeOK'
<1>0. v \in Slots /\ Root \in {Root}
  BY VMsAreSlots
<1>a. ASSUME Accept(v), inbox[v] # << >>
      PROVE  inbox' \in [Slots -> Seq({"QUIESCE", "FORKED"})]
  <2>1. Tail(inbox[v]) \in Seq({"QUIESCE", "FORKED"})
    BY <1>0, <1>a DEF TypeOK
  <2> QED BY <1>0, <1>a, <2>1 DEF Accept, TypeOK
<1>1. CASE AgentQuiesce(v)
  BY <1>0, <1>1, <1>a DEF AgentQuiesce, Asked, TypeOK, hostVars, history
<1>2. CASE AgentBranch(v)
  BY <1>0, <1>2, <1>a DEF AgentBranch, Asked, TypeOK, hostVars, history
<1>3. CASE AgentBranchError(v)
  BY <1>0, <1>3, <1>a DEF AgentBranchError, Asked, TypeOK, guestVars, history
<1>4. CASE AgentBump(v)
  BY <1>0, <1>4 DEF AgentBump, TypeOK, hostVars, history
<1>5. CASE AgentCont(v)
  BY <1>0, <1>5 DEF AgentCont, TypeOK, history
<1>6. CASE AgentBumpError(v)
  BY <1>0, <1>6 DEF AgentBumpError, TypeOK, history
<1> QED BY <1>1, <1>2, <1>3, <1>4, <1>5, <1>6 DEF Agent

LEMMA EngineTyped ==
  ASSUME TypeOK, SidOK, NEW v \in VMs, Engine(v)
  PROVE  TypeOK'
<1>0. v \in Slots /\ Snaps \subseteq Slots
  BY VMsAreSlots
<1>a. ASSUME NEW m \in {"QUIESCE", "FORKED"}, Send(v, m)
      PROVE  inbox' \in [Slots -> Seq({"QUIESCE", "FORKED"})]
  <2>1. Append(inbox[v], m) \in Seq({"QUIESCE", "FORKED"})
    BY <1>0, <1>a DEF TypeOK
  <2> QED BY <1>0, <1>a, <2>1 DEF Send, TypeOK
<1>1. ASSUME NEW s \in Snaps, Quiesce(v, s) PROVE TypeOK'
  BY <1>1, <1>a DEF Quiesce, StartSnapshot, TypeOK, guestVars, history
<1>2. ASSUME NEW s \in Snaps, QuiesceUnreachable(v, s) PROVE TypeOK'
  BY <1>2 DEF QuiesceUnreachable, StartSnapshot, TypeOK, guestVars, history
<1>3. ASSUME NEW s \in Snaps, Restore(s, v) PROVE TypeOK'
  <2>1. (Root \in stopped[s] /\ agent[s] = "accept") \in BOOLEAN
    OBVIOUS
  <2>2. sealed' \in [VMs -> BOOLEAN]
    BY <1>3, <2>1 DEF Restore, TypeOK
  <2>3. base' \in [VMs -> Nat] /\ mine' \in [VMs -> [Procs -> BOOLEAN]]
    BY <1>0, <1>3 DEF Restore, TypeOK
  <2>4. host' \in [VMs -> {"idle", "quiescing", "restored", "forking"}]
    BY <1>3 DEF Restore, TypeOK
  <2>5. /\ inbox' = inbox /\ sid' = sid /\ answer' = answer /\ ready' = ready
        /\ CopyGuest(s, v)
    BY <1>3 DEF Restore
  <2> QED BY <1>0, <2>2, <2>3, <2>4, <2>5, CopyGuestTyped DEF TypeOK
<1>4. CASE Snapshot(v)
  <2>1. sid[v] \in Slots /\ CopyGuest(v, sid[v])
    BY <1>0, <1>4 DEF Snapshot, SidOK
  <2>2. /\ host' \in [VMs -> {"idle", "quiescing", "restored", "forking"}]
        /\ sid' \in [VMs -> Snaps \cup {None}]
    BY <1>4 DEF Snapshot, TypeOK
  <2>3. inbox' = inbox /\ answer' = answer /\ ready' = ready /\ UNCHANGED history
    BY <1>4 DEF Snapshot
  <2> QED BY <1>0, <2>1, <2>2, <2>3, CopyGuestTyped DEF TypeOK, history
<1>5. CASE SendForked(v)
  BY <1>5, <1>a DEF SendForked, TypeOK, guestVars, history
<1>6. CASE ForkedAnswered(v)
  BY <1>6 DEF ForkedAnswered, Record, TypeOK, guestVars, history
<1>7. CASE ForkedFails(v)
  BY <1>7 DEF ForkedFails, Record, TypeOK, guestVars, history
<1> QED BY <1>1, <1>2, <1>3, <1>4, <1>5, <1>6, <1>7 DEF Engine

-----------------------------------------------------------------------------
(***************************************************************************)
(* The inductive invariant behind FreshCalls.  No generation a hook has    *)
(* recorded or read exceeds the guest's forkgen, so the bump of a fork     *)
(* makes all of them old; and the present generation is recorded, or about *)
(* to be, only where the stream was seeded in this VM.                     *)
(***************************************************************************)
GenBound(x, p) ==
  hookgen[x][p] <= forkgen[x] /\ \A t \in Threads : g[x][p][t] <= forkgen[x]

GenBounds == \A x \in Slots, p \in Procs : GenBound(x, p)

Started(v, p) == pc[v][p]["caller"] \notin {"baseline", "import"}

Fresh(v, p) ==
  Live(v) /\ Bumped(v) /\ Started(v, p) =>
    /\ hookgen[v][p] = forkgen[v] => rng[v][p] = v
    /\ \A t \in Threads :
         pc[v][p][t] = "set" /\ g[v][p][t] = forkgen[v] => rng[v][p] = v
    /\ pc[v][p]["caller"] = "call" /\ g[v][p]["caller"] = forkgen[v]
         => rng[v][p] = v

FreshInv == \A v \in VMs, p \in Procs : Fresh(v, p)

SafeInv == TypeOK /\ SidOK /\ Genesis \in used /\ GenBounds /\ FreshInv

(* What the updates of the hook's variables leave in every component. *)
LEMMA GotoReads ==
  ASSUME TypeOK, NEW v \in VMs, NEW p \in Procs, NEW t \in Threads,
         NEW l, Goto(v, p, t, l)
  PROVE  \A u \in Slots, q \in Procs, r \in Threads :
           pc'[u][q][r] = IF u = v /\ q = p /\ r = t THEN l ELSE pc[u][q][r]
  BY VMsAreSlots DEF TypeOK, Goto

LEMMA Read2 ==
  ASSUME NEW A, NEW B, NEW C, NEW f \in [A -> [B -> C]],
         NEW a \in A, NEW b \in B, NEW c
  PROVE  \A x \in A, y \in B :
           [f EXCEPT ![a][b] = c][x][y] = IF x = a /\ y = b THEN c ELSE f[x][y]
  OBVIOUS

LEMMA Read3 ==
  ASSUME NEW A, NEW B, NEW C, NEW D, NEW f \in [A -> [B -> [C -> D]]],
         NEW a \in A, NEW b \in B, NEW c \in C, NEW d
  PROVE  \A x \in A, y \in B, z \in C :
           [f EXCEPT ![a][b][c] = d][x][y][z]
             = IF x = a /\ y = b /\ z = c THEN d ELSE f[x][y][z]
  OBVIOUS

LEMMA HookSafe ==
  ASSUME SafeInv, NEW v \in VMs, NEW p \in Procs, Hook(v, p)
  PROVE  GenBounds' /\ FreshInv'
<1>0. /\ v \in Slots /\ VMs \subseteq Slots
      /\ "caller" \in Threads /\ TypeOK /\ GenBounds /\ FreshInv
      /\ forkgen \in [Slots -> Nat]
      /\ hookgen \in [Slots -> [Procs -> Nat]]
      /\ rng \in [Slots -> [Procs -> VMs \cup {None}]]
      /\ pc \in [Slots -> [Procs -> [Threads -> CallerPC \cup PollerPC]]]
      /\ g \in [Slots -> [Procs -> [Threads -> Nat]]]
  BY VMsAreSlots, PCs DEF TypeOK, SafeInv
<1>t. v \in Slots /\ VMs \subseteq Slots /\ "caller" \in Threads
  BY <1>0
<1>gb. \A u \in Slots, q \in Procs : GenBound(u, q) /\ forkgen[u] \in Nat
  BY <1>0 DEF GenBounds
<1>1. CASE HookBaseline(v, p)
  <2>1. \A u \in Slots, q \in Procs :
          hookgen'[u][q] = IF u = v /\ q = p THEN forkgen[v] ELSE hookgen[u][q]
    BY <1>0, <1>1, Read2 DEF HookBaseline
  <2>2. \A u \in Slots, q \in Procs, r \in Threads :
          pc'[u][q][r] = IF u = v /\ q = p /\ r = "caller" THEN "import"
                         ELSE pc[u][q][r]
    BY <1>0, <1>1, GotoReads DEF HookBaseline
  <2>3. /\ pc[v][p]["caller"] = "baseline"
        /\ UNCHANGED <<used, forkgen, rng, g, base>>
    BY <1>1 DEF HookBaseline, At, history
  <2>4. GenBounds'
    <3>1. ASSUME NEW u \in Slots, NEW q \in Procs PROVE GenBound(u, q)'
      BY <1>t, <1>gb, <2>1, <2>3 DEF GenBound
    <3> QED BY <3>1 DEF GenBounds
  <2>5. FreshInv'
    <3>1. ASSUME NEW u \in VMs, NEW q \in Procs PROVE Fresh(u, q)'
      <4>1. u \in Slots /\ Fresh(u, q)
        BY <1>0 DEF FreshInv
      <4> QED BY <1>t, <4>1, <2>1, <2>2, <2>3 DEF Fresh, Live, Bumped, Started
    <3> QED BY <3>1 DEF FreshInv
  <2> QED BY <2>4, <2>5
<1>2. CASE HookImport(v, p)
  <2>1. \A u \in Slots, q \in Procs :
          rng'[u][q] = IF u = v /\ q = p THEN v ELSE rng[u][q]
    BY <1>0, <1>2, Read2 DEF HookImport
  <2>2. \A u \in Slots, q \in Procs, r \in Threads :
          (u = v /\ q = p) \/ pc'[u][q][r] = pc[u][q][r]
    BY <1>0, <1>2 DEF HookImport
  <2>3. UNCHANGED <<used, forkgen, hookgen, g, base>>
    BY <1>2 DEF HookImport, history
  <2>4. GenBounds'
    <3>1. ASSUME NEW u \in Slots, NEW q \in Procs PROVE GenBound(u, q)'
      BY <1>t, <1>gb, <2>3 DEF GenBound
    <3> QED BY <3>1 DEF GenBounds
  <2>5. FreshInv'
    <3>1. ASSUME NEW u \in VMs, NEW q \in Procs PROVE Fresh(u, q)'
      <4>1. u \in Slots /\ Fresh(u, q)
        BY <1>0 DEF FreshInv
      <4> QED BY <1>t, <4>1, <2>1, <2>2, <2>3 DEF Fresh, Live, Bumped, Started
    <3> QED BY <3>1 DEF FreshInv
  <2> QED BY <2>4, <2>5
<1>3. ASSUME NEW t \in Threads, MaybeReseed(v, p, t) PROVE GenBounds' /\ FreshInv'
  <2>1. CASE ReadGen(v, p, t)
    <3>1. \A u \in Slots, q \in Procs, r \in Threads :
            g'[u][q][r] = IF u = v /\ q = p /\ r = t THEN forkgen[v] ELSE g[u][q][r]
      BY <1>0, <2>1, Read3 DEF ReadGen
    <3>2. \A u \in Slots, q \in Procs, r \in Threads :
            pc'[u][q][r] = IF u = v /\ q = p /\ r = t THEN "cmp" ELSE pc[u][q][r]
      BY <1>0, <2>1, GotoReads DEF ReadGen
    <3>3. pc[v][p][t] \in {"app", "sleep"} /\ UNCHANGED <<used, forkgen, hookgen, rng, base>>
      BY <2>1 DEF ReadGen
    <3>4. GenBounds'
      <4>1. ASSUME NEW u \in Slots, NEW q \in Procs PROVE GenBound(u, q)'
        BY <1>t, <1>gb, <3>1, <3>3 DEF GenBound
      <4> QED BY <4>1 DEF GenBounds
    <3>5. FreshInv'
      <4>1. ASSUME NEW u \in VMs, NEW q \in Procs PROVE Fresh(u, q)'
        <5>1. u \in Slots /\ Fresh(u, q)
          BY <1>0 DEF FreshInv
        <5> QED BY <1>t, <5>1, <3>1, <3>2, <3>3 DEF Fresh, Live, Bumped, Started
      <4> QED BY <4>1 DEF FreshInv
    <3> QED BY <3>4, <3>5
  <2>2. CASE Compare(v, p, t)
    <3>1. \A u \in Slots, q \in Procs, r \in Threads :
            pc'[u][q][r] = IF u = v /\ q = p /\ r = t
                           THEN IF g[v][p][t] # hookgen[v][p] THEN "reseed" ELSE Return(t)
                           ELSE pc[u][q][r]
      BY <1>0, <2>2, GotoReads DEF Compare
    <3>2. /\ pc[v][p][t] = "cmp"
          /\ UNCHANGED <<used, forkgen, hookgen, rng, g, base>>
      BY <2>2 DEF Compare, At, history
    <3>3. GenBounds'
      <4>1. ASSUME NEW u \in Slots, NEW q \in Procs PROVE GenBound(u, q)'
        BY <1>t, <1>gb, <3>2 DEF GenBound
      <4> QED BY <4>1 DEF GenBounds
    <3>4. FreshInv'
      <4>1. ASSUME NEW u \in VMs, NEW q \in Procs PROVE Fresh(u, q)'
        <5>1. u \in Slots /\ Fresh(u, q)
          BY <1>0 DEF FreshInv
        <5> QED BY <1>t, <5>1, <3>1, <3>2 DEF Fresh, Live, Bumped, Started, Return
      <4> QED BY <4>1 DEF FreshInv
    <3> QED BY <3>3, <3>4
  <2>3. CASE Reseed(v, p, t)
    <3>1. \A u \in Slots, q \in Procs :
            rng'[u][q] = IF u = v /\ q = p THEN v ELSE rng[u][q]
      BY <1>0, <2>3, Read2 DEF Reseed
    <3>2. \A u \in Slots, q \in Procs, r \in Threads :
            (u = v /\ q = p) \/ pc'[u][q][r] = pc[u][q][r]
      BY <1>0, <2>3, GotoReads DEF Reseed
    <3>3. UNCHANGED <<used, forkgen, hookgen, g, base>>
      BY <2>3 DEF Reseed, history
    <3>4. GenBounds'
      <4>1. ASSUME NEW u \in Slots, NEW q \in Procs PROVE GenBound(u, q)'
        BY <1>t, <1>gb, <3>3 DEF GenBound
      <4> QED BY <4>1 DEF GenBounds
    <3>5. FreshInv'
      <4>1. ASSUME NEW u \in VMs, NEW q \in Procs PROVE Fresh(u, q)'
        <5>1. u \in Slots /\ Fresh(u, q)
          BY <1>0 DEF FreshInv
        <5> QED BY <1>t, <5>1, <3>1, <3>2, <3>3 DEF Fresh, Live, Bumped, Started
      <4> QED BY <4>1 DEF FreshInv
    <3> QED BY <3>4, <3>5
  <2>4. CASE SetGen(v, p, t)
    <3>1. \A u \in Slots, q \in Procs :
            hookgen'[u][q] = IF u = v /\ q = p THEN g[v][p][t] ELSE hookgen[u][q]
      BY <1>0, <2>4, Read2 DEF SetGen
    <3>2. \A u \in Slots, q \in Procs, r \in Threads :
            pc'[u][q][r] = IF u = v /\ q = p /\ r = t THEN Return(t) ELSE pc[u][q][r]
      BY <1>0, <2>4, GotoReads DEF SetGen
    <3>3. pc[v][p][t] = "set" /\ UNCHANGED <<used, forkgen, rng, g, base>>
      BY <2>4 DEF SetGen, At, history
    <3>4. GenBounds'
      <4>1. ASSUME NEW u \in Slots, NEW q \in Procs PROVE GenBound(u, q)'
        BY <1>t, <1>gb, <3>1, <3>3 DEF GenBound
      <4> QED BY <4>1 DEF GenBounds
    <3>5. FreshInv'
      <4>1. ASSUME NEW u \in VMs, NEW q \in Procs PROVE Fresh(u, q)'
        <5>1. u \in Slots /\ Fresh(u, q)
          BY <1>0 DEF FreshInv
        <5> QED BY <1>t, <5>1, <3>1, <3>2, <3>3 DEF Fresh, Live, Bumped, Started, Return
      <4> QED BY <4>1 DEF FreshInv
    <3> QED BY <3>4, <3>5
  <2> QED BY <1>3, <2>1, <2>2, <2>3, <2>4 DEF MaybeReseed
<1>4. CASE Draw(v, p)
  <2>1. \A u \in Slots, q \in Procs, r \in Threads :
          pc'[u][q][r] = IF u = v /\ q = p /\ r = "caller" THEN "app" ELSE pc[u][q][r]
    BY <1>0, <1>4, GotoReads DEF Draw
  <2>2. /\ pc[v][p]["caller"] = "call"
        /\ UNCHANGED <<used, forkgen, hookgen, rng, g, base>>
    BY <1>4 DEF Draw, At, history
  <2>3. GenBounds'
    <3>1. ASSUME NEW u \in Slots, NEW q \in Procs PROVE GenBound(u, q)'
      BY <1>t, <1>gb, <2>2 DEF GenBound
    <3> QED BY <3>1 DEF GenBounds
  <2>4. FreshInv'
    <3>1. ASSUME NEW u \in VMs, NEW q \in Procs PROVE Fresh(u, q)'
      <4>1. u \in Slots /\ Fresh(u, q)
        BY <1>0 DEF FreshInv
      <4> QED BY <1>t, <4>1, <2>1, <2>2 DEF Fresh, Live, Bumped, Started
    <3> QED BY <3>1 DEF FreshInv
  <2> QED BY <2>3, <2>4
<1> QED BY <1>1, <1>2, <1>3, <1>4 DEF Hook

LEMMA FrameSafe ==
  ASSUME SafeInv, UNCHANGED <<used, forkgen, hookgen, rng, pc, g, base>>
  PROVE  GenBounds' /\ FreshInv'
  BY DEF SafeInv, GenBounds, GenBound, FreshInv, Fresh, Live, Bumped, Started

LEMMA AgentSafe ==
  ASSUME SafeInv, NEW v \in VMs, Agent(v)
  PROVE  GenBounds' /\ FreshInv'
<1>1. CASE AgentBump(v)
  <2>1. /\ v \in Slots /\ VMs \subseteq Slots /\ "caller" \in Threads
        /\ \A x \in Slots : forkgen[x] \in Nat
        /\ \A x \in Slots, q \in Procs : GenBound(x, q) /\ hookgen[x][q] \in Nat
        /\ \A x \in Slots, q \in Procs, r \in Threads : g[x][q][r] \in Nat
    BY VMsAreSlots, PCs DEF SafeInv, TypeOK, GenBounds
  <2>2. \A x \in Slots : forkgen'[x] = IF x = v THEN forkgen[v] + 1 ELSE forkgen[x]
    BY <1>1 DEF AgentBump, SafeInv, TypeOK
  <2>3. UNCHANGED <<used, hookgen, rng, pc, g, base>>
    BY <1>1 DEF AgentBump, history
  <2>4. ASSUME NEW u \in Slots, NEW q \in Procs PROVE GenBound(u, q)'
    BY <2>1, <2>2, <2>3 DEF GenBound
  <2>5. ASSUME NEW u \in VMs, NEW q \in Procs PROVE Fresh(u, q)'
    <3>1. CASE u = v
      <4>1. hookgen'[v][q] # forkgen'[v] /\ \A r \in Threads : g'[v][q][r] # forkgen'[v]
        BY <2>1, <2>2, <2>3 DEF GenBound
      <4> QED BY <2>1, <3>1, <4>1 DEF Fresh
    <3>2. CASE u # v
      <4>1. u \in Slots /\ Fresh(u, q)
        BY <2>1 DEF SafeInv, FreshInv
      <4> QED BY <2>2, <2>3, <3>2, <4>1 DEF Fresh, Live, Bumped, Started
    <3> QED BY <3>1, <3>2
  <2> QED BY <2>4, <2>5 DEF GenBounds, FreshInv
<1>2. CASE ~AgentBump(v)
  <2>1. UNCHANGED <<used, forkgen, hookgen, rng, pc, g, base>>
    BY <1>2 DEF Agent, AgentQuiesce, AgentBranch, AgentBranchError, AgentBumpError,
                AgentCont, guestVars, history
  <2> QED BY <2>1, FrameSafe
<1> QED BY <1>1, <1>2

(* What a copy of guest x leaves in every slot. *)
LEMMA CopyReads ==
  ASSUME TypeOK, NEW x \in Slots, NEW y \in Slots, CopyGuest(x, y)
  PROVE  \A z \in Slots :
           LET w == IF z = y THEN x ELSE z
           IN  /\ forkgen'[z] = forkgen[w] /\ hookgen'[z] = hookgen[w]
               /\ rng'[z] = rng[w] /\ pc'[z] = pc[w] /\ g'[z] = g[w]
               /\ agent'[z] = agent[w] /\ client'[z] = client[w]
               /\ branch'[z] = branch[w] /\ stopped'[z] = stopped[w]
  BY DEF TypeOK, CopyGuest

LEMMA CopyBounds ==
  ASSUME TypeOK, GenBounds, NEW x \in Slots, NEW y \in Slots, CopyGuest(x, y)
  PROVE  GenBounds'
<1>1. ASSUME NEW u \in Slots, NEW q \in Procs PROVE GenBound(u, q)'
  <2>1. GenBound(IF u = y THEN x ELSE u, q)
    BY DEF GenBounds
  <2> QED BY <2>1, CopyReads DEF GenBound
<1> QED BY <1>1 DEF GenBounds

LEMMA EngineSafe ==
  ASSUME SafeInv, NEW v \in VMs, Engine(v)
  PROVE  GenBounds' /\ FreshInv'
<1>0. /\ v \in Slots /\ VMs \subseteq Slots /\ Snaps \subseteq Slots
      /\ TypeOK /\ GenBounds /\ FreshInv /\ VMs \cap Snaps = {}
      /\ \A x \in Slots : forkgen[x] \in Nat
  BY VMsAreSlots, ForkAssumption DEF SafeInv, TypeOK
<1>1. ASSUME NEW s \in Snaps, Restore(s, v) PROVE GenBounds' /\ FreshInv'
  <2>1. GenBounds'
    BY <1>0, <1>1, CopyBounds DEF Restore
  <2>2. v # Genesis /\ v \notin used
    BY <1>1 DEF Restore, SafeInv
  <2>3. /\ \A u \in VMs : u # v => base'[u] = base[u]
        /\ base'[v] = forkgen[s]
        /\ used' = used \cup {v}
    BY <1>1 DEF Restore, CopyGuest, SafeInv, TypeOK
  <2>4. ASSUME NEW u \in VMs, NEW q \in Procs PROVE Fresh(u, q)'
    <3>1. CASE u = v
      <4>1. forkgen'[v] = forkgen[s] /\ forkgen[s] \in Nat
        BY <1>0, <1>1, CopyReads DEF Restore
      <4>2. ~Bumped(v)'
        BY <2>2, <2>3, <4>1 DEF Bumped
      <4> QED BY <3>1, <4>2 DEF Fresh
    <3>2. CASE u # v
      <4>1. u \in Slots /\ Fresh(u, q)
        BY <1>0 DEF FreshInv
      <4>2. /\ forkgen'[u] = forkgen[u] /\ hookgen'[u] = hookgen[u]
            /\ rng'[u] = rng[u] /\ pc'[u] = pc[u] /\ g'[u] = g[u]
        BY <1>0, <1>1, <3>2, <4>1, CopyReads DEF Restore
      <4> QED BY <2>3, <3>2, <4>1, <4>2 DEF Fresh, Live, Bumped, Started
    <3> QED BY <3>1, <3>2
  <2> QED BY <2>1, <2>4 DEF FreshInv
<1>2. CASE Snapshot(v)
  <2>1. sid[v] \in Snaps /\ CopyGuest(v, sid[v]) /\ base' = base
    BY <1>2 DEF Snapshot, SafeInv, SidOK, history
  <2>2. GenBounds'
    BY <1>0, <2>1, CopyBounds
  <2>3. ASSUME NEW u \in VMs, NEW q \in Procs PROVE Fresh(u, q)'
    <3>1. u \in Slots /\ Fresh(u, q) /\ u # sid[v]
      BY <1>0, <2>1 DEF FreshInv
    <3>2. /\ forkgen'[u] = forkgen[u] /\ hookgen'[u] = hookgen[u]
          /\ rng'[u] = rng[u] /\ pc'[u] = pc[u] /\ g'[u] = g[u]
      BY <1>0, <2>1, <3>1, CopyReads
    <3>3. used' = used \cup {sid[v]}
      BY <2>1 DEF CopyGuest
    <3> QED BY <2>1, <3>1, <3>2, <3>3 DEF Fresh, Live, Bumped, Started
  <2> QED BY <2>2, <2>3 DEF FreshInv
<1>3. CASE UNCHANGED <<used, forkgen, hookgen, rng, pc, g, base>>
  BY <1>3, FrameSafe
<1>4. \/ \E s \in Snaps : Restore(s, v)
      \/ Snapshot(v)
      \/ UNCHANGED <<used, forkgen, hookgen, rng, pc, g, base>>
  BY DEF Engine, Quiesce, QuiesceUnreachable, StartSnapshot, SendForked,
         ForkedAnswered, ForkedFails, Record, guestVars, history
<1> QED BY <1>1, <1>2, <1>3, <1>4

LEMMA SidStep == ASSUME TypeOK, SidOK, [Next]_vars PROVE SidOK'
<1>1. CASE UNCHANGED <<host, sid>>
  BY <1>1 DEF SidOK
<1>2. ASSUME NEW v \in VMs, Engine(v) PROVE SidOK'
  BY <1>2 DEF SidOK, TypeOK, Engine, Quiesce, QuiesceUnreachable, StartSnapshot,
              Restore, Snapshot, SendForked, ForkedAnswered, ForkedFails, Record
<1>3. ASSUME NEW v \in VMs, NEW p \in Procs, Hook(v, p) PROVE UNCHANGED <<host, sid>>
  BY <1>3 DEF Hook, HookBaseline, HookImport, MaybeReseed, ReadGen, Compare, Reseed,
              SetGen, Draw, hostVars
<1>4. ASSUME NEW v \in VMs, Agent(v) PROVE UNCHANGED <<host, sid>>
  BY <1>4 DEF Agent, AgentQuiesce, AgentBranch, AgentBranchError, AgentBump,
              AgentBumpError, AgentCont, hostVars
<1> QED BY <1>1, <1>2, <1>3, <1>4 DEF Next, vars, hostVars

LEMMA UsedGrows == ASSUME [Next]_vars PROVE used \subseteq used'
  BY DEF Next, vars, Hook, HookBaseline, HookImport, MaybeReseed, ReadGen, Compare,
         Reseed, SetGen, Draw, Agent, AgentQuiesce, AgentBranch, AgentBranchError,
         AgentBump, AgentBumpError, AgentCont, Engine, Quiesce, QuiesceUnreachable, StartSnapshot,
         Restore, Snapshot, SendForked, ForkedAnswered, ForkedFails, Record, CopyGuest

LEMMA SafeStep == SafeInv /\ [Next]_vars => SafeInv'
<1> SUFFICES ASSUME SafeInv, [Next]_vars PROVE SafeInv'
  OBVIOUS
<1>1. SidOK' /\ (Genesis \in used)'
  BY SidStep, UsedGrows DEF SafeInv
<1>2. CASE UNCHANGED vars
  <2>1. TypeOK'
    BY <1>2 DEF SafeInv, TypeOK, vars, guestVars, hostVars, history
  <2>2. GenBounds' /\ FreshInv'
    BY <1>2, FrameSafe DEF vars, guestVars, history
  <2> QED BY <1>1, <2>1, <2>2 DEF SafeInv
<1>3. ASSUME NEW v \in VMs, NEW p \in Procs, Hook(v, p) PROVE SafeInv'
  BY <1>1, <1>3, HookTyped, HookSafe DEF SafeInv
<1>4. ASSUME NEW v \in VMs, Agent(v) PROVE SafeInv'
  BY <1>1, <1>4, AgentTyped, AgentSafe DEF SafeInv
<1>5. ASSUME NEW v \in VMs, Engine(v) PROVE SafeInv'
  BY <1>1, <1>5, EngineTyped, EngineSafe DEF SafeInv
<1> QED BY <1>2, <1>3, <1>4, <1>5 DEF Next

LEMMA InitSafe == Init => SafeInv
<1> SUFFICES ASSUME Init PROVE SafeInv
  OBVIOUS
<1>1. SidOK /\ Genesis \in used
  BY DEF Init, SidOK
<1>2. GenBounds
  BY DEF Init, GenBounds, GenBound
<1>3. FreshInv
  BY ForkAssumption, VMsAreSlots, PCs DEF Init, FreshInv, Fresh, Live, Started
<1> QED BY <1>1, <1>2, <1>3, InitTypeOK DEF SafeInv

LEMMA SafeInvariant == Spec => []SafeInv
  BY InitSafe, SafeStep, PTL DEF Spec

(* Every variable keeps its type, in every instance. *)
THEOREM TypeCorrect == Spec => []TypeOK
  BY SafeInvariant, PTL DEF SafeInv

(***************************************************************************)
(* A wrapped call that read the bumped generation returns a value of a     *)
(* stream seeded in its own VM.                                            *)
(***************************************************************************)
THEOREM CallsAreFresh == Spec => []FreshCalls
<1>1. SafeInv => FreshCalls
  BY DEF SafeInv, FreshInv, Fresh, FreshCalls, Started
<1> QED BY <1>1, SafeInvariant, PTL

-----------------------------------------------------------------------------
(***************************************************************************)
(* The inductive invariant behind the three promises about a forked VM.    *)
(* Its generation never falls below the one it was restored with; a VM     *)
(* restored from a quiesced guest holds the root process, with the agent   *)
(* not yet releasing it, until the bump; and the agent releases and        *)
(* answers for a connection of this VM only with the branch context        *)
(* written and the generation bumped.                                      *)
(***************************************************************************)
Held(v) ==
  /\ base[v] <= forkgen[v]
  /\ Live(v) /\ sealed[v] /\ ~Bumped(v) => Root \in stopped[v] /\ agent[v] # "cont"

Diverged(v) ==
  /\ client[v] = v /\ agent[v] # "accept" => branch[v] = v
  /\ client[v] = v /\ agent[v] = "cont" => Bumped(v)
  /\ answer[v] = "READY" \/ ready[v] = "READY" => Bumped(v) /\ branch[v] = v
  /\ v \notin used => answer[v] = "none" /\ ready[v] = "none"

(***************************************************************************)
(* The root process of a sealed VM: a generation newer than the restored   *)
(* one is recorded, or about to be, only with a stream of this VM, and a   *)
(* call that began here has read such a generation.                        *)
(***************************************************************************)
OwnStream(v) ==
  Live(v) /\ sealed[v] /\ Started(v, Root) =>
    /\ hookgen[v][Root] > base[v] => rng[v][Root] = v
    /\ \A t \in Threads :
         pc[v][Root][t] = "set" /\ g[v][Root][t] > base[v] => rng[v][Root] = v
    /\ mine[v][Root] /\ pc[v][Root]["caller"] \in {"cmp", "reseed", "set"}
         => g[v][Root]["caller"] > base[v]
    /\ mine[v][Root] /\ pc[v][Root]["caller"] = "call" => rng[v][Root] = v

(* A connection belongs to a VM that exists, so no restored VM inherits    *)
(* one that carries its own name.                                          *)
ClientsUsed == \A x \in Slots : client[x] \in used \cup {None}

ForkInv ==
  /\ ~sealed[Genesis]
  /\ ClientsUsed
  /\ \A v \in VMs : Held(v) /\ Diverged(v) /\ OwnStream(v)

LEMMA HookFork ==
  ASSUME SafeInv, ForkInv, NEW v \in VMs, NEW p \in Procs, Hook(v, p)
  PROVE  ForkInv'
<1>0. /\ TypeOK /\ Root \in Procs
      /\ v \in Slots /\ VMs \subseteq Slots
      /\ "caller" \in Threads /\ "poller" \in Threads
      /\ hookgen \in [Slots -> [Procs -> Nat]]
      /\ rng \in [Slots -> [Procs -> VMs \cup {None}]]
      /\ pc \in [Slots -> [Procs -> [Threads -> CallerPC \cup PollerPC]]]
      /\ g \in [Slots -> [Procs -> [Threads -> Nat]]]
      /\ mine \in [VMs -> [Procs -> BOOLEAN]]
  BY VMsAreSlots, PCs, ForkAssumption DEF TypeOK, SafeInv
<1>t. v \in Slots /\ VMs \subseteq Slots /\ "caller" \in Threads /\ Root \in Procs
  BY <1>0
<1>1. /\ UNCHANGED <<used, forkgen, agent, client, branch, stopped>>
      /\ UNCHANGED <<answer, ready, base, sealed>>
      /\ Runs(v, p)
  BY DEF Hook, HookBaseline, HookImport, MaybeReseed, ReadGen, Compare, Reseed,
         SetGen, Draw, hostVars, history
<1>2. /\ ~sealed'[Genesis] /\ ClientsUsed'
      /\ \A u \in VMs : Held(u)' /\ Diverged(u)'
  BY <1>1 DEF ForkInv, ClientsUsed, Held, Diverged, Live, Bumped
<1>own. \A u \in VMs : u \in Slots /\ OwnStream(u)
  BY <1>0 DEF ForkInv
<1>3. CASE HookBaseline(v, p)
  <2>1. \A u \in Slots, q \in Procs :
          hookgen'[u][q] = IF u = v /\ q = p THEN forkgen[v] ELSE hookgen[u][q]
    BY <1>0, <1>3, Read2 DEF HookBaseline
  <2>2. \A u \in Slots, q \in Procs, r \in Threads :
          pc'[u][q][r] = IF u = v /\ q = p /\ r = "caller" THEN "import"
                         ELSE pc[u][q][r]
    BY <1>0, <1>3, GotoReads DEF HookBaseline
  <2>3. UNCHANGED <<rng, g, mine>>
    BY <1>3 DEF HookBaseline, history
  <2>4. ASSUME NEW u \in VMs PROVE OwnStream(u)'
    BY <1>t, <1>1, <1>own, <2>1, <2>2, <2>3 DEF OwnStream, Live, Started
  <2> QED BY <1>2, <2>4 DEF ForkInv
<1>4. CASE HookImport(v, p)
  <2>1. \A u \in Slots, q \in Procs :
          rng'[u][q] = IF u = v /\ q = p THEN v ELSE rng[u][q]
    BY <1>0, <1>4, Read2 DEF HookImport
  <2>2. \A u \in Slots, q \in Procs, r \in Threads :
          pc'[u][q][r] = IF u = v /\ q = p
                         THEN IF r = "caller" THEN "app" ELSE "sleep"
                         ELSE pc[u][q][r]
    BY <1>0, <1>4 DEF HookImport
  <2>3. UNCHANGED <<hookgen, g, mine>>
    BY <1>4 DEF HookImport, history
  <2>4. ASSUME NEW u \in VMs PROVE OwnStream(u)'
    BY <1>t, <1>1, <1>own, <2>1, <2>2, <2>3 DEF OwnStream, Live, Started
  <2> QED BY <1>2, <2>4 DEF ForkInv
<1>5. ASSUME NEW t \in Threads, MaybeReseed(v, p, t) PROVE ForkInv'
  <2>1. CASE ReadGen(v, p, t)
    <3>1. \A u \in Slots, q \in Procs, r \in Threads :
            g'[u][q][r] = IF u = v /\ q = p /\ r = t THEN forkgen[v] ELSE g[u][q][r]
      BY <1>0, <2>1, Read3 DEF ReadGen
    <3>2. \A u \in Slots, q \in Procs, r \in Threads :
            pc'[u][q][r] = IF u = v /\ q = p /\ r = t THEN "cmp" ELSE pc[u][q][r]
      BY <1>0, <2>1, GotoReads DEF ReadGen
    <3>3. /\ pc[v][p][t] \in {"app", "sleep"}
          /\ UNCHANGED <<hookgen, rng>>
      BY <2>1 DEF ReadGen
    <3>4. \A u \in VMs, q \in Procs :
            \/ mine'[u][q] = mine[u][q]
            \/ u = v /\ q = p /\ t = "caller"
      <4>1. \A u \in VMs, q \in Procs :
              mine'[u][q] = IF u = v /\ q = p THEN mine[v][p] \/ t = "caller"
                            ELSE mine[u][q]
        BY <1>0, <2>1, Read2 DEF ReadGen
      <4>2. CASE t = "caller"
        BY <4>1, <4>2
      <4>3. CASE t # "caller"
        <5>1. (mine[v][p] \/ t = "caller") = mine[v][p]
          BY <1>0, <4>3
        <5> QED BY <4>1, <5>1
      <4> QED BY <4>2, <4>3
    <3>5. ASSUME sealed[v], p = Root PROVE forkgen[v] > base[v]
      BY <1>1, <3>5 DEF ForkInv, Held, Runs, Bumped
    <3>6. ASSUME NEW u \in VMs PROVE OwnStream(u)'
      BY <1>t, <1>1, <1>own, <3>1, <3>2, <3>3, <3>4, <3>5 DEF OwnStream, Live, Started
    <3> QED BY <1>2, <3>6 DEF ForkInv
  <2>2. CASE Compare(v, p, t)
    <3>1. \A u \in Slots, q \in Procs, r \in Threads :
            pc'[u][q][r] = IF u = v /\ q = p /\ r = t
                           THEN IF g[v][p][t] # hookgen[v][p] THEN "reseed" ELSE Return(t)
                           ELSE pc[u][q][r]
      BY <1>0, <2>2, GotoReads DEF Compare
    <3>2. pc[v][p][t] = "cmp" /\ UNCHANGED <<hookgen, rng, g, mine>>
      BY <2>2 DEF Compare, At, history
    <3>3. ASSUME NEW u \in VMs PROVE OwnStream(u)'
      BY <1>t, <1>1, <1>own, <3>1, <3>2 DEF OwnStream, Live, Started, Return
    <3> QED BY <1>2, <3>3 DEF ForkInv
  <2>3. CASE Reseed(v, p, t)
    <3>1. \A u \in Slots, q \in Procs :
            rng'[u][q] = IF u = v /\ q = p THEN v ELSE rng[u][q]
      BY <1>0, <2>3, Read2 DEF Reseed
    <3>2. \A u \in Slots, q \in Procs, r \in Threads :
            pc'[u][q][r] = IF u = v /\ q = p /\ r = t THEN "set" ELSE pc[u][q][r]
      BY <1>0, <2>3, GotoReads DEF Reseed
    <3>3. pc[v][p][t] = "reseed" /\ UNCHANGED <<hookgen, g, mine>>
      BY <2>3 DEF Reseed, At, history
    <3>4. ASSUME NEW u \in VMs PROVE OwnStream(u)'
      BY <1>t, <1>1, <1>own, <3>1, <3>2, <3>3 DEF OwnStream, Live, Started
    <3> QED BY <1>2, <3>4 DEF ForkInv
  <2>4. CASE SetGen(v, p, t)
    <3>1. \A u \in Slots, q \in Procs :
            hookgen'[u][q] = IF u = v /\ q = p THEN g[v][p][t] ELSE hookgen[u][q]
      BY <1>0, <2>4, Read2 DEF SetGen
    <3>2. \A u \in Slots, q \in Procs, r \in Threads :
            pc'[u][q][r] = IF u = v /\ q = p /\ r = t THEN Return(t) ELSE pc[u][q][r]
      BY <1>0, <2>4, GotoReads DEF SetGen
    <3>3. pc[v][p][t] = "set" /\ UNCHANGED <<rng, g, mine>>
      BY <2>4 DEF SetGen, At, history
    <3>4. ASSUME NEW u \in VMs PROVE OwnStream(u)'
      BY <1>t, <1>1, <1>own, <3>1, <3>2, <3>3 DEF OwnStream, Live, Started, Return
    <3> QED BY <1>2, <3>4 DEF ForkInv
  <2> QED BY <1>5, <2>1, <2>2, <2>3, <2>4 DEF MaybeReseed
<1>6. CASE Draw(v, p)
  <2>1. \A u \in Slots, q \in Procs, r \in Threads :
          pc'[u][q][r] = IF u = v /\ q = p /\ r = "caller" THEN "app" ELSE pc[u][q][r]
    BY <1>0, <1>6, GotoReads DEF Draw
  <2>2. /\ pc[v][p]["caller"] = "call"
        /\ UNCHANGED <<hookgen, rng, g, mine>>
    BY <1>6 DEF Draw, At, history
  <2>3. ASSUME NEW u \in VMs PROVE OwnStream(u)'
    BY <1>t, <1>1, <1>own, <2>1, <2>2 DEF OwnStream, Live, Started
  <2> QED BY <1>2, <2>3 DEF ForkInv
<1> QED BY <1>3, <1>4, <1>5, <1>6 DEF Hook

(* A step that touches neither the hook nor the histories. *)
LEMMA OwnStreamFrame ==
  ASSUME NEW v \in VMs, OwnStream(v),
         UNCHANGED <<hookgen, rng, pc, g, base, sealed, mine>>, v \in used' => v \in used
  PROVE  OwnStream(v)'
  BY DEF OwnStream, Live, Started

LEMMA AgentFork ==
  ASSUME SafeInv, ForkInv, NEW v \in VMs, Agent(v)
  PROVE  ForkInv'
<1>0. /\ TypeOK /\ v \in Slots /\ VMs \subseteq Slots /\ None \notin VMs
      /\ \A x \in Slots : forkgen[x] \in Nat
      /\ \A u \in VMs : base[u] \in Nat
  BY VMsAreSlots, ForkAssumption DEF TypeOK, SafeInv
<1>1. /\ UNCHANGED <<used, hookgen, rng, pc, g, ready, base, sealed, mine>>
      /\ v \in used
  BY DEF Agent, AgentQuiesce, AgentBranch, AgentBranchError, AgentBump, AgentBumpError,
         AgentCont, Live, guestVars, hostVars, history
<1>2. /\ ~sealed'[Genesis]
      /\ \A u \in VMs : OwnStream(u)'
  BY <1>1, OwnStreamFrame DEF ForkInv
<1>3. \A u \in VMs : Held(u) /\ Diverged(u) /\ u \in Slots
  BY <1>0 DEF ForkInv
<1>4. CASE AgentQuiesce(v)
  <2>1. /\ \A x \in Slots : stopped'[x] = IF x = v THEN {Root} ELSE stopped[x]
        /\ UNCHANGED <<forkgen, agent, client, branch, answer>>
    BY <1>0, <1>4 DEF AgentQuiesce, TypeOK, hostVars
  <2>2. ClientsUsed'
    BY <1>1, <2>1 DEF ForkInv, ClientsUsed
  <2>3. ASSUME NEW u \in VMs PROVE Held(u)' /\ Diverged(u)'
    BY <1>1, <1>3, <2>1 DEF Held, Diverged, Live, Bumped
  <2> QED BY <1>2, <2>2, <2>3 DEF ForkInv
<1>5. CASE AgentBranch(v)
  <2>1. /\ \A x \in Slots : branch'[x] = IF x = v THEN v ELSE branch[x]
        /\ \A x \in Slots : client'[x] = IF x = v THEN v ELSE client[x]
        /\ \A x \in Slots : agent'[x] = IF x = v THEN "bump" ELSE agent[x]
        /\ UNCHANGED <<forkgen, stopped, answer>>
    BY <1>0, <1>5 DEF AgentBranch, TypeOK, hostVars
  <2>2. ClientsUsed'
    BY <1>1, <2>1 DEF ForkInv, ClientsUsed
  <2>3. ASSUME NEW u \in VMs PROVE Held(u)' /\ Diverged(u)'
    BY <1>1, <1>3, <2>1 DEF Held, Diverged, Live, Bumped
  <2> QED BY <1>2, <2>2, <2>3 DEF ForkInv
<1>6. CASE AgentBranchError(v)
  <2>1. /\ \A u \in VMs : answer'[u] = IF u = v THEN "ERR" ELSE answer[u]
        /\ UNCHANGED <<forkgen, agent, client, branch, stopped>>
    BY <1>0, <1>6 DEF AgentBranchError, TypeOK, guestVars
  <2>2. ClientsUsed'
    BY <1>1, <2>1 DEF ForkInv, ClientsUsed
  <2>3. ASSUME NEW u \in VMs PROVE Held(u)' /\ Diverged(u)'
    BY <1>1, <1>3, <2>1 DEF Held, Diverged, Live, Bumped
  <2> QED BY <1>2, <2>2, <2>3 DEF ForkInv
<1>7. CASE AgentBump(v)
  <2>1. /\ \A x \in Slots : forkgen'[x] = IF x = v THEN forkgen[v] + 1 ELSE forkgen[x]
        /\ \A x \in Slots : agent'[x] = IF x = v THEN "cont" ELSE agent[x]
        /\ agent[v] = "bump"
        /\ UNCHANGED <<client, branch, stopped, answer>>
    BY <1>0, <1>7 DEF AgentBump, TypeOK, hostVars
  <2>2. ClientsUsed'
    BY <1>1, <2>1 DEF ForkInv, ClientsUsed
  <2>3. ASSUME NEW u \in VMs PROVE Held(u)' /\ Diverged(u)'
    BY <1>0, <1>1, <1>3, <2>1 DEF Held, Diverged, Live, Bumped
  <2> QED BY <1>2, <2>2, <2>3 DEF ForkInv
<1>8. CASE AgentCont(v)
  <2>1. /\ \A x \in Slots : stopped'[x] = IF x = v THEN {} ELSE stopped[x]
        /\ \A x \in Slots : agent'[x] = IF x = v THEN "accept" ELSE agent[x]
        /\ \A u \in VMs : answer'[u] = IF u = v /\ client[v] = v THEN "READY"
                                       ELSE answer[u]
        /\ agent[v] = "cont"
        /\ UNCHANGED <<forkgen, client, branch>>
    BY <1>0, <1>8 DEF AgentCont, TypeOK
  <2>2. ClientsUsed'
    BY <1>1, <2>1 DEF ForkInv, ClientsUsed
  <2>3. ASSUME NEW u \in VMs PROVE Held(u)' /\ Diverged(u)'
    BY <1>0, <1>1, <1>3, <2>1 DEF Held, Diverged, Live, Bumped
  <2> QED BY <1>2, <2>2, <2>3 DEF ForkInv
<1>9. CASE AgentBumpError(v)
  <2>1. /\ \A x \in Slots : agent'[x] = IF x = v THEN "accept" ELSE agent[x]
        /\ \A u \in VMs : answer'[u] = IF u = v /\ client[v] = v THEN "ERR" ELSE answer[u]
        /\ UNCHANGED <<forkgen, client, branch, stopped>>
    BY <1>0, <1>9 DEF AgentBumpError, TypeOK
  <2>2. ClientsUsed'
    BY <1>1, <2>1 DEF ForkInv, ClientsUsed
  <2>3. ASSUME NEW u \in VMs PROVE Held(u)' /\ Diverged(u)'
    BY <1>0, <1>1, <1>3, <2>1 DEF Held, Diverged, Live, Bumped
  <2> QED BY <1>2, <2>2, <2>3 DEF ForkInv
<1> QED BY <1>4, <1>5, <1>6, <1>7, <1>8, <1>9 DEF Agent

LEMMA EngineFork ==
  ASSUME SafeInv, ForkInv, NEW v \in VMs, Engine(v)
  PROVE  ForkInv'
<1>0. /\ TypeOK /\ v \in Slots /\ VMs \subseteq Slots /\ Snaps \subseteq Slots
      /\ None \notin VMs /\ VMs \cap Snaps = {} /\ Root \in Procs /\ Genesis \in used
      /\ "caller" \in Threads
      /\ \A x \in Slots : forkgen[x] \in Nat /\ GenBound(x, Root)
      /\ \A x \in Slots : hookgen[x][Root] \in Nat
      /\ \A x \in Slots, t \in Threads : g[x][Root][t] \in Nat
      /\ \A u \in VMs : Held(u) /\ Diverged(u) /\ OwnStream(u) /\ u \in Slots
      /\ ClientsUsed /\ ~sealed[Genesis]
  BY VMsAreSlots, PCs, ForkAssumption DEF TypeOK, SafeInv, GenBounds, ForkInv
<1>1. ASSUME NEW s \in Snaps, Restore(s, v) PROVE ForkInv'
  <2>1. /\ v \notin used /\ v # Genesis /\ CopyGuest(s, v) /\ used' = used \cup {v}
        /\ answer' = answer /\ ready' = ready
    BY <1>0, <1>1 DEF Restore, CopyGuest
  <2>2. /\ \A u \in VMs : base'[u] = IF u = v THEN forkgen[s] ELSE base[u]
        /\ \A u \in VMs : u # v => mine'[u] = mine[u] /\ sealed'[u] = sealed[u]
        /\ mine'[v][Root] = FALSE
        /\ sealed'[v] => Root \in stopped[s] /\ agent[s] = "accept"
    BY <1>0, <1>1 DEF Restore, TypeOK
  <2>3. client[s] # v
    BY <1>0, <2>1 DEF ClientsUsed
  <2>4. ClientsUsed'
    BY <1>0, <2>1, CopyReads DEF ClientsUsed
  <2>5. ~sealed'[Genesis]
    BY <1>0, <2>1, <2>2, ForkAssumption
  <2>6. /\ forkgen'[v] = forkgen[s] /\ hookgen'[v] = hookgen[s] /\ g'[v] = g[s]
        /\ agent'[v] = agent[s] /\ client'[v] = client[s] /\ stopped'[v] = stopped[s]
    BY <1>0, <2>1, CopyReads
  <2>7. Held(v)' /\ Diverged(v)'
    BY <1>0, <2>1, <2>2, <2>3, <2>6 DEF Held, Diverged
  <2>8. OwnStream(v)'
    <3>1. /\ ~(hookgen'[v][Root] > base'[v])
          /\ \A t \in Threads : ~(g'[v][Root][t] > base'[v])
      BY <1>0, <2>2, <2>6 DEF GenBound
    <3> QED BY <2>2, <3>1 DEF OwnStream
  <2>9. ASSUME NEW u \in VMs, u # v PROVE Held(u)' /\ Diverged(u)' /\ OwnStream(u)'
    <3>1. /\ forkgen'[u] = forkgen[u] /\ hookgen'[u] = hookgen[u]
          /\ rng'[u] = rng[u] /\ pc'[u] = pc[u] /\ g'[u] = g[u]
          /\ agent'[u] = agent[u] /\ client'[u] = client[u]
          /\ branch'[u] = branch[u] /\ stopped'[u] = stopped[u]
      BY <1>0, <2>1, <2>9, CopyReads
    <3>2. Held(u)' /\ Diverged(u)'
      BY <1>0, <2>1, <2>2, <2>9, <3>1 DEF Held, Diverged, Live, Bumped
    <3>3. OwnStream(u)'
      BY <1>0, <2>1, <2>2, <2>9, <3>1 DEF OwnStream, Live, Started
    <3> QED BY <3>2, <3>3
  <2> QED BY <2>4, <2>5, <2>7, <2>8, <2>9 DEF ForkInv
<1>2. CASE Snapshot(v)
  <2>1. /\ sid[v] \in Snaps /\ CopyGuest(v, sid[v]) /\ used' = used \cup {sid[v]}
        /\ UNCHANGED <<answer, ready, base, sealed, mine>>
    BY <1>2 DEF Snapshot, SafeInv, SidOK, CopyGuest, history
  <2>2. ClientsUsed'
    BY <1>0, <2>1, CopyReads DEF ClientsUsed
  <2>3. ASSUME NEW u \in VMs PROVE Held(u)' /\ Diverged(u)' /\ OwnStream(u)'
    <3>1. u # sid[v]
      BY <1>0, <2>1
    <3>2. /\ forkgen'[u] = forkgen[u] /\ hookgen'[u] = hookgen[u]
          /\ rng'[u] = rng[u] /\ pc'[u] = pc[u] /\ g'[u] = g[u]
          /\ agent'[u] = agent[u] /\ client'[u] = client[u]
          /\ branch'[u] = branch[u] /\ stopped'[u] = stopped[u]
      BY <1>0, <2>1, <3>1, CopyReads
    <3>3. Held(u)' /\ Diverged(u)'
      BY <1>0, <2>1, <3>1, <3>2 DEF Held, Diverged, Live, Bumped
    <3>4. OwnStream(u)'
      BY <1>0, <2>1, <3>1, <3>2 DEF OwnStream, Live, Started
    <3> QED BY <3>3, <3>4
  <2> QED BY <1>0, <2>1, <2>2, <2>3 DEF ForkInv
<1>3. ASSUME \/ \E s \in Snaps : Quiesce(v, s) \/ QuiesceUnreachable(v, s)
             \/ SendForked(v) \/ ForkedAnswered(v) \/ ForkedFails(v)
      PROVE  ForkInv'
  <2>1. /\ UNCHANGED <<used, forkgen, agent, client, branch, stopped, answer>>
        /\ UNCHANGED <<hookgen, rng, pc, g, base, sealed, mine>>
    BY <1>3 DEF Quiesce, QuiesceUnreachable, StartSnapshot, SendForked,
                ForkedAnswered, ForkedFails, Record, guestVars, history
  <2>2. \/ ready' = ready
        \/ Live(v) /\ \A u \in VMs : ready'[u] = IF u = v THEN "ERR" ELSE ready[u]
        \/ Live(v) /\ \A u \in VMs : ready'[u] = IF u = v THEN answer[v] ELSE ready[u]
    BY <1>0, <1>3 DEF Quiesce, QuiesceUnreachable, StartSnapshot, SendForked,
                      ForkedAnswered, ForkedFails, Record, TypeOK
  <2>3. ASSUME NEW u \in VMs PROVE Held(u)' /\ Diverged(u)' /\ OwnStream(u)'
    <3>1. Held(u)' /\ Diverged(u)'
      BY <1>0, <2>1, <2>2 DEF Held, Diverged, Live, Bumped
    <3> QED BY <1>0, <2>1, <3>1, OwnStreamFrame
  <2> QED BY <1>0, <2>1, <2>3 DEF ForkInv, ClientsUsed
<1> QED BY <1>1, <1>2, <1>3 DEF Engine

LEMMA ForkStep == SafeInv /\ ForkInv /\ [Next]_vars => ForkInv'
<1> SUFFICES ASSUME SafeInv, ForkInv, [Next]_vars PROVE ForkInv'
  OBVIOUS
<1>1. CASE UNCHANGED vars
  BY <1>1 DEF ForkInv, ClientsUsed, Held, Diverged, OwnStream, Live, Bumped, Started,
              vars, guestVars, hostVars, history
<1>2. ASSUME NEW v \in VMs, NEW p \in Procs, Hook(v, p) PROVE ForkInv'
  BY <1>2, HookFork
<1>3. ASSUME NEW v \in VMs, Agent(v) PROVE ForkInv'
  BY <1>3, AgentFork
<1>4. ASSUME NEW v \in VMs, Engine(v) PROVE ForkInv'
  BY <1>4, EngineFork
<1> QED BY <1>1, <1>2, <1>3, <1>4 DEF Next

LEMMA InitFork == Init => ForkInv
  BY ForkAssumption, VMsAreSlots, PCs DEF Init, ForkInv, ClientsUsed, Held, Diverged,
     OwnStream, Live, Bumped, Started

LEMMA ForkInvariant == Spec => [](SafeInv /\ ForkInv)
  BY InitFork, ForkStep, SafeInvariant, PTL DEF Spec

(***************************************************************************)
(* A VM restored from a quiesced guest keeps the root process under        *)
(* SIGSTOP until its own generation is bumped, however many requests fail, *)
(* come late, or are served twice.                                         *)
(***************************************************************************)
THEOREM RootIsHeld == Spec => []HeldUntilBumped
<1>1. ForkInv => HeldUntilBumped
  BY DEF ForkInv, Held, HeldUntilBumped
<1> QED BY <1>1, ForkInvariant, PTL

(***************************************************************************)
(* In such a VM every call of a wrapped function that begins there returns *)
(* a value of a stream seeded there, at whatever program point the threads *)
(* of the process were copied: only the call in flight may be stale.       *)
(***************************************************************************)
THEOREM StaleOnlyInFlight == Spec => []OnlyInFlightCallIsStale
<1>1. ForkInv => OnlyInFlightCallIsStale
  BY DEF ForkInv, OwnStream, OnlyInFlightCallIsStale, Started
<1> QED BY <1>1, ForkInvariant, PTL

(***************************************************************************)
(* READY in a child's row means that the child's generation is bumped and  *)
(* its branch context is its own: an agent copied in the middle of FORKED  *)
(* cannot answer for the copy.                                             *)
(***************************************************************************)
THEOREM ReadyIsDiverged == Spec => []ReadyMeansDiverged
<1>1. ForkInv => ReadyMeansDiverged
  BY DEF ForkInv, Diverged, ReadyMeansDiverged
<1> QED BY <1>1, ForkInvariant, PTL
=============================================================================
