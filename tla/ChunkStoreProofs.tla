-------------------------- MODULE ChunkStoreProofs --------------------------
(***************************************************************************)
(* Proofs about ChunkStore: for every set of chunks, images, snapshots and *)
(* handler threads, with and without a cold tier, with and without faults. *)
(* And about Chunking: for every file, buffer, block and chunk size, mask  *)
(* and gear table, in both modes.                                          *)
(***************************************************************************)
EXTENDS ChunkStore, Chunking, SequenceTheorems, FiniteSetTheorems, TLAPS

(***************************************************************************)
(* Where a thread is, and what it then knows.                              *)
(***************************************************************************)
StoreOps == {"lock", "put", "write", "upload", "manifest", "row"}
ForkOps == {"open", "get", "fetched", "warm", "load"}
Rebuild == {"get", "fetched", "warm"}
Locked == {"put", "write", "upload"}

Control(t) ==
  /\ th[t].op # "idle" => th[t].sid \in Snaps
  /\ th[t].op \in StoreOps => image[th[t].sid] \in Images
  /\ th[t].op \in ForkOps => th[t].sid \in rows
  /\ th[t].op = "row" => manifest[th[t].sid] = image[th[t].sid]
  /\ th[t].op = "write" => th[t].pos <= Blocks(t)
  /\ th[t].op \in {"fetched", "warm"} => th[t].pos <= Len(manifest[th[t].sid])
  /\ IF th[t].op \in Rebuild THEN th[t].fd \in Inodes ELSE th[t].fd = None
  /\ storeLock = t <=> th[t].op \in Locked

(* A manifest lists the captured image; a row has a manifest. *)
Recorded(s) ==
  /\ manifest[s] \in {<<>>, image[s]}
  /\ s \in rows => manifest[s] \in Images

ControlInv == TypeOK /\ (\A t \in Threads : Control(t)) /\ (\A s \in Snaps : Recorded(s))

(***************************************************************************)
(* A chunk is kept: in the bucket, or else given up, its write raised or   *)
(* its upload cancelled; without a cold tier, its file exists.  A chunk of *)
(* the index that is not kept is in the hands of the thread that holds     *)
(* _store_lock.                                                            *)
(***************************************************************************)
Kept(h) == IF ColdTier THEN h \in cold \cup lost ELSE hot[h] # "none"

Hand(t, h) == (At(t, "upload") /\ h \in th[t].up) \/ (At(t, "write") /\ Block(t) = h)

InHand(h) == h \in pending \/ \E t \in Threads : Hand(t, h)

(* What a thread has put is in the index; what it publishes is kept. *)
PutSoFar(t) ==
  /\ At(t, "lock") => th[t].pos = 1
  /\ th[t].op \in Locked =>
       \A p \in 1..Blocks(t) : p < th[t].pos => image[th[t].sid][p] \in index
  /\ At(t, "write") => Block(t) \in index
  /\ At(t, "upload") => pending = {} /\ th[t].pos > Blocks(t)
  /\ At(t, "manifest") => \A p \in 1..Blocks(t) : Kept(image[th[t].sid][p])

KeptInv ==
  /\ \A h \in index : Kept(h) \/ (ColdTier /\ InHand(h))
  /\ \A t \in Threads : PutSoFar(t)
  /\ \A s \in Snaps : \A p \in 1..Len(manifest[s]) : Kept(manifest[s][p])

(* An empty file of the hot cache is torn, or some thread will write it. *)
Writing(t, h) == (At(t, "write") /\ Block(t) = h) \/ (At(t, "warm") /\ Wanted(t) = h)

HotInv ==
  \A h \in Chunks : hot[h] = "empty" => h \in torn \/ \E t \in Threads : Writing(t, h)

(***************************************************************************)
(* Every inode belongs to one snapshot, by a name or by the descriptor of  *)
(* a thread, and holds blocks of that one only.                            *)
(***************************************************************************)
Belongs(n, s) ==
  n \in {mem[s], tmp[s]} \/ \E t \in Threads : th[t].fd = n /\ th[t].sid = s

InodeInv ==
  /\ \A s \in Snaps : mem[s] # None \/ tmp[s] # None => s \in rows
  /\ \A s \in Snaps : tmp[s] # None => tmp[s] # mem[s]
  /\ \A n \in Inodes, r, s \in Snaps : Belongs(n, r) /\ Belongs(n, s) => r = s
  /\ \A n \in Inodes, s \in Snaps : Belongs(n, s) =>
       \A p \in 1..Len(image[s]) : data[n][p] \in {None, image[s][p]}

(***************************************************************************)
(* A snapshot that no two threads have reconstructed at once: the one that *)
(* does so writes the file named mem.tmp, from the first block on.         *)
(***************************************************************************)
Alone(s) ==
  /\ mem[s] # None => Whole(s)
  /\ \A t \in Threads : th[t].op \in Rebuild /\ th[t].sid = s =>
       /\ th[t].fd = tmp[s]
       /\ \A p \in 1..Len(image[s]) : p < th[t].pos => data[th[t].fd][p] = image[s][p]
       /\ \A x \in Threads : th[x].op \in Rebuild /\ th[x].sid = s => x = t

LoneInv ==
  /\ \A t \in Threads : /\ At(t, "open") => th[t].pos = 1
                        /\ At(t, "load") => mem[th[t].sid] # None
  /\ \A s \in Snaps \ shared : Alone(s)

-----------------------------------------------------------------------------
(* What the updates of a thread's record leave in it. *)
LEMMA GotoReads ==
  ASSUME TypeOK, NEW t \in Threads, NEW l \in Ops, Goto(t, l)
  PROVE  /\ th' \in [Threads -> Thread]
         /\ \A x \in Threads : x # t => th'[x] = th[x]
         /\ th'[t].op = l /\ th'[t].sid = th[t].sid /\ th'[t].pos = th[t].pos
         /\ th'[t].up = th[t].up /\ th'[t].fd = th[t].fd
  BY DEF TypeOK, Goto, Thread

LEMMA AdvanceReads ==
  ASSUME TypeOK, NEW t \in Threads, NEW l \in Ops, th[t].pos <= MaxBlocks, Advance(t, l)
  PROVE  /\ th' \in [Threads -> Thread]
         /\ \A x \in Threads : x # t => th'[x] = th[x]
         /\ th'[t].op = l /\ th'[t].sid = th[t].sid /\ th'[t].pos = th[t].pos + 1
         /\ th'[t].up = th[t].up /\ th'[t].fd = th[t].fd
<1>1. MaxBlocks \in Nat /\ th[t].pos + 1 \in 1..(MaxBlocks + 1)
  BY StoreAssumption DEF TypeOK, Thread
<1> QED BY <1>1 DEF TypeOK, Advance, Thread

LEMMA IdleTyped == Idle \in Thread
  BY StoreAssumption DEF Idle, Thread, Ops

LEMMA FinishReads ==
  ASSUME TypeOK, NEW t \in Threads, Finish(t)
  PROVE  /\ th' \in [Threads -> Thread]
         /\ \A x \in Threads : x # t => th'[x] = th[x]
         /\ th'[t] = Idle
  BY IdleTyped DEF TypeOK, Finish

(* An image, and a manifest of one, is a sequence of chunks that fits. *)
LEMMA ImageFacts ==
  ASSUME NEW im \in Images
  PROVE  /\ im # <<>>
         /\ Len(im) \in 1..MaxBlocks
         /\ MaxBlocks \in Nat
         /\ \A p \in 1..Len(im) : im[p] \in Chunks
  BY StoreAssumption

LEMMA BlockTyped ==
  ASSUME ControlInv, NEW t \in Threads,
         At(t, "write") \/ (At(t, "put") /\ th[t].pos <= Blocks(t))
  PROVE  /\ th[t].sid \in Snaps /\ image[th[t].sid] \in Images
         /\ th[t].pos \in 1..Blocks(t) /\ th[t].pos <= MaxBlocks
         /\ Block(t) \in Chunks
<1>1. /\ th[t].sid \in Snaps /\ image[th[t].sid] \in Images
      /\ th[t].pos <= Blocks(t) /\ th[t].pos \in Nat \ {0}
  BY DEF ControlInv, Control, At, StoreOps, TypeOK, Thread
<1> QED BY <1>1, ImageFacts DEF Block, Blocks

LEMMA WantedTyped ==
  ASSUME ControlInv, NEW t \in Threads, Getting(t) \/ th[t].op \in {"fetched", "warm"}
  PROVE  /\ th[t].sid \in rows /\ th[t].sid \in Snaps
         /\ manifest[th[t].sid] = image[th[t].sid] /\ image[th[t].sid] \in Images
         /\ th[t].pos \in 1..Len(image[th[t].sid]) /\ th[t].pos <= MaxBlocks
         /\ Wanted(t) = image[th[t].sid][th[t].pos] /\ Wanted(t) \in Chunks
         /\ th[t].fd \in Inodes
<1>1. /\ th[t].sid \in rows /\ th[t].sid \in Snaps
      /\ th[t].pos <= Len(manifest[th[t].sid]) /\ th[t].pos \in Nat \ {0}
      /\ th[t].fd \in Inodes
  BY DEF ControlInv, Control, Getting, At, ForkOps, Rebuild, TypeOK, Thread
<1>2. manifest[th[t].sid] \in Images /\ manifest[th[t].sid] = image[th[t].sid]
  BY <1>1, ImageFacts DEF ControlInv, Recorded
<1> QED BY <1>1, <1>2, ImageFacts DEF Wanted

-----------------------------------------------------------------------------
(* Control. *)

(* Captured images, manifests and rows are never taken back. *)
Grow ==
  /\ \A s \in Snaps : image[s] \in Images => image'[s] = image[s]
  /\ \A s \in Snaps : manifest[s] \in Images => manifest'[s] = manifest[s]
  /\ rows \subseteq rows'

LEMMA MoveControl ==
  ASSUME ControlInv, NEW t \in Threads, Grow,
         \A x \in Threads : x # t => th'[x] = th[x],
         \/ storeLock' = storeLock
         \/ storeLock \in {t, None} /\ storeLock' \in {t, None},
         TypeOK', Control(t)', \A s \in Snaps : Recorded(s)'
  PROVE  ControlInv'
<1>1. ASSUME NEW x \in Threads, x # t PROVE Control(x)'
  <2>1. Control(x) /\ th'[x] = th[x] /\ (storeLock' = x <=> storeLock = x)
    BY <1>1, StoreAssumption DEF ControlInv
  <2>2. th[x].op \in ForkOps => manifest[th[x].sid] \in Images /\ th[x].sid \in Snaps
    BY <2>1 DEF Control, ControlInv, Recorded, ForkOps
  <2> QED BY <2>1, <2>2 DEF Control, Grow, Blocks, StoreOps, ForkOps
<1> QED BY <1>1 DEF ControlInv

LEMMA SnapsFrame ==
  ASSUME ControlInv, UNCHANGED snaps
  PROVE  Grow /\ \A s \in Snaps : Recorded(s)'
  BY DEF snaps, Grow, ControlInv, Recorded

LEMMA StoreControl ==
  ASSUME ControlInv, NEW t \in Threads, StoreStep(t)
  PROVE  ControlInv' /\ Grow
<1>0. TypeOK /\ Control(t) /\ t # None
  BY StoreAssumption DEF ControlInv
<1>1. CASE AcquireStore(t)
  <2>1. Grow /\ \A s \in Snaps : Recorded(s)'
    BY <1>1, SnapsFrame DEF AcquireStore
  <2>2. /\ th' \in [Threads -> Thread]
        /\ \A x \in Threads : x # t => th'[x] = th[x]
        /\ th'[t].op = "put" /\ th'[t].sid = th[t].sid /\ th'[t].fd = th[t].fd
    BY <1>0, <1>1, GotoReads DEF AcquireStore, Ops
  <2>3. storeLock = None /\ storeLock' = t /\ th[t].op = "lock" /\ UNCHANGED snaps
    BY <1>1 DEF AcquireStore, At
  <2>4. TypeOK'
    BY <1>0, <1>1, <2>2 DEF AcquireStore, TypeOK, tiers, snaps, files, history
  <2>5. Control(t)'
    BY <1>0, <2>2, <2>3 DEF Control, StoreOps, ForkOps, Rebuild, Locked, snaps
  <2> QED BY <2>1, <2>2, <2>3, <2>4, <2>5, MoveControl
<1>2. CASE PutKnown(t) \/ PutHot(t)
  <2>1. Grow /\ \A s \in Snaps : Recorded(s)'
    BY <1>2, SnapsFrame DEF PutKnown, PutHot
  <2>2. Block(t) \in Chunks /\ th[t].pos <= MaxBlocks /\ th[t].op = "put"
    BY <1>2, BlockTyped DEF PutKnown, PutHot, At
  <2>3. /\ th' \in [Threads -> Thread]
        /\ \A x \in Threads : x # t => th'[x] = th[x]
        /\ th'[t].op = "put" /\ th'[t].sid = th[t].sid /\ th'[t].fd = th[t].fd
    BY <1>0, <1>2, <2>2, AdvanceReads DEF PutKnown, PutHot, Ops
  <2>4. UNCHANGED snaps /\ storeLock' = storeLock
    BY <1>2 DEF PutKnown, PutHot, cas
  <2>5. TypeOK'
    BY <1>0, <1>2, <2>2, <2>3 DEF PutKnown, PutHot, Queue, TypeOK, cas, tiers, snaps,
                                  files, history
  <2>6. Control(t)'
    BY <1>0, <2>2, <2>3, <2>4 DEF Control, StoreOps, ForkOps, Rebuild, Locked, snaps
  <2> QED BY <2>1, <2>3, <2>4, <2>5, <2>6, MoveControl
<1>3. CASE PutCreate(t)
  <2>1. Grow /\ \A s \in Snaps : Recorded(s)'
    BY <1>3, SnapsFrame DEF PutCreate
  <2>2. Block(t) \in Chunks /\ th[t].op = "put" /\ th[t].pos <= Blocks(t)
    BY <1>3, BlockTyped DEF PutCreate, At
  <2>3. /\ th' \in [Threads -> Thread]
        /\ \A x \in Threads : x # t => th'[x] = th[x]
        /\ th'[t].op = "write" /\ th'[t].sid = th[t].sid /\ th'[t].fd = th[t].fd
        /\ th'[t].pos = th[t].pos
    BY <1>0, <1>3, GotoReads DEF PutCreate, Ops
  <2>4. UNCHANGED snaps /\ storeLock' = storeLock
    BY <1>3 DEF PutCreate
  <2>5. TypeOK'
    BY <1>0, <1>3, <2>2, <2>3 DEF PutCreate, TypeOK, snaps, files, history
  <2>6. Control(t)'
    BY <1>0, <2>2, <2>3, <2>4 DEF Control, Blocks, StoreOps, ForkOps, Rebuild, Locked, snaps
  <2> QED BY <2>1, <2>3, <2>4, <2>5, <2>6, MoveControl
<1>4. CASE PutWrite(t)
  <2>1. Grow /\ \A s \in Snaps : Recorded(s)'
    BY <1>4, SnapsFrame DEF PutWrite
  <2>2. Block(t) \in Chunks /\ th[t].pos <= MaxBlocks /\ th[t].op = "write"
    BY <1>4, BlockTyped DEF PutWrite, At
  <2>3. /\ th' \in [Threads -> Thread]
        /\ \A x \in Threads : x # t => th'[x] = th[x]
        /\ th'[t].op = "put" /\ th'[t].sid = th[t].sid /\ th'[t].fd = th[t].fd
    BY <1>0, <1>4, <2>2, AdvanceReads DEF PutWrite, Ops
  <2>4. UNCHANGED snaps /\ storeLock' = storeLock
    BY <1>4 DEF PutWrite
  <2>5. TypeOK'
    BY <1>0, <1>4, <2>2, <2>3 DEF PutWrite, Queue, TypeOK, snaps, files, history
  <2>6. Control(t)'
    BY <1>0, <2>2, <2>3, <2>4 DEF Control, StoreOps, ForkOps, Rebuild, Locked, snaps
  <2> QED BY <2>1, <2>3, <2>4, <2>5, <2>6, MoveControl
<1>5. CASE PutFails(t)
  <2>1. Grow /\ \A s \in Snaps : Recorded(s)'
    BY <1>5, SnapsFrame DEF PutFails
  <2>2. Block(t) \in Chunks /\ th[t].op = "write"
    BY <1>5, BlockTyped DEF PutFails, At
  <2>3. /\ th' \in [Threads -> Thread] /\ th'[t] = Idle
        /\ \A x \in Threads : x # t => th'[x] = th[x]
    BY <1>0, <1>5, FinishReads DEF PutFails
  <2>4. storeLock = t /\ storeLock' = None
    BY <1>0, <1>5, <2>2 DEF PutFails, Control, Locked
  <2>5. TypeOK'
    BY <1>0, <1>5, <2>2, <2>3 DEF PutFails, TypeOK, tiers, snaps, files
  <2>6. Control(t)'
    BY <1>0, <2>3, <2>4 DEF Control, Idle, StoreOps, ForkOps, Rebuild, Locked
  <2> QED BY <2>1, <2>3, <2>4, <2>5, <2>6, MoveControl
<1>6. CASE FlushNothing(t)
  <2>1. Grow /\ \A s \in Snaps : Recorded(s)'
    BY <1>6, SnapsFrame DEF FlushNothing
  <2>2. /\ th' \in [Threads -> Thread]
        /\ \A x \in Threads : x # t => th'[x] = th[x]
        /\ th'[t].op = "manifest" /\ th'[t].sid = th[t].sid /\ th'[t].fd = th[t].fd
    BY <1>0, <1>6, GotoReads DEF FlushNothing, Ops
  <2>3. storeLock = t /\ storeLock' = None /\ th[t].op = "put" /\ UNCHANGED snaps
    BY <1>0, <1>6 DEF FlushNothing, Control, Locked, At
  <2>4. TypeOK'
    BY <1>0, <1>6, <2>2 DEF FlushNothing, TypeOK, tiers, snaps, files, history
  <2>5. Control(t)'
    BY <1>0, <2>2, <2>3 DEF Control, StoreOps, ForkOps, Rebuild, Locked, snaps
  <2> QED BY <2>1, <2>2, <2>3, <2>4, <2>5, MoveControl
<1>7. CASE FlushStart(t)
  <2>1. Grow /\ \A s \in Snaps : Recorded(s)'
    BY <1>7, SnapsFrame DEF FlushStart
  <2>2. /\ th' \in [Threads -> Thread]
        /\ \A x \in Threads : x # t => th'[x] = th[x]
        /\ th'[t].op = "upload" /\ th'[t].sid = th[t].sid /\ th'[t].fd = th[t].fd
    <3>1. pending \in SUBSET Chunks /\ "upload" \in Ops
      BY <1>0 DEF TypeOK, Ops
    <3>2. [th[t] EXCEPT !.op = "upload", !.up = pending] \in Thread
      BY <1>0, <3>1 DEF TypeOK, Thread
    <3> QED BY <1>0, <1>7, <3>2 DEF FlushStart, TypeOK, Thread
  <2>3. storeLock' = storeLock /\ th[t].op = "put" /\ UNCHANGED snaps
    BY <1>7 DEF FlushStart, At
  <2>4. TypeOK'
    BY <1>0, <1>7, <2>2 DEF FlushStart, TypeOK, tiers, snaps, files, history
  <2>5. Control(t)'
    BY <1>0, <2>2, <2>3 DEF Control, StoreOps, ForkOps, Rebuild, Locked, snaps
  <2> QED BY <2>1, <2>2, <2>3, <2>4, <2>5, MoveControl
<1>8. ASSUME NEW C \in SUBSET Chunks,
             \/ \E h \in C : C = {h} /\ (Upload(t, h) \/ UploadFails(t, h))
             \/ CancelUploads(t, C)
      PROVE  ControlInv' /\ Grow
  <2>1. Grow /\ \A s \in Snaps : Recorded(s)'
    BY <1>8, SnapsFrame DEF Upload, UploadFails, CancelUploads
  <2>2. /\ th' \in [Threads -> Thread]
        /\ \A x \in Threads : x # t => th'[x] = th[x]
        /\ th'[t].op = "upload" /\ th'[t].sid = th[t].sid /\ th'[t].fd = th[t].fd
    <3>1. th[t].up \ C \in SUBSET Chunks
      BY <1>0 DEF TypeOK, Thread
    <3> DEFINE done == [th[t] EXCEPT !.up = th[t].up \ C]
               raised == [th[t] EXCEPT !.up = th[t].up \ C, !.failed = TRUE]
    <3>2. /\ done \in Thread /\ raised \in Thread
          /\ done.op = th[t].op /\ done.sid = th[t].sid /\ done.fd = th[t].fd
          /\ raised.op = th[t].op /\ raised.sid = th[t].sid /\ raised.fd = th[t].fd
      BY <1>0, <3>1 DEF TypeOK, Thread
    <3>3. ASSUME NEW h \in C, C = {h}, Upload(t, h)
          PROVE  th' = [th EXCEPT ![t] = done] /\ At(t, "upload")
      BY <3>3 DEF Upload
    <3>4. ASSUME NEW h \in C, C = {h}, UploadFails(t, h)
          PROVE  th' = [th EXCEPT ![t] = raised] /\ At(t, "upload")
      BY <3>4 DEF UploadFails
    <3>5. ASSUME CancelUploads(t, C)
          PROVE  th' = [th EXCEPT ![t] = done] /\ At(t, "upload")
      BY <3>5 DEF CancelUploads
    <3> HIDE DEF done, raised
    <3>6. /\ At(t, "upload")
          /\ th' = [th EXCEPT ![t] = done] \/ th' = [th EXCEPT ![t] = raised]
      BY <1>8, <3>3, <3>4, <3>5
    <3> QED BY <1>0, <3>2, <3>6 DEF TypeOK, At
  <2>3. storeLock' = storeLock /\ th[t].op = "upload" /\ UNCHANGED snaps
    BY <1>8 DEF Upload, UploadFails, CancelUploads, At, cas
  <2>4. TypeOK'
    BY <1>0, <1>8, <2>2 DEF Upload, UploadFails, CancelUploads, TypeOK, cas, tiers, snaps,
                            files, history
  <2>5. Control(t)'
    BY <1>0, <2>2, <2>3 DEF Control, StoreOps, ForkOps, Rebuild, Locked, snaps
  <2> QED BY <2>1, <2>2, <2>3, <2>4, <2>5, MoveControl
<1>9. CASE FlushEnd(t)
  <2>1. Grow /\ \A s \in Snaps : Recorded(s)'
    BY <1>9, SnapsFrame DEF FlushEnd
  <2>2. storeLock = t /\ storeLock' = None /\ th[t].op = "upload" /\ UNCHANGED snaps
    BY <1>0, <1>9 DEF FlushEnd, Control, Locked, At
  <2>3. /\ th' \in [Threads -> Thread]
        /\ \A x \in Threads : x # t => th'[x] = th[x]
        /\ \/ th'[t] = Idle
           \/ th'[t].op = "manifest" /\ th'[t].sid = th[t].sid /\ th'[t].fd = th[t].fd
    <3>1. CASE th[t].failed
      BY <1>0, <1>9, <3>1, FinishReads DEF FlushEnd
    <3>2. CASE ~th[t].failed
      BY <1>0, <1>9, <3>2, GotoReads DEF FlushEnd, Ops
    <3> QED BY <3>1, <3>2
  <2>4. TypeOK'
    BY <1>0, <1>9, <2>3 DEF FlushEnd, TypeOK, tiers, snaps, files, history
  <2>5. Control(t)'
    BY <1>0, <2>2, <2>3 DEF Control, Idle, StoreOps, ForkOps, Rebuild, Locked, snaps
  <2> QED BY <2>1, <2>2, <2>3, <2>4, <2>5, MoveControl
<1>10. CASE WriteManifest(t)
  <2>1. /\ th' \in [Threads -> Thread]
        /\ \A x \in Threads : x # t => th'[x] = th[x]
        /\ th'[t].op = "row" /\ th'[t].sid = th[t].sid /\ th'[t].fd = th[t].fd
    BY <1>0, <1>10, GotoReads DEF WriteManifest, Ops
  <2>2. /\ th[t].op = "manifest" /\ th[t].sid \in Snaps /\ image[th[t].sid] \in Images
        /\ storeLock' = storeLock /\ image' = image /\ rows' = rows
    BY <1>0, <1>10 DEF WriteManifest, At, Control, StoreOps, cas
  <2>3. \A s \in Snaps :
          manifest'[s] = IF s = th[t].sid THEN image[s] ELSE manifest[s]
    BY <1>0, <1>10, <2>2 DEF WriteManifest, TypeOK
  <2>4. Grow /\ \A s \in Snaps : Recorded(s)'
    BY <2>2, <2>3, ImageFacts DEF Grow, ControlInv, Recorded
  <2>5. TypeOK'
    BY <1>0, <1>10, <2>1, <2>2 DEF WriteManifest, TypeOK, cas, tiers, files, history
  <2>6. Control(t)'
    BY <1>0, <2>1, <2>2, <2>3 DEF Control, StoreOps, ForkOps, Rebuild, Locked
  <2> QED BY <2>1, <2>2, <2>4, <2>5, <2>6, MoveControl
<1>11. CASE CommitRow(t)
  <2>1. /\ th' \in [Threads -> Thread] /\ th'[t] = Idle
        /\ \A x \in Threads : x # t => th'[x] = th[x]
    BY <1>0, <1>11, FinishReads DEF CommitRow
  <2>2. /\ th[t].op = "row" /\ th[t].sid \in Snaps
        /\ image[th[t].sid] \in Images /\ manifest[th[t].sid] = image[th[t].sid]
        /\ storeLock' = storeLock /\ UNCHANGED <<image, manifest>>
        /\ rows' = rows \cup {th[t].sid}
    BY <1>0, <1>11 DEF CommitRow, At, Control, StoreOps, cas
  <2>3. Grow /\ \A s \in Snaps : Recorded(s)'
    BY <2>2 DEF Grow, ControlInv, Recorded
  <2>4. TypeOK'
    BY <1>0, <1>11, <2>1, <2>2 DEF CommitRow, TypeOK, cas, tiers, files, history
  <2>5. Control(t)'
    BY <1>0, <2>1, <2>2 DEF Control, Idle, StoreOps, ForkOps, Rebuild, Locked
  <2> QED BY <2>1, <2>2, <2>3, <2>4, <2>5, MoveControl
<1> QED BY <1>1, <1>2, <1>3, <1>4, <1>5, <1>6, <1>7, <1>8, <1>9, <1>10, <1>11
        DEF StoreStep

(* What OpenTmp does, for the inode it opens. *)
OpensAt(t, n) ==
  /\ At(t, "open") /\ Opens(tmp[th[t].sid], n)
  /\ tmp' = [tmp EXCEPT ![th[t].sid] = n]
  /\ data' = [data EXCEPT ![n] = Blank]
  /\ th' = [th EXCEPT ![t].op = "get", ![t].fd = n]
  /\ shared' = IF Rivals(t) # {} THEN shared \cup {th[t].sid} ELSE shared
  /\ UNCHANGED <<cas, tiers, snaps, mem, lost, torn>>

LEMMA OpenReads ==
  ASSUME TypeOK, NEW t \in Threads, NEW n \in Inodes, OpensAt(t, n)
  PROVE  /\ th' \in [Threads -> Thread]
         /\ \A x \in Threads : x # t => th'[x] = th[x]
         /\ th'[t].op = "get" /\ th'[t].sid = th[t].sid /\ th'[t].pos = th[t].pos
         /\ th'[t].up = th[t].up /\ th'[t].fd = n
<1>1. [th[t] EXCEPT !.op = "get", !.fd = n] \in Thread
  BY DEF TypeOK, Thread, Ops
<1> QED BY <1>1 DEF TypeOK, OpensAt, Thread

LEMMA ReplaceReads ==
  ASSUME TypeOK, NEW t \in Threads, Replace(t)
  PROVE  /\ th' \in [Threads -> Thread]
         /\ \A x \in Threads : x # t => th'[x] = th[x]
         /\ th'[t].op = "load" /\ th'[t].sid = th[t].sid /\ th'[t].fd = None
<1>1. [th[t] EXCEPT !.op = "load", !.fd = None] \in Thread
  BY DEF TypeOK, Thread, Ops
<1> QED BY <1>1 DEF TypeOK, Replace, Thread

LEMMA AppendTyped ==
  ASSUME ControlInv, NEW t \in Threads, Getting(t) \/ At(t, "warm"), Append1(t)
  PROVE  /\ data' \in [Inodes -> [1..MaxBlocks -> Chunks \cup {None}]]
         /\ \A n \in Inodes, p \in 1..MaxBlocks :
              data'[n][p] = IF n = th[t].fd /\ p = th[t].pos THEN Wanted(t) ELSE data[n][p]
<1>1. /\ th[t].fd \in Inodes /\ th[t].pos \in 1..MaxBlocks /\ Wanted(t) \in Chunks
      /\ data \in [Inodes -> [1..MaxBlocks -> Chunks \cup {None}]]
  BY WantedTyped, ImageFacts DEF At, ControlInv, TypeOK
<1> QED BY <1>1 DEF Append1

LEMMA ForkControl ==
  ASSUME ControlInv, NEW t \in Threads, ForkStep(t)
  PROVE  ControlInv' /\ Grow
<1>0. TypeOK /\ Control(t) /\ t # None
  BY StoreAssumption DEF ControlInv
<1>1. UNCHANGED snaps /\ storeLock' = storeLock
  BY DEF ForkStep, OpenTmp, GetHot, GetCold, WarmCreate, Warm, GetFails, Replace,
         ReplaceFails, Load, cas
<1>2. Grow /\ \A s \in Snaps : Recorded(s)'
  BY <1>1, SnapsFrame
<1>3. CASE OpenTmp(t)
  <2>1. PICK n \in Inodes : OpensAt(t, n)
    BY <1>3 DEF OpenTmp, OpensAt
  <2>2. /\ th' \in [Threads -> Thread]
        /\ \A x \in Threads : x # t => th'[x] = th[x]
        /\ th'[t].op = "get" /\ th'[t].sid = th[t].sid /\ th'[t].fd = n
    BY <1>0, <2>1, OpenReads
  <2>3. th[t].op = "open" /\ th[t].sid \in Snaps
    BY <1>0, <2>1 DEF OpensAt, At, Control
  <2>4. TypeOK'
    <3>1. Blank \in [1..MaxBlocks -> Chunks \cup {None}]
      BY DEF Blank
    <3>2. data' \in [Inodes -> [1..MaxBlocks -> Chunks \cup {None}]]
      BY <1>0, <2>1, <3>1 DEF OpensAt, TypeOK
    <3>3. tmp' \in [Snaps -> Inodes \cup {None}] /\ shared' \subseteq Snaps
      BY <1>0, <2>1, <2>3 DEF OpensAt, TypeOK
    <3> QED BY <1>0, <2>1, <2>2, <3>2, <3>3 DEF OpensAt, TypeOK, cas, tiers, snaps
  <2>5. Control(t)'
    BY <1>0, <1>1, <2>2, <2>3 DEF Control, StoreOps, ForkOps, Rebuild, Locked, snaps
  <2> QED BY <1>1, <1>2, <2>2, <2>4, <2>5, MoveControl
<1>4. CASE GetHot(t) \/ Warm(t)
  <2>1. /\ th[t].pos <= MaxBlocks /\ th[t].op \in {"get", "warm"} /\ Wanted(t) \in Chunks
    BY <1>4, WantedTyped DEF GetHot, Warm, Getting, At
  <2>2. /\ th' \in [Threads -> Thread]
        /\ \A x \in Threads : x # t => th'[x] = th[x]
        /\ th'[t].op = "get" /\ th'[t].sid = th[t].sid /\ th'[t].fd = th[t].fd
    BY <1>0, <1>4, <2>1, AdvanceReads DEF GetHot, Warm, Ops
  <2>3. data' \in [Inodes -> [1..MaxBlocks -> Chunks \cup {None}]]
    BY <1>4, AppendTyped DEF GetHot, Warm
  <2>4. hot' \in [Chunks -> {"none", "empty", "whole"}]
    BY <1>0, <1>4, <2>1 DEF GetHot, Warm, tiers, TypeOK
  <2>5. TypeOK'
    BY <1>0, <1>4, <2>2, <2>3, <2>4 DEF GetHot, Warm, TypeOK, cas, tiers, snaps, history
  <2>6. Control(t)'
    BY <1>0, <1>1, <2>1, <2>2 DEF Control, StoreOps, ForkOps, Rebuild, Locked, snaps
  <2> QED BY <1>1, <1>2, <2>2, <2>5, <2>6, MoveControl
<1>5. CASE GetCold(t)
  <2>1. th[t].op = "get" /\ th[t].pos <= Len(manifest[th[t].sid])
    BY <1>5 DEF GetCold, Getting, At
  <2>2. /\ th' \in [Threads -> Thread]
        /\ \A x \in Threads : x # t => th'[x] = th[x]
        /\ th'[t].op = "fetched" /\ th'[t].sid = th[t].sid /\ th'[t].fd = th[t].fd
        /\ th'[t].pos = th[t].pos
    BY <1>0, <1>5, GotoReads DEF GetCold, Ops
  <2>3. TypeOK'
    BY <1>0, <1>5, <2>2 DEF GetCold, TypeOK, cas, tiers, snaps, files, history
  <2>4. Control(t)'
    BY <1>0, <1>1, <2>1, <2>2 DEF Control, StoreOps, ForkOps, Rebuild, Locked, snaps
  <2> QED BY <1>1, <1>2, <2>2, <2>3, <2>4, MoveControl
<1>6. CASE WarmCreate(t)
  <2>1. th[t].op = "fetched" /\ Wanted(t) \in Chunks
    BY <1>6, WantedTyped DEF WarmCreate, At
  <2>2. /\ th' \in [Threads -> Thread]
        /\ \A x \in Threads : x # t => th'[x] = th[x]
        /\ th'[t].op = "warm" /\ th'[t].sid = th[t].sid /\ th'[t].fd = th[t].fd
        /\ th'[t].pos = th[t].pos
    BY <1>0, <1>6, GotoReads DEF WarmCreate, Ops
  <2>3. TypeOK'
    BY <1>0, <1>6, <2>1, <2>2 DEF WarmCreate, TypeOK, cas, snaps, files, history
  <2>4. Control(t)'
    BY <1>0, <1>1, <2>1, <2>2 DEF Control, StoreOps, ForkOps, Rebuild, Locked, snaps
  <2> QED BY <1>1, <1>2, <2>2, <2>3, <2>4, MoveControl
<1>7. CASE GetFails(t) \/ ReplaceFails(t) \/ Load(t)
  <2>1. /\ th' \in [Threads -> Thread] /\ th'[t] = Idle
        /\ \A x \in Threads : x # t => th'[x] = th[x]
    BY <1>0, <1>7, FinishReads DEF GetFails, ReplaceFails, Load
  <2>2. th[t].op \in ForkOps
    BY <1>7 DEF GetFails, ReplaceFails, Load, Getting, At, ForkOps
  <2>3. torn' \subseteq Chunks
    BY <1>0, <1>7, WantedTyped DEF GetFails, ReplaceFails, Load, At, history, TypeOK
  <2>4. TypeOK'
    BY <1>0, <1>7, <2>1, <2>3 DEF GetFails, ReplaceFails, Load, TypeOK, cas, tiers, snaps,
                                  files, history
  <2>5. Control(t)'
    BY <1>0, <1>1, <2>1, <2>2 DEF Control, Idle, StoreOps, ForkOps, Rebuild, Locked
  <2> QED BY <1>1, <1>2, <2>1, <2>4, <2>5, MoveControl
<1>8. CASE Replace(t)
  <2>1. th[t].op = "get" /\ th[t].sid \in Snaps
    BY <1>0, <1>8 DEF Replace, At, Control
  <2>2. /\ th' \in [Threads -> Thread]
        /\ \A x \in Threads : x # t => th'[x] = th[x]
        /\ th'[t].op = "load" /\ th'[t].sid = th[t].sid /\ th'[t].fd = None
    BY <1>0, <1>8, ReplaceReads
  <2>3. TypeOK'
    BY <1>0, <1>8, <2>1, <2>2 DEF Replace, TypeOK, cas, tiers, snaps, history
  <2>4. Control(t)'
    BY <1>0, <1>1, <2>1, <2>2 DEF Control, StoreOps, ForkOps, Rebuild, Locked, snaps
  <2> QED BY <1>1, <1>2, <2>2, <2>3, <2>4, MoveControl
<1> QED BY <1>3, <1>4, <1>5, <1>6, <1>7, <1>8 DEF ForkStep

LEMMA StartStoreReads ==
  ASSUME TypeOK, NEW t \in Threads, NEW s \in Snaps, NEW im \in Images, StartStore(t, s, im)
  PROVE  /\ th' \in [Threads -> Thread]
         /\ \A x \in Threads : x # t => th'[x] = th[x]
         /\ th[t].op = "idle"
         /\ th'[t].op = "lock" /\ th'[t].sid = s /\ th'[t].fd = None /\ th'[t].pos = 1
         /\ image[s] = <<>>
         /\ \A r \in Snaps : image'[r] = IF r = s THEN im ELSE image[r]
<1>1. [Idle EXCEPT !.op = "lock", !.sid = s] \in Thread
  BY IdleTyped DEF Thread, Ops
<1> QED BY <1>1 DEF TypeOK, StartStore, At, Idle

LEMMA StartForkReads ==
  ASSUME TypeOK, NEW t \in Threads, NEW s \in Snaps, StartFork(t, s)
  PROVE  /\ th' \in [Threads -> Thread]
         /\ \A x \in Threads : x # t => th'[x] = th[x]
         /\ th[t].op = "idle"
         /\ th'[t].op = IF mem[s] # None THEN "load" ELSE "open"
         /\ th'[t].sid = s /\ th'[t].fd = None /\ th'[t].pos = 1
<1>1. [Idle EXCEPT !.sid = s, !.op = IF mem[s] # None THEN "load" ELSE "open"] \in Thread
  BY IdleTyped DEF Thread, Ops
<1> QED BY <1>1 DEF TypeOK, StartFork, At, Idle

LEMMA CrashReads ==
  ASSUME ControlInv, Crash
  PROVE  /\ th' = [t \in Threads |-> Idle]
         /\ torn' \subseteq Chunks
         /\ torn \subseteq torn'
         /\ \A t \in Threads, h \in Chunks : Writing(t, h) => h \in torn'
<1>1. /\ th' = [t \in Threads |-> Idle]
      /\ torn' = torn \cup {Block(t) : t \in {x \in Threads : At(x, "write")}}
                      \cup {Wanted(t) : t \in {x \in Threads : At(x, "warm")}}
  BY DEF Crash
<1>2. /\ \A t \in Threads : At(t, "write") => Block(t) \in Chunks
      /\ \A t \in Threads : At(t, "warm") => Wanted(t) \in Chunks
  BY BlockTyped, WantedTyped DEF At
<1> QED BY <1>1, <1>2 DEF Writing, ControlInv, TypeOK

LEMMA ControlStep == ASSUME ControlInv, [Next]_vars PROVE ControlInv' /\ Grow
<1>0. TypeOK
  BY DEF ControlInv
<1>1. ASSUME NEW t \in Threads, NEW s \in Snaps, NEW im \in Images, StartStore(t, s, im)
      PROVE  ControlInv' /\ Grow
  <2>0. Control(t)
    BY DEF ControlInv
  <2>1. /\ th' \in [Threads -> Thread]
        /\ \A x \in Threads : x # t => th'[x] = th[x]
        /\ th[t].op = "idle"
        /\ th'[t].op = "lock" /\ th'[t].sid = s /\ th'[t].fd = None
        /\ image[s] = <<>>
        /\ \A r \in Snaps : image'[r] = IF r = s THEN im ELSE image[r]
    BY <1>0, <1>1, StartStoreReads
  <2>2. storeLock' = storeLock /\ UNCHANGED <<manifest, rows>>
    BY <1>1 DEF StartStore, cas
  <2>3. Grow /\ \A r \in Snaps : Recorded(r)'
    BY <2>1, <2>2, ImageFacts DEF ControlInv, Recorded, Grow
  <2>4. TypeOK'
    BY <1>0, <1>1, <2>1, <2>2 DEF StartStore, TypeOK, cas, tiers, files, history
  <2>5. Control(t)'
    BY <2>0, <2>1, <2>2 DEF Control, StoreOps, ForkOps, Rebuild, Locked
  <2> QED BY <2>1, <2>2, <2>3, <2>4, <2>5, MoveControl
<1>2. ASSUME NEW t \in Threads, NEW s \in Snaps, StartFork(t, s)
      PROVE  ControlInv' /\ Grow
  <2>0. Control(t)
    BY DEF ControlInv
  <2>1. /\ th' \in [Threads -> Thread]
        /\ \A x \in Threads : x # t => th'[x] = th[x]
        /\ th[t].op = "idle" /\ th'[t].op \in {"load", "open"}
        /\ th'[t].sid = s /\ th'[t].fd = None
    BY <1>0, <1>2, StartForkReads
  <2>2. storeLock' = storeLock /\ UNCHANGED snaps /\ s \in rows
    BY <1>2 DEF StartFork, cas
  <2>3. Grow /\ \A r \in Snaps : Recorded(r)'
    BY <2>2, SnapsFrame
  <2>4. TypeOK'
    BY <1>0, <1>2, <2>1 DEF StartFork, TypeOK, cas, tiers, snaps, files, history
  <2>5. Control(t)'
    BY <2>0, <2>1, <2>2 DEF Control, StoreOps, ForkOps, Rebuild, Locked, snaps
  <2> QED BY <2>1, <2>2, <2>3, <2>4, <2>5, MoveControl
<1>3. CASE Crash
  <2>1. Grow /\ \A s \in Snaps : Recorded(s)'
    BY <1>3, SnapsFrame DEF Crash
  <2>2. TypeOK'
    BY <1>0, <1>3, CrashReads, IdleTyped DEF Crash, TypeOK, tiers, snaps, files
  <2>3. ASSUME NEW t \in Threads PROVE Control(t)'
    BY <1>3, StoreAssumption DEF Crash, Control, Idle, StoreOps, ForkOps, Rebuild, Locked
  <2> QED BY <2>1, <2>2, <2>3 DEF ControlInv
<1>4. CASE DropHotCache
  BY <1>0, <1>4, SnapsFrame DEF DropHotCache, ControlInv, TypeOK, Control, Blocks, cas,
                                snaps, files, history
<1>5. CASE UNCHANGED vars
  BY <1>0, <1>5, SnapsFrame DEF vars, ControlInv, TypeOK, Control, Blocks, cas, tiers,
                                snaps, files, history
<1>6. ASSUME NEW t \in Threads, StoreStep(t) \/ ForkStep(t) PROVE ControlInv' /\ Grow
  BY <1>6, StoreControl, ForkControl
<1> QED BY <1>1, <1>2, <1>3, <1>4, <1>5, <1>6 DEF Next

LEMMA InitControl == Init => ControlInv
<1> SUFFICES ASSUME Init PROVE ControlInv
  OBVIOUS
<1>1. TypeOK
  BY IdleTyped DEF Init, TypeOK, Blank
<1>2. ASSUME NEW t \in Threads PROVE Control(t)
  BY StoreAssumption DEF Init, Control, Idle, StoreOps, ForkOps, Rebuild, Locked
<1>3. ASSUME NEW s \in Snaps PROVE Recorded(s)
  BY DEF Init, Recorded
<1> QED BY <1>1, <1>2, <1>3 DEF ControlInv

-----------------------------------------------------------------------------
(* Chunks. *)

(* What is kept stays so; only a cold tier lets the hot cache be deleted. *)
KeepTiers ==
  /\ cold \subseteq cold' /\ lost \subseteq lost'
  /\ ColdTier \/ \A h \in Chunks : hot[h] # "none" => hot'[h] # "none"

LEMMA KeptGrows ==
  ASSUME KeepTiers, NEW h \in Chunks, Kept(h) PROVE Kept(h)'
  BY DEF KeepTiers, Kept

LEMMA TiersStep == ASSUME ControlInv, [Next]_vars PROVE KeepTiers
<1>0. hot \in [Chunks -> {"none", "empty", "whole"}]
  BY DEF ControlInv, TypeOK
<1>1. CASE UNCHANGED <<tiers, lost>>
  BY <1>1 DEF KeepTiers, tiers
<1>2. ASSUME NEW t \in Threads, StoreStep(t) PROVE KeepTiers
  <2>1. At(t, "write") \/ (At(t, "put") /\ th[t].pos <= Blocks(t)) => Block(t) \in Chunks
    BY BlockTyped
  <2> QED BY <1>0, <1>2, <2>1
          DEF StoreStep, AcquireStore, PutKnown, PutHot, PutCreate, PutWrite, PutFails,
              FlushNothing, FlushStart, FlushEnd, Upload, UploadFails, CancelUploads, WriteManifest,
              CommitRow, KeepTiers, tiers, history
<1>3. ASSUME NEW t \in Threads, ForkStep(t) PROVE KeepTiers
  <2>1. At(t, "fetched") \/ At(t, "warm") => Wanted(t) \in Chunks
    BY WantedTyped DEF At
  <2> QED BY <1>0, <1>3, <2>1
          DEF ForkStep, OpenTmp, GetHot, GetCold, WarmCreate, Warm, GetFails, Replace,
              ReplaceFails, Load, KeepTiers, tiers, history
<1>4. CASE DropHotCache
  BY <1>4 DEF DropHotCache, KeepTiers, history
<1>5. ASSUME NEW t \in Threads, NEW s \in Snaps, NEW im \in Images,
             StartStore(t, s, im) \/ StartFork(t, s)
      PROVE  UNCHANGED <<tiers, lost>>
  BY <1>5 DEF StartStore, StartFork, history
<1>6. ASSUME NEW t \in Threads, NEW s \in Snaps, StartFork(t, s)
      PROVE  UNCHANGED <<tiers, lost>>
  BY <1>6 DEF StartFork, history
<1> QED BY <1>1, <1>2, <1>3, <1>4, <1>5, <1>6 DEF Next, Crash, vars, history

(* A thread that does not move. *)
LEMMA OthersKept ==
  ASSUME ControlInv, KeptInv, Grow, KeepTiers, NEW t \in Threads,
         NEW x \in Threads, x # t, th'[x] = th[x],
         index \subseteq index', pending' = pending \/ storeLock = t
  PROVE  /\ PutSoFar(x)'
         /\ \A h : Hand(x, h) => Hand(x, h)'
         /\ storeLock = t => \A h : ~Hand(x, h)
<1>1. Control(x) /\ PutSoFar(x)
  BY DEF ControlInv, KeptInv
<1>2. th[x].op \in StoreOps =>
        /\ th[x].sid \in Snaps /\ image[th[x].sid] \in Images
        /\ image'[th[x].sid] = image[th[x].sid]
  BY <1>1 DEF Control, Grow, StoreOps
<1>3. \A h : Hand(x, h) => Hand(x, h)'
  BY <1>2 DEF Hand, At, Block, StoreOps
<1>4. storeLock = t => th[x].op \notin Locked
  BY <1>1 DEF Control
<1>5. At(x, "manifest") => (\A p \in 1..Blocks(x) : Kept(image[th[x].sid][p]))'
  <2> SUFFICES ASSUME At(x, "manifest"), NEW p \in 1..Blocks(x)
               PROVE  Kept(image[th[x].sid][p])'
    BY <1>2 DEF At, Blocks, StoreOps
  <2>1. image[th[x].sid][p] \in Chunks /\ Kept(image[th[x].sid][p])
    BY <1>1, <1>2, ImageFacts DEF At, Blocks, StoreOps, PutSoFar
  <2>2. Kept(image[th[x].sid][p])' <=> \/ ColdTier /\ image[th[x].sid][p] \in cold' \cup lost'
                                       \/ ~ColdTier /\ hot'[image[th[x].sid][p]] # "none"
    BY <1>2 DEF Kept, At, StoreOps
  <2> QED BY <2>1, <2>2 DEF KeepTiers, Kept
<1>6. PutSoFar(x)'
  BY <1>1, <1>2, <1>4, <1>5 DEF PutSoFar, At, Block, Blocks, StoreOps, Locked
<1> QED BY <1>3, <1>4, <1>6 DEF Hand, Locked, At

(* Published manifests stay kept. *)
LEMMA ManifestsKept ==
  ASSUME ControlInv, KeptInv, KeepTiers, NEW s \in Snaps, manifest'[s] = manifest[s],
         NEW p \in 1..Len(manifest'[s])
  PROVE  Kept(manifest[s][p])'
<1>1. manifest[s] \in Images
  BY DEF ControlInv, TypeOK
<1>2. manifest[s][p] \in Chunks /\ Kept(manifest[s][p])
  BY <1>1, ImageFacts DEF KeptInv
<1> QED BY <1>2 DEF Kept, KeepTiers

(* Steps that leave the index and the queue alone. *)
LEMMA FrameKept ==
  ASSUME ControlInv, KeptInv, Grow, KeepTiers, NEW t \in Threads,
         \A x \in Threads : x # t => th'[x] = th[x],
         index' = index, pending' = pending, manifest' = manifest,
         th[t].op \notin {"write", "upload"}, PutSoFar(t)'
  PROVE  KeptInv'
<1>1. ASSUME NEW h \in index' PROVE Kept(h)' \/ (ColdTier /\ InHand(h)')
  <2>1. h \in index /\ h \in Chunks
    BY <1>1 DEF ControlInv, TypeOK
  <2>2. CASE Kept(h)
    BY <2>1, <2>2, KeptGrows
  <2>3. CASE ColdTier /\ h \in pending
    BY <2>3 DEF InHand
  <2>4. ASSUME ColdTier, NEW x \in Threads, Hand(x, h) PROVE ColdTier /\ InHand(h)'
    <3>1. x # t
      BY <2>4 DEF Hand, At
    <3>2. Hand(x, h)'
      BY <2>4, <3>1, OthersKept
    <3> QED BY <2>4, <3>2 DEF InHand
  <2> QED BY <2>1, <2>2, <2>3, <2>4 DEF KeptInv, InHand
<1>2. \A x \in Threads : PutSoFar(x)'
  BY OthersKept
<1> QED BY <1>1, <1>2, ManifestsKept DEF KeptInv

(***************************************************************************)
(* Steps of the thread that holds _store_lock: no other thread has a chunk *)
(* in hand.                                                                *)
(***************************************************************************)
LEMMA HolderKept ==
  ASSUME ControlInv, KeptInv, Grow, KeepTiers, NEW t \in Threads, storeLock = t,
         \A x \in Threads : x # t => th'[x] = th[x],
         index \subseteq index', manifest' = manifest, PutSoFar(t)',
         \A h \in index : ColdTier /\ (h \in pending \/ Hand(t, h)) =>
                            Kept(h)' \/ h \in pending' \/ Hand(t, h)',
         \A h \in index' \ index :
            Kept(h)' \/ (ColdTier /\ (h \in pending' \/ Hand(t, h)'))
  PROVE  KeptInv'
<1>1. ASSUME NEW h \in index' PROVE Kept(h)' \/ (ColdTier /\ InHand(h)')
  <2>1. CASE h \in index
    <3>1. h \in Chunks
      BY <2>1 DEF ControlInv, TypeOK
    <3>2. Kept(h) \/ (ColdTier /\ (h \in pending \/ Hand(t, h)))
      BY <2>1, OthersKept DEF KeptInv, InHand
    <3> QED BY <2>1, <3>1, <3>2, KeptGrows DEF InHand
  <2>2. CASE h \notin index
    BY <1>1, <2>2 DEF InHand
  <2> QED BY <2>1, <2>2
<1>2. \A x \in Threads : PutSoFar(x)'
  BY OthersKept
<1> QED BY <1>1, <1>2, ManifestsKept DEF KeptInv

LEMMA StoreKept ==
  ASSUME ControlInv, KeptInv, NEW t \in Threads, StoreStep(t), Grow, KeepTiers, ControlInv'
  PROVE  KeptInv'
<1>0. /\ TypeOK /\ Control(t) /\ PutSoFar(t) /\ t # None
      /\ th[t].pos \in Nat
      /\ th[t].op \in StoreOps =>
           /\ th[t].sid \in Snaps /\ image[th[t].sid] \in Images
           /\ image'[th[t].sid] = image[th[t].sid]
           /\ Blocks(t) \in Nat
  BY StoreAssumption, ImageFacts
     DEF ControlInv, KeptInv, TypeOK, Thread, Control, Grow, StoreOps, Blocks
<1>1. CASE AcquireStore(t)
  <2>1. /\ th[t].op = "lock" /\ th'[t].op = "put" /\ th'[t].pos = th[t].pos
        /\ \A x \in Threads : x # t => th'[x] = th[x]
        /\ index' = index /\ pending' = pending /\ manifest' = manifest
    BY <1>0, <1>1, GotoReads DEF AcquireStore, At, Ops, snaps
  <2>2. PutSoFar(t)'
    BY <1>0, <2>1 DEF PutSoFar, At, Blocks
  <2> QED BY <2>1, <2>2, FrameKept
<1>2. CASE PutKnown(t)
  <2>1. /\ th[t].op = "put" /\ th[t].pos \in 1..Blocks(t) /\ th[t].pos <= MaxBlocks
        /\ Block(t) \in index /\ storeLock = t
    BY <1>0, <1>2, BlockTyped DEF PutKnown, At, Control, Locked
  <2>2. /\ th'[t].op = "put" /\ th'[t].sid = th[t].sid /\ th'[t].pos = th[t].pos + 1
        /\ \A x \in Threads : x # t => th'[x] = th[x]
        /\ index' = index /\ pending' = pending /\ manifest' = manifest
    BY <1>0, <1>2, <2>1, AdvanceReads DEF PutKnown, Ops, cas, snaps
  <2>3. PutSoFar(t)'
    BY <1>0, <2>1, <2>2 DEF PutSoFar, At, Blocks, Block, Locked, StoreOps
  <2> QED BY <2>1, <2>2, <2>3, FrameKept
<1>3. CASE PutHot(t)
  <2>1. /\ th[t].op = "put" /\ th[t].pos \in 1..Blocks(t) /\ th[t].pos <= MaxBlocks
        /\ Block(t) \in Chunks /\ storeLock = t
    BY <1>0, <1>3, BlockTyped DEF PutHot, At, Control, Locked
  <2>2. /\ th'[t].op = "put" /\ th'[t].sid = th[t].sid /\ th'[t].pos = th[t].pos + 1
        /\ \A x \in Threads : x # t => th'[x] = th[x]
        /\ index' = index \cup {Block(t)} /\ manifest' = manifest
        /\ pending' = IF ColdTier THEN pending \cup {Block(t)} ELSE pending
        /\ hot[Block(t)] # "none" /\ hot' = hot
    BY <1>0, <1>3, <2>1, AdvanceReads DEF PutHot, Queue, Ops, snaps, tiers
  <2>3. PutSoFar(t)'
    BY <1>0, <2>1, <2>2 DEF PutSoFar, At, Blocks, Block, Locked, StoreOps
  <2>4. \A h \in index : ~Hand(t, h)
    BY <2>1 DEF Hand, At
  <2>5. \A h \in index' \ index : Kept(h)' \/ (ColdTier /\ h \in pending')
    BY <2>2 DEF Kept
  <2> QED BY <2>1, <2>2, <2>3, <2>4, <2>5, HolderKept
<1>4. CASE PutCreate(t)
  <2>1. /\ th[t].op = "put" /\ th[t].pos \in 1..Blocks(t) /\ Block(t) \in Chunks
        /\ storeLock = t
    BY <1>0, <1>4, BlockTyped DEF PutCreate, At, Control, Locked
  <2>2. /\ th'[t].op = "write" /\ th'[t].sid = th[t].sid /\ th'[t].pos = th[t].pos
        /\ \A x \in Threads : x # t => th'[x] = th[x]
        /\ index' = index \cup {Block(t)} /\ manifest' = manifest /\ pending' = pending
        /\ hot'[Block(t)] = "empty"
    BY <1>0, <1>4, <2>1, GotoReads DEF PutCreate, Ops, snaps, TypeOK
  <2>3. PutSoFar(t)'
    BY <1>0, <2>1, <2>2 DEF PutSoFar, At, Blocks, Block, Locked, StoreOps
  <2>4. \A h \in index : ~Hand(t, h)
    BY <2>1 DEF Hand, At
  <2>5. \A h \in index' \ index : Kept(h)' \/ (ColdTier /\ Hand(t, h)')
    BY <1>0, <2>1, <2>2 DEF Kept, Hand, At, Block, StoreOps
  <2> QED BY <2>1, <2>2, <2>3, <2>4, <2>5, HolderKept
<1>5. CASE PutWrite(t)
  <2>1. /\ th[t].op = "write" /\ th[t].pos \in 1..Blocks(t) /\ th[t].pos <= MaxBlocks
        /\ Block(t) \in Chunks /\ storeLock = t
    BY <1>0, <1>5, BlockTyped DEF PutWrite, At, Control, Locked
  <2>2. /\ th'[t].op = "put" /\ th'[t].sid = th[t].sid /\ th'[t].pos = th[t].pos + 1
        /\ \A x \in Threads : x # t => th'[x] = th[x]
        /\ index' = index /\ manifest' = manifest
        /\ pending' = IF ColdTier THEN pending \cup {Block(t)} ELSE pending
    BY <1>0, <1>5, <2>1, AdvanceReads DEF PutWrite, Queue, Ops, snaps
  <2>3. \A h \in index : Hand(t, h) => h = Block(t)
    BY <2>1 DEF Hand, At
  <2>4. Block(t) \in index
    BY <1>0, <2>1 DEF PutSoFar, At
  <2>5. PutSoFar(t)'
    BY <1>0, <2>1, <2>2, <2>4 DEF PutSoFar, At, Blocks, Block, Locked, StoreOps
  <2> QED BY <2>1, <2>2, <2>3, <2>5, HolderKept
<1>6. CASE PutFails(t)
  <2>1. th[t].op = "write" /\ Block(t) \in Chunks /\ storeLock = t
    BY <1>0, <1>6, BlockTyped DEF PutFails, At, Control, Locked
  <2>2. /\ th'[t].op = "idle"
        /\ \A x \in Threads : x # t => th'[x] = th[x]
        /\ index' = index /\ manifest' = manifest /\ pending' = pending
        /\ Block(t) \in lost'
    BY <1>0, <1>6, FinishReads DEF PutFails, snaps, Idle
  <2>3. PutSoFar(t)'
    BY <2>2 DEF PutSoFar, At, Locked
  <2>4. \A h \in index : ColdTier /\ Hand(t, h) => Kept(h)'
    BY <2>1, <2>2 DEF Hand, At, Kept
  <2> QED BY <2>1, <2>2, <2>3, <2>4, HolderKept
<1>7. CASE FlushNothing(t)
  <2>1. /\ th[t].op = "put" /\ storeLock = t /\ th[t].pos > Blocks(t) /\ pending = {}
    BY <1>0, <1>7 DEF FlushNothing, At, Control, Locked
  <2>2. /\ th'[t].op = "manifest" /\ th'[t].sid = th[t].sid
        /\ \A x \in Threads : x # t => th'[x] = th[x]
        /\ UNCHANGED <<index, pending, manifest, cold, lost, hot>>
    BY <1>0, <1>7, GotoReads DEF FlushNothing, Ops, snaps, tiers, history
  <2>3. \A h \in index : Kept(h)
    BY <2>1, <2>2, OthersKept DEF KeptInv, InHand, Hand, At
  <2>4. PutSoFar(t)'
    <3>1. \A p \in 1..Blocks(t) : Kept(image[th[t].sid][p])
      BY <1>0, <2>1, <2>3 DEF PutSoFar, Locked, StoreOps
    <3> QED BY <1>0, <2>1, <2>2, <3>1 DEF PutSoFar, At, Blocks, Kept, Locked, StoreOps
  <2> QED BY <2>1, <2>2, <2>4, FrameKept
<1>8. CASE FlushStart(t)
  <2>1. th[t].op = "put" /\ storeLock = t /\ th[t].pos > Blocks(t)
    BY <1>0, <1>8 DEF FlushStart, At, Control, Locked
  <2>2. /\ th'[t].op = "upload" /\ th'[t].sid = th[t].sid /\ th'[t].pos = th[t].pos
        /\ th'[t].up = pending
        /\ \A x \in Threads : x # t => th'[x] = th[x]
        /\ index' = index /\ manifest' = manifest /\ pending' = {}
    BY <1>0, <1>8 DEF FlushStart, TypeOK, Thread, snaps
  <2>3. PutSoFar(t)'
    BY <1>0, <2>1, <2>2 DEF PutSoFar, At, Blocks, Locked, StoreOps
  <2>4. \A h \in index : h \in pending \/ Hand(t, h) => Hand(t, h)'
    BY <2>1, <2>2 DEF Hand, At
  <2> QED BY <2>1, <2>2, <2>3, <2>4, HolderKept
<1>9. ASSUME NEW C \in SUBSET Chunks,
             \/ \E k \in C : C = {k} /\ (Upload(t, k) \/ UploadFails(t, k))
             \/ CancelUploads(t, C)
      PROVE  KeptInv'
  <2>1. th[t].op = "upload" /\ storeLock = t
    BY <1>0, <1>9 DEF Upload, UploadFails, CancelUploads, At, Control, Locked
  <2>2. /\ th'[t].op = "upload" /\ th'[t].sid = th[t].sid /\ th'[t].pos = th[t].pos
        /\ th'[t].up = th[t].up \ C
        /\ \A x \in Threads : x # t => th'[x] = th[x]
    <3> DEFINE done == [th[t] EXCEPT !.up = th[t].up \ C]
               raised == [th[t] EXCEPT !.up = th[t].up \ C, !.failed = TRUE]
    <3>1. /\ done.op = th[t].op /\ done.sid = th[t].sid /\ done.pos = th[t].pos
          /\ raised.op = th[t].op /\ raised.sid = th[t].sid /\ raised.pos = th[t].pos
          /\ done.up = th[t].up \ C /\ raised.up = th[t].up \ C
      BY <1>0 DEF TypeOK, Thread
    <3>2. ASSUME NEW k \in C, C = {k}, Upload(t, k) PROVE th' = [th EXCEPT ![t] = done]
      BY <3>2 DEF Upload
    <3>3. ASSUME NEW k \in C, C = {k}, UploadFails(t, k) PROVE th' = [th EXCEPT ![t] = raised]
      BY <3>3 DEF UploadFails
    <3>4. ASSUME CancelUploads(t, C) PROVE th' = [th EXCEPT ![t] = done]
      BY <3>4 DEF CancelUploads
    <3> HIDE DEF done, raised
    <3>5. th' = [th EXCEPT ![t] = done] \/ th' = [th EXCEPT ![t] = raised]
      BY <1>9, <3>2, <3>3, <3>4
    <3> QED BY <1>0, <2>1, <3>1, <3>5 DEF TypeOK
  <2>3. /\ index' = index /\ manifest' = manifest /\ pending' = pending
        /\ C \subseteq cold' \cup lost'
    BY <1>9 DEF Upload, UploadFails, CancelUploads, cas, snaps
  <2>4. PutSoFar(t)'
    BY <1>0, <2>1, <2>2, <2>3 DEF PutSoFar, At, Blocks, Locked, StoreOps
  <2>5. \A h \in index : ColdTier /\ Hand(t, h) => Kept(h)' \/ Hand(t, h)'
    BY <2>1, <2>2, <2>3 DEF Hand, At, Kept
  <2> QED BY <2>1, <2>2, <2>3, <2>4, <2>5, HolderKept
<1>10. CASE FlushEnd(t)
  <2>1. /\ th[t].op = "upload" /\ storeLock = t /\ th[t].up = {} /\ pending = {}
        /\ th[t].pos > Blocks(t)
    BY <1>0, <1>10 DEF FlushEnd, At, Control, Locked, PutSoFar
  <2>2. /\ \A x \in Threads : x # t => th'[x] = th[x]
        /\ \/ th'[t] = Idle
           \/ th'[t].op = "manifest" /\ th'[t].sid = th[t].sid
    <3>1. CASE th[t].failed
      BY <1>0, <1>10, <3>1, FinishReads DEF FlushEnd
    <3>2. CASE ~th[t].failed
      BY <1>0, <1>10, <3>2, GotoReads DEF FlushEnd, Ops
    <3> QED BY <3>1, <3>2
  <2>3. UNCHANGED <<index, pending, manifest, cold, lost, hot>>
    BY <1>10 DEF FlushEnd, snaps, tiers, history
  <2>4. \A h \in index : Kept(h) /\ ~Hand(t, h)
    BY <2>1, <2>2, <2>3, OthersKept DEF KeptInv, InHand, Hand, At
  <2>5. PutSoFar(t)'
    <3>1. \A p \in 1..Blocks(t) : Kept(image[th[t].sid][p])
      BY <1>0, <2>1, <2>4 DEF PutSoFar, Locked, StoreOps
    <3> QED BY <1>0, <2>1, <2>2, <2>3, <3>1
            DEF PutSoFar, At, Blocks, Kept, Locked, StoreOps, Idle
  <2> QED BY <2>1, <2>2, <2>3, <2>4, <2>5, HolderKept
<1>11. CASE WriteManifest(t)
  <2>1. th[t].op = "manifest" /\ th[t].sid \in Snaps /\ image[th[t].sid] \in Images
    BY <1>0, <1>11 DEF WriteManifest, At, StoreOps
  <2>2. /\ th'[t].op = "row" /\ \A x \in Threads : x # t => th'[x] = th[x]
        /\ UNCHANGED <<index, pending, cold, lost, hot>>
        /\ \A s \in Snaps : manifest'[s] = IF s = th[t].sid THEN image[s] ELSE manifest[s]
    BY <1>0, <1>11, <2>1, GotoReads DEF WriteManifest, Ops, cas, tiers, history, TypeOK
  <2>3. ASSUME NEW x \in Threads PROVE PutSoFar(x)'
    BY <2>2, OthersKept DEF PutSoFar, At, Locked
  <2>4. ASSUME NEW s \in Snaps, NEW p \in 1..Len(manifest'[s]) PROVE Kept(manifest[s][p])'
    <3>1. CASE s = th[t].sid
      <4>1. Kept(image[th[t].sid][p])
        BY <1>0, <2>1, <2>2, <2>4, <3>1 DEF PutSoFar, At, Blocks
      <4> QED BY <2>2, <3>1, <4>1 DEF Kept
    <3>2. CASE s # th[t].sid
      BY <2>2, <2>4, <3>2, ManifestsKept
    <3> QED BY <3>1, <3>2
  <2>5. ASSUME NEW h \in index' PROVE Kept(h)' \/ (ColdTier /\ InHand(h)')
    <3>1. Kept(h) \/ (ColdTier /\ InHand(h))
      BY <2>2 DEF KeptInv
    <3>2. ~Hand(t, h)
      BY <2>1 DEF Hand, At
    <3>3. InHand(h) => InHand(h)'
      BY <2>2, <3>2, OthersKept DEF InHand
    <3> QED BY <2>2, <3>1, <3>3 DEF Kept
  <2> QED BY <2>3, <2>4, <2>5 DEF KeptInv
<1>12. CASE CommitRow(t)
  <2>1. /\ th[t].op = "row" /\ th'[t].op = "idle"
        /\ \A x \in Threads : x # t => th'[x] = th[x]
        /\ index' = index /\ pending' = pending /\ manifest' = manifest
    BY <1>0, <1>12, FinishReads DEF CommitRow, At, Idle, cas
  <2>2. PutSoFar(t)'
    BY <2>1 DEF PutSoFar, At, Locked
  <2> QED BY <2>1, <2>2, FrameKept
<1> QED BY <1>1, <1>2, <1>3, <1>4, <1>5, <1>6, <1>7, <1>8, <1>9, <1>10, <1>11, <1>12
        DEF StoreStep

LEMMA KeptStep == ASSUME ControlInv, KeptInv, [Next]_vars PROVE KeptInv'
<1>0. ControlInv' /\ Grow /\ KeepTiers /\ TypeOK
  BY ControlStep, TiersStep DEF ControlInv
<1>1. ASSUME NEW t \in Threads, StoreStep(t) PROVE KeptInv'
  BY <1>0, <1>1, StoreKept
<1>2. ASSUME NEW t \in Threads, ForkStep(t) PROVE KeptInv'
  <2>1. /\ th[t].op \in ForkOps
        /\ index' = index /\ pending' = pending /\ manifest' = manifest
    BY <1>2 DEF ForkStep, OpenTmp, GetHot, GetCold, WarmCreate, Warm, GetFails, Replace,
                ReplaceFails, Load, Getting, At, ForkOps, cas, snaps
  <2>2. \A x \in Threads : x # t => th'[x] = th[x]
    BY <1>0, <1>2 DEF ForkStep, OpenTmp, GetHot, GetCold, WarmCreate, Warm, GetFails,
                      Replace, ReplaceFails, Load, Goto, Advance, Finish, TypeOK
  <2>3. th'[t].op \in ForkOps \cup {"idle"}
    BY <1>0, <1>2 DEF ForkStep, OpenTmp, GetHot, GetCold, WarmCreate, Warm, GetFails,
                      Replace, ReplaceFails, Load, Goto, Advance, Finish, Idle, TypeOK,
                      Thread, ForkOps
  <2>4. PutSoFar(t)'
    BY <2>3 DEF PutSoFar, At, ForkOps, Locked
  <2> QED BY <1>0, <2>1, <2>2, <2>4, FrameKept DEF ForkOps
<1>3. ASSUME NEW t \in Threads, NEW s \in Snaps, NEW im \in Images, StartStore(t, s, im)
      PROVE  KeptInv'
  <2>1. /\ \A x \in Threads : x # t => th'[x] = th[x]
        /\ th[t].op = "idle" /\ th'[t].op = "lock" /\ th'[t].pos = 1
    BY <1>0, <1>3, StartStoreReads
  <2>2. index' = index /\ pending' = pending /\ manifest' = manifest
    BY <1>3 DEF StartStore, cas
  <2>3. PutSoFar(t)'
    BY <2>1, <2>2 DEF PutSoFar, At, Locked
  <2> QED BY <1>0, <2>1, <2>2, <2>3, FrameKept
<1>4. ASSUME NEW t \in Threads, NEW s \in Snaps, StartFork(t, s) PROVE KeptInv'
  <2>1. /\ \A x \in Threads : x # t => th'[x] = th[x]
        /\ th[t].op = "idle" /\ th'[t].op \in {"load", "open"}
    BY <1>0, <1>4, StartForkReads
  <2>2. index' = index /\ pending' = pending /\ manifest' = manifest
    BY <1>4 DEF StartFork, cas, snaps
  <2>3. PutSoFar(t)'
    BY <2>1, <2>2 DEF PutSoFar, At, Locked
  <2> QED BY <1>0, <2>1, <2>2, <2>3, FrameKept
<1>5. CASE Crash
  <2>1. index' = {} /\ manifest' = manifest /\ \A t \in Threads : th'[t].op = "idle"
    BY <1>5 DEF Crash, Idle, snaps
  <2>2. \A t \in Threads : PutSoFar(t)'
    BY <2>1 DEF PutSoFar, At, Locked
  <2> QED BY <1>0, <2>1, <2>2, ManifestsKept DEF KeptInv
<1>6. CASE DropHotCache
  BY <1>6 DEF DropHotCache, KeptInv, PutSoFar, InHand, Hand, Kept, At, Block, Blocks, cas,
              snaps, history
<1>7. CASE UNCHANGED vars
  BY <1>7 DEF vars, KeptInv, PutSoFar, InHand, Hand, Kept, At, Block, Blocks, cas, snaps,
              tiers, history
<1> QED BY <1>1, <1>2, <1>3, <1>4, <1>5, <1>6, <1>7 DEF Next

-----------------------------------------------------------------------------
(* Files of the hot cache. *)

LEMMA OthersWrite ==
  ASSUME ControlInv, Grow, NEW x \in Threads, th'[x] = th[x], NEW h, Writing(x, h)
  PROVE  Writing(x, h)'
<1>1. Control(x)
  BY DEF ControlInv
<1>2. At(x, "write") => image'[th[x].sid] = image[th[x].sid]
  BY <1>1 DEF Control, Grow, At, StoreOps
<1>3. At(x, "warm") => manifest'[th[x].sid] = manifest[th[x].sid]
  BY WantedTyped DEF Grow, At
<1> QED BY <1>2, <1>3 DEF Writing, At, Block, Wanted

(***************************************************************************)
(* A step of thread t: the files that become empty are in its hands, and   *)
(* the ones it was to write are whole or torn.                             *)
(***************************************************************************)
LEMMA MoveHot ==
  ASSUME ControlInv, Grow, HotInv, NEW t \in Threads, torn \subseteq torn',
         \A x \in Threads : x # t => th'[x] = th[x],
         \A h \in Chunks : hot'[h] = "empty" =>
            \/ hot[h] = "empty" /\ ~Writing(t, h)
            \/ h \in torn'
            \/ Writing(t, h)'
  PROVE  HotInv'
<1> SUFFICES ASSUME NEW h \in Chunks, hot'[h] = "empty"
             PROVE  h \in torn' \/ \E x \in Threads : Writing(x, h)'
  BY DEF HotInv
<1>1. CASE hot[h] = "empty" /\ ~Writing(t, h)
  <2>1. CASE h \in torn
    BY <2>1
  <2>2. ASSUME NEW x \in Threads, Writing(x, h) PROVE Writing(x, h)'
    <3>1. x # t
      BY <1>1, <2>2
    <3> QED BY <2>2, <3>1, OthersWrite
  <2> QED BY <1>1, <2>1, <2>2 DEF HotInv
<1> QED BY <1>1

LEMMA HotStep == ASSUME ControlInv, HotInv, [Next]_vars PROVE HotInv'
<1>0. Grow /\ TypeOK /\ hot \in [Chunks -> {"none", "empty", "whole"}]
  BY ControlStep DEF ControlInv, TypeOK
<1>1. ASSUME NEW t \in Threads, StoreStep(t), ~PutCreate(t), ~PutWrite(t), ~PutFails(t)
      PROVE  HotInv'
  <2>1. /\ UNCHANGED <<hot, torn>>
        /\ th[t].op \notin {"write", "warm"}
    BY <1>1 DEF StoreStep, AcquireStore, PutKnown, PutHot, FlushNothing, FlushStart,
                FlushEnd, Upload, UploadFails, CancelUploads, WriteManifest, CommitRow, At, tiers, history
  <2>2. \A x \in Threads : x # t => th'[x] = th[x]
    BY <1>0, <1>1 DEF StoreStep, AcquireStore, PutKnown, PutHot, FlushNothing, FlushStart,
                FlushEnd, Upload, UploadFails, CancelUploads, WriteManifest, CommitRow, Goto, Advance,
                Finish, TypeOK
  <2>3. \A h \in Chunks : ~Writing(t, h)
    BY <2>1 DEF Writing, At
  <2> QED BY <1>0, <2>1, <2>2, <2>3, MoveHot
<1>2. ASSUME NEW t \in Threads, PutCreate(t) PROVE HotInv'
  <2>1. th[t].op = "put" /\ Block(t) \in Chunks
    BY <1>2, BlockTyped DEF PutCreate, At
  <2>2. /\ \A x \in Threads : x # t => th'[x] = th[x]
        /\ th'[t].op = "write" /\ th'[t].sid = th[t].sid /\ th'[t].pos = th[t].pos
        /\ \A h \in Chunks : hot'[h] = IF h = Block(t) THEN "empty" ELSE hot[h]
        /\ torn' = torn /\ image' = image
    BY <1>0, <1>2, <2>1, GotoReads DEF PutCreate, Ops, history, snaps
  <2>3. \A h \in Chunks : ~Writing(t, h)
    BY <2>1 DEF Writing, At
  <2>4. ASSUME NEW h \in Chunks, hot'[h] = "empty"
        PROVE  (hot[h] = "empty" /\ ~Writing(t, h)) \/ Writing(t, h)'
    <3>1. CASE h = Block(t)
      <4>1. th'[t].op = "write" /\ image'[th'[t].sid][th'[t].pos] = h
        BY <2>2, <3>1 DEF Block
      <4> QED BY <4>1 DEF Writing, At, Block
    <3>2. CASE h # Block(t)
      BY <2>2, <2>3, <2>4, <3>2
    <3> QED BY <3>1, <3>2
  <2> QED BY <1>0, <2>2, <2>4, MoveHot
<1>3. ASSUME NEW t \in Threads, PutWrite(t) PROVE HotInv'
  <2>1. th[t].op = "write" /\ Block(t) \in Chunks /\ th[t].pos <= MaxBlocks
    BY <1>3, BlockTyped DEF PutWrite, At
  <2>2. /\ \A x \in Threads : x # t => th'[x] = th[x]
        /\ \A h \in Chunks : hot'[h] = IF h = Block(t) THEN "whole" ELSE hot[h]
        /\ torn' = torn
    BY <1>0, <1>3, <2>1, AdvanceReads DEF PutWrite, Ops, history
  <2>3. \A h \in Chunks : Writing(t, h) => h = Block(t)
    BY <2>1 DEF Writing, At
  <2> QED BY <1>0, <2>2, <2>3, MoveHot
<1>4. ASSUME NEW t \in Threads, PutFails(t) PROVE HotInv'
  <2>1. th[t].op = "write"
    BY <1>4 DEF PutFails, At
  <2>2. /\ \A x \in Threads : x # t => th'[x] = th[x]
        /\ hot' = hot /\ torn' = torn \cup {Block(t)}
    BY <1>0, <1>4, FinishReads DEF PutFails, tiers
  <2>3. \A h \in Chunks : Writing(t, h) => h = Block(t)
    BY <2>1 DEF Writing, At
  <2> QED BY <1>0, <2>2, <2>3, MoveHot
<1>5. ASSUME NEW t \in Threads, ForkStep(t), ~WarmCreate(t), ~Warm(t), ~GetFails(t)
      PROVE  HotInv'
  <2>1. /\ UNCHANGED <<hot, torn>>
        /\ th[t].op \notin {"write", "warm"}
    BY <1>5 DEF ForkStep, OpenTmp, GetHot, GetCold, Replace, ReplaceFails, Load, Getting,
                At, tiers, history
  <2>2. \A x \in Threads : x # t => th'[x] = th[x]
    BY <1>0, <1>5 DEF ForkStep, OpenTmp, GetHot, GetCold, Replace, ReplaceFails, Load,
                Goto, Advance, Finish, TypeOK
  <2>3. \A h \in Chunks : ~Writing(t, h)
    BY <2>1 DEF Writing, At
  <2> QED BY <1>0, <2>1, <2>2, <2>3, MoveHot
<1>6. ASSUME NEW t \in Threads, WarmCreate(t) PROVE HotInv'
  <2>1. th[t].op = "fetched" /\ Wanted(t) \in Chunks
    BY <1>6, WantedTyped DEF WarmCreate, At
  <2>2. /\ \A x \in Threads : x # t => th'[x] = th[x]
        /\ th'[t].op = "warm" /\ th'[t].sid = th[t].sid /\ th'[t].pos = th[t].pos
        /\ \A h \in Chunks : hot'[h] = IF h = Wanted(t) THEN "empty" ELSE hot[h]
        /\ torn' = torn /\ manifest' = manifest
    BY <1>0, <1>6, <2>1, GotoReads DEF WarmCreate, Ops, history, snaps
  <2>3. \A h \in Chunks : ~Writing(t, h)
    BY <2>1 DEF Writing, At
  <2>4. ASSUME NEW h \in Chunks, hot'[h] = "empty"
        PROVE  (hot[h] = "empty" /\ ~Writing(t, h)) \/ Writing(t, h)'
    <3>1. CASE h = Wanted(t)
      <4>1. th'[t].op = "warm" /\ manifest'[th'[t].sid][th'[t].pos] = h
        BY <2>2, <3>1 DEF Wanted
      <4> QED BY <4>1 DEF Writing, At, Wanted
    <3>2. CASE h # Wanted(t)
      BY <2>2, <2>3, <2>4, <3>2
    <3> QED BY <3>1, <3>2
  <2> QED BY <1>0, <2>2, <2>4, MoveHot
<1>7. ASSUME NEW t \in Threads, Warm(t) PROVE HotInv'
  <2>1. th[t].op = "warm" /\ Wanted(t) \in Chunks /\ th[t].pos <= MaxBlocks
    BY <1>7, WantedTyped DEF Warm, At
  <2>2. /\ \A x \in Threads : x # t => th'[x] = th[x]
        /\ \A h \in Chunks : hot'[h] = IF h = Wanted(t) THEN "whole" ELSE hot[h]
        /\ torn' = torn
    BY <1>0, <1>7, <2>1, AdvanceReads DEF Warm, Ops, history
  <2>3. \A h \in Chunks : Writing(t, h) => h = Wanted(t)
    BY <2>1 DEF Writing, At
  <2> QED BY <1>0, <2>2, <2>3, MoveHot
<1>8. ASSUME NEW t \in Threads, GetFails(t) PROVE HotInv'
  <2>1. th[t].op \in {"get", "warm"}
    BY <1>8 DEF GetFails, Getting, At
  <2>2. /\ \A x \in Threads : x # t => th'[x] = th[x]
        /\ hot' = hot
        /\ torn' = IF th[t].op = "warm" THEN torn \cup {Wanted(t)} ELSE torn
    BY <1>0, <1>8, FinishReads DEF GetFails, tiers, At
  <2>3. \A h \in Chunks : Writing(t, h) => h \in torn'
    BY <2>1, <2>2 DEF Writing, At
  <2> QED BY <1>0, <2>2, <2>3, MoveHot
<1>9. ASSUME NEW t \in Threads, NEW s \in Snaps,
             StartFork(t, s) \/ \E im \in Images : StartStore(t, s, im)
      PROVE  HotInv'
  <2>1. th[t].op = "idle" /\ UNCHANGED <<hot, torn>>
    BY <1>9 DEF StartStore, StartFork, At, tiers, history
  <2>2. \A x \in Threads : x # t => th'[x] = th[x]
    BY <1>0, <1>9 DEF StartStore, StartFork, TypeOK
  <2>3. \A h \in Chunks : ~Writing(t, h)
    BY <2>1 DEF Writing, At
  <2> QED BY <1>0, <2>1, <2>2, <2>3, MoveHot
<1>10. CASE Crash
  BY <1>10, CrashReads DEF HotInv, Crash, tiers
<1>11. CASE DropHotCache
  BY <1>11 DEF DropHotCache, HotInv
<1>12. CASE UNCHANGED vars
  BY <1>12 DEF vars, HotInv, Writing, At, Block, Wanted, tiers, snaps, history
<1> QED BY <1>1, <1>2, <1>3, <1>4, <1>5, <1>6, <1>7, <1>8, <1>9, <1>10, <1>11, <1>12
        DEF Next

-----------------------------------------------------------------------------
(* Reconstructed images. *)

LEMMA OwnerFacts ==
  ASSUME ControlInv, InodeInv, NEW n \in Inodes, NEW s \in Snaps, Belongs(n, s)
  PROVE  /\ s \in rows /\ image[s] \in Images /\ manifest[s] = image[s]
         /\ Len(image[s]) \in 1..MaxBlocks /\ MaxBlocks \in Nat
<1>1. n # None
  BY StoreAssumption
<1>2. ASSUME NEW t \in Threads, th[t].fd = n, th[t].sid = s PROVE s \in rows
  BY <1>1, <1>2 DEF ControlInv, Control, Rebuild, ForkOps
<1>3. s \in rows
  BY <1>1, <1>2 DEF Belongs, InodeInv
<1>4. manifest[s] \in Images /\ manifest[s] = image[s]
  BY <1>3, ImageFacts DEF ControlInv, Recorded
<1> QED BY <1>3, <1>4, ImageFacts

(* A thread with a descriptor makes its inode its snapshot's. *)
LEMMA RebuildOwns ==
  ASSUME ControlInv, NEW t \in Threads, th[t].op \in Rebuild
  PROVE  th[t].fd \in Inodes /\ th[t].sid \in Snaps /\ Belongs(th[t].fd, th[t].sid)
  BY DEF ControlInv, Control, Belongs, Rebuild

(* What a step that leaves the files alone may do to a thread. *)
KeepsFile(t) ==
  \/ /\ th'[t].fd = None /\ th'[t].op \notin Rebuild
     /\ th'[t].op = "open" => th'[t].pos = 1
     /\ th'[t].op = "load" => mem[th'[t].sid] # None
  \/ /\ th'[t].op \in Rebuild /\ th[t].op \in Rebuild
     /\ th'[t].fd = th[t].fd /\ th'[t].sid = th[t].sid /\ th'[t].pos = th[t].pos
  \/ th'[t] = th[t]

LEMMA FrameFiles ==
  ASSUME ControlInv, ControlInv', Grow, InodeInv, LoneInv,
         UNCHANGED <<mem, tmp, data, shared>>,
         \A t \in Threads : KeepsFile(t)
  PROVE  InodeInv' /\ LoneInv'
<1>0. None \notin Inodes
  BY StoreAssumption
<1>1. ASSUME NEW n \in Inodes, NEW s \in Snaps, Belongs(n, s)' PROVE Belongs(n, s)
  BY <1>0, <1>1 DEF Belongs, KeepsFile
<1>2. ASSUME NEW n \in Inodes, NEW s \in Snaps, Belongs(n, s)
      PROVE  image'[s] = image[s]
  BY <1>2, OwnerFacts DEF Grow
<1>3. InodeInv'
  BY <1>1, <1>2 DEF InodeInv, Grow
<1>4. \A t \in Threads : /\ At(t, "open")' => th'[t].pos = 1
                         /\ At(t, "load")' => mem'[th'[t].sid] # None
  BY DEF LoneInv, KeepsFile, At, Rebuild
<1>5. ASSUME NEW s \in Snaps \ shared' PROVE Alone(s)'
  <2>1. Alone(s)
    BY <1>5 DEF LoneInv
  <2>2. mem'[s] # None => Whole(s)'
    <3> SUFFICES ASSUME mem[s] # None PROVE Whole(s)'
      OBVIOUS
    <3>1. mem[s] \in Inodes /\ Belongs(mem[s], s)
      BY DEF ControlInv, TypeOK, Belongs
    <3> QED BY <1>2, <2>1, <3>1 DEF Alone, Whole
  <2>3. ASSUME NEW t \in Threads, th'[t].op \in Rebuild, th'[t].sid = s
        PROVE  /\ th[t].op \in Rebuild /\ th[t].sid = s
               /\ th'[t].fd = th[t].fd /\ th'[t].pos = th[t].pos
               /\ image'[s] = image[s]
    <3>1. /\ th[t].op \in Rebuild /\ th[t].sid = s
          /\ th'[t].fd = th[t].fd /\ th'[t].pos = th[t].pos
      BY <2>3 DEF KeepsFile, Rebuild
    <3> QED BY <1>2, <3>1, RebuildOwns
  <2> QED BY <2>1, <2>2, <2>3 DEF Alone
<1> QED BY <1>3, <1>4, <1>5 DEF LoneInv

LEMMA OpenFiles ==
  ASSUME ControlInv, ControlInv', InodeInv, LoneInv, NEW t \in Threads, NEW n \in Inodes,
         OpensAt(t, n)
  PROVE  InodeInv' /\ LoneInv'
<1> DEFINE r == th[t].sid
<1>0. /\ TypeOK /\ None \notin Inodes /\ th[t].op = "open"
      /\ r \in Snaps /\ r \in rows /\ th[t].pos = 1 /\ th[t].fd = None
  BY StoreAssumption
     DEF ControlInv, Control, OpensAt, At, ForkOps, Rebuild, LoneInv
<1>1. /\ \A x \in Threads : x # t => th'[x] = th[x]
      /\ th'[t].op = "get" /\ th'[t].sid = r /\ th'[t].pos = 1 /\ th'[t].fd = n
  BY <1>0, OpenReads
<1>2. /\ \A s \in Snaps : tmp'[s] = IF s = r THEN n ELSE tmp[s]
      /\ \A m \in Inodes, p \in 1..MaxBlocks :
           data'[m][p] = IF m = n THEN None ELSE data[m][p]
      /\ mem' = mem /\ rows' = rows /\ image' = image
      /\ shared' = IF Rivals(t) # {} THEN shared \cup {r} ELSE shared
  BY <1>0 DEF OpensAt, TypeOK, Blank, snaps
<1>3. /\ n # mem[r]
      /\ \A s \in Snaps : Belongs(n, s) => s = r
  <2>1. CASE tmp[r] # None
    <3>1. n = tmp[r]
      BY <2>1 DEF OpensAt, Opens
    <3>2. Belongs(n, r)
      BY <3>1 DEF Belongs
    <3> QED BY <1>0, <2>1, <3>1, <3>2 DEF InodeInv
  <2>2. CASE tmp[r] = None
    <3>1. Free(n)
      BY <2>2 DEF OpensAt, Opens
    <3> QED BY <1>0, <3>1 DEF Free, Belongs
  <2> QED BY <2>1, <2>2
<1>4. ASSUME NEW m \in Inodes, NEW s \in Snaps, Belongs(m, s)'
      PROVE  Belongs(m, s) \/ (m = n /\ s = r)
  BY <1>1, <1>2, <1>4 DEF Belongs
<1>5. InodeInv'
  <2>1. \A s \in Snaps : mem'[s] # None \/ tmp'[s] # None => s \in rows'
    BY <1>0, <1>2 DEF InodeInv
  <2>2. \A s \in Snaps : tmp'[s] # None => tmp'[s] # mem'[s]
    BY <1>2, <1>3 DEF InodeInv
  <2>3. \A m \in Inodes, q, s \in Snaps : Belongs(m, q)' /\ Belongs(m, s)' => q = s
    BY <1>3, <1>4 DEF InodeInv
  <2>4. ASSUME NEW m \in Inodes, NEW s \in Snaps, Belongs(m, s)',
               NEW p \in 1..Len(image'[s])
        PROVE  data'[m][p] \in {None, image'[s][p]}
    <3>1. Len(image[s]) \in 1..MaxBlocks /\ p \in 1..MaxBlocks
      <4>1. image[s] \in Images
        BY <1>0, <1>4, <2>4, OwnerFacts, ImageFacts DEF ControlInv, Recorded
      <4> QED BY <1>2, <2>4, <4>1, ImageFacts
    <3>2. CASE m = n
      BY <1>2, <3>1, <3>2
    <3>3. CASE m # n
      BY <1>2, <1>4, <2>4, <3>1, <3>3 DEF InodeInv
    <3> QED BY <3>2, <3>3
  <2> QED BY <2>1, <2>2, <2>3, <2>4 DEF InodeInv
<1>6. ASSUME NEW s \in Snaps \ shared' PROVE Alone(s)'
  <2>1. s \notin shared /\ Alone(s)
    BY <1>2, <1>6 DEF LoneInv
  <2>2. mem'[s] # None => Whole(s)'
    <3> SUFFICES ASSUME mem[s] # None PROVE Whole(s)'
      BY <1>2
    <3>1. mem[s] \in Inodes /\ Belongs(mem[s], s) /\ mem[s] # n
      BY <1>0, <1>3 DEF TypeOK, Belongs
    <3>2. Len(image[s]) \in 1..MaxBlocks /\ MaxBlocks \in Nat
      BY <3>1, OwnerFacts
    <3> QED BY <1>2, <2>1, <3>1, <3>2 DEF Alone, Whole
  <2>3. CASE s = r
    <3>1. \A x \in Threads : x # t => ~(th[x].op \in Rebuild /\ th[x].sid = r)
      BY <1>2, <1>6, <2>3 DEF Rivals, Rebuild
    <3>2. \A x \in Threads : th'[x].op \in Rebuild /\ th'[x].sid = s => x = t
      BY <1>1, <2>3, <3>1
    <3>3. th'[t].fd = tmp'[s]
      BY <1>0, <1>1, <1>2, <2>3
    <3>4. \A p \in 1..Len(image'[s]) : ~(p < th'[t].pos)
      BY <1>1
    <3> QED BY <2>2, <3>2, <3>3, <3>4 DEF Alone
  <2>4. CASE s # r
    <3>1. ASSUME NEW x \in Threads, th'[x].op \in Rebuild, th'[x].sid = s
          PROVE  /\ x # t /\ th[x].op \in Rebuild /\ th[x].sid = s /\ th'[x] = th[x]
                 /\ th[x].fd \in Inodes /\ th[x].fd # n
                 /\ Len(image[s]) \in 1..MaxBlocks /\ MaxBlocks \in Nat
      <4>1. x # t /\ th[x].op \in Rebuild /\ th[x].sid = s /\ th'[x] = th[x]
        BY <1>1, <2>4, <3>1
      <4>2. th[x].fd \in Inodes /\ Belongs(th[x].fd, s)
        BY <4>1, RebuildOwns
      <4> QED BY <1>3, <2>4, <4>1, <4>2, OwnerFacts
    <3> QED BY <1>2, <2>1, <2>2, <2>4, <3>1 DEF Alone
  <2> QED BY <2>3, <2>4
<1>7. \A x \in Threads : /\ At(x, "open")' => th'[x].pos = 1
                         /\ At(x, "load")' => mem'[th'[x].sid] # None
  BY <1>1, <1>2 DEF LoneInv, At
<1> QED BY <1>5, <1>6, <1>7 DEF LoneInv

LEMMA AppendFiles ==
  ASSUME ControlInv, ControlInv', InodeInv, LoneInv, NEW t \in Threads, GetHot(t) \/ Warm(t)
  PROVE  InodeInv' /\ LoneInv'
<1> DEFINE r == th[t].sid
<1>0. /\ TypeOK /\ th[t].op \in Rebuild /\ r \in Snaps /\ th[t].fd \in Inodes
      /\ Wanted(t) = image[r][th[t].pos] /\ th[t].pos <= MaxBlocks
      /\ th[t].pos \in 1..Len(image[r]) /\ Belongs(th[t].fd, r)
  BY WantedTyped, RebuildOwns DEF ControlInv, GetHot, Warm, Getting, At, Rebuild
<1>1. /\ \A x \in Threads : x # t => th'[x] = th[x]
      /\ th'[t].op = "get" /\ th'[t].sid = r /\ th'[t].pos = th[t].pos + 1
      /\ th'[t].fd = th[t].fd
  BY <1>0, AdvanceReads DEF GetHot, Warm, Ops
<1>2. \A n \in Inodes, p \in 1..MaxBlocks :
        data'[n][p] = IF n = th[t].fd /\ p = th[t].pos THEN image[r][p] ELSE data[n][p]
  BY <1>0, AppendTyped DEF GetHot, Warm
<1>3. UNCHANGED <<mem, tmp, image, rows, shared>>
  BY DEF GetHot, Warm, snaps, history
<1>4. ASSUME NEW n \in Inodes, NEW s \in Snaps, Belongs(n, s)' PROVE Belongs(n, s)
  BY <1>1, <1>3, <1>4 DEF Belongs
<1>5. ASSUME NEW n \in Inodes, NEW s \in Snaps, Belongs(n, s), NEW p \in 1..Len(image[s])
      PROVE  /\ data'[n][p] = IF n = th[t].fd /\ p = th[t].pos THEN image[s][p]
                              ELSE data[n][p]
             /\ n = th[t].fd => s = r
  <2>1. p \in 1..MaxBlocks
    BY <1>5, OwnerFacts
  <2>2. n = th[t].fd => s = r
    BY <1>0, <1>5 DEF InodeInv
  <2> QED BY <1>2, <2>1, <2>2
<1>6. InodeInv'
  BY <1>3, <1>4, <1>5 DEF InodeInv
<1>7. ASSUME NEW s \in Snaps \ shared' PROVE Alone(s)'
  <2>1. Alone(s)
    BY <1>3, <1>7 DEF LoneInv
  <2>2. mem'[s] # None => Whole(s)'
    <3> SUFFICES ASSUME mem[s] # None PROVE Whole(s)'
      BY <1>3
    <3>1. mem[s] \in Inodes /\ Belongs(mem[s], s)
      BY <1>0 DEF TypeOK, Belongs
    <3> QED BY <1>3, <1>5, <2>1, <3>1 DEF Alone, Whole
  <2>3. ASSUME NEW x \in Threads, th'[x].op \in Rebuild, th'[x].sid = s
        PROVE  /\ th[x].op \in Rebuild /\ th[x].sid = s /\ th'[x].fd = th[x].fd
               /\ \A p \in 1..Len(image[s]) : p < th'[x].pos =>
                    data'[th[x].fd][p] = image[s][p]
    <3>1. th[x].op \in Rebuild /\ th[x].sid = s /\ th'[x].fd = th[x].fd
      BY <1>0, <1>1, <2>3
    <3>2. th[x].fd \in Inodes /\ Belongs(th[x].fd, s)
      BY <3>1, RebuildOwns
    <3>3. \A p \in 1..Len(image[s]) : p < th[x].pos => data[th[x].fd][p] = image[s][p]
      BY <2>1, <3>1 DEF Alone
    <3>4. ASSUME NEW p \in 1..Len(image[s]), p < th'[x].pos
          PROVE  data'[th[x].fd][p] = image[s][p]
      <4>1. CASE x = t
        BY <1>0, <1>1, <1>5, <3>2, <3>3, <3>4, <4>1
      <4>2. CASE x # t
        BY <1>1, <1>5, <3>2, <3>3, <3>4, <4>2
      <4> QED BY <4>1, <4>2
    <3> QED BY <3>1, <3>4
  <2> QED BY <1>3, <2>1, <2>2, <2>3 DEF Alone
<1>8. \A x \in Threads : /\ At(x, "open")' => th'[x].pos = 1
                         /\ At(x, "load")' => mem'[th'[x].sid] # None
  BY <1>1, <1>3 DEF LoneInv, At
<1> QED BY <1>6, <1>7, <1>8 DEF LoneInv

LEMMA ReplaceFiles ==
  ASSUME ControlInv, ControlInv', InodeInv, LoneInv, NEW t \in Threads, Replace(t)
  PROVE  InodeInv' /\ LoneInv'
<1> DEFINE r == th[t].sid
<1>0. /\ TypeOK /\ None \notin Inodes /\ th[t].op = "get" /\ th[t].op \in Rebuild
      /\ r \in Snaps /\ r \in rows /\ tmp[r] # None
      /\ th[t].pos > Len(manifest[r])
  BY StoreAssumption DEF ControlInv, Control, Replace, At, ForkOps, Rebuild
<1>1. /\ \A x \in Threads : x # t => th'[x] = th[x]
      /\ th'[t].op = "load" /\ th'[t].sid = r /\ th'[t].fd = None
  BY <1>0, ReplaceReads
<1>2. /\ \A s \in Snaps : mem'[s] = IF s = r THEN tmp[r] ELSE mem[s]
      /\ \A s \in Snaps : tmp'[s] = IF s = r THEN None ELSE tmp[s]
      /\ UNCHANGED <<image, rows, data, shared>>
  BY <1>0 DEF Replace, TypeOK, snaps, history
<1>3. ASSUME NEW n \in Inodes, NEW s \in Snaps, Belongs(n, s)' PROVE Belongs(n, s)
  BY <1>0, <1>1, <1>2, <1>3 DEF Belongs
<1>4. InodeInv'
  <2>1. \A s \in Snaps : mem'[s] # None \/ tmp'[s] # None => s \in rows'
    BY <1>0, <1>2 DEF InodeInv
  <2>2. \A s \in Snaps : tmp'[s] # None => tmp'[s] # mem'[s]
    BY <1>2 DEF InodeInv
  <2>3. \A n \in Inodes, q, s \in Snaps : Belongs(n, q)' /\ Belongs(n, s)' => q = s
    BY <1>3 DEF InodeInv
  <2>4. \A n \in Inodes, s \in Snaps : Belongs(n, s)' =>
          \A p \in 1..Len(image'[s]) : data'[n][p] \in {None, image'[s][p]}
    BY <1>2, <1>3 DEF InodeInv
  <2> QED BY <2>1, <2>2, <2>3, <2>4 DEF InodeInv
<1>5. ASSUME NEW s \in Snaps \ shared' PROVE Alone(s)'
  <2>1. Alone(s)
    BY <1>2, <1>5 DEF LoneInv
  <2>2. CASE s = r
    <3>1. /\ th[t].fd = tmp[r]
          /\ \A p \in 1..Len(image[r]) : p < th[t].pos => data[th[t].fd][p] = image[r][p]
          /\ \A x \in Threads : th[x].op \in Rebuild /\ th[x].sid = r => x = t
      BY <1>0, <2>1, <2>2 DEF Alone
    <3>2. manifest[r] = image[r] /\ Len(image[r]) \in Nat /\ th[t].pos \in Nat
      <4>1. manifest[r] \in Images /\ manifest[r] = image[r]
        BY <1>0, ImageFacts DEF ControlInv, Recorded
      <4> QED BY <1>0, <4>1, ImageFacts DEF TypeOK, Thread
    <3>3. \A p \in 1..Len(image[r]) : data[tmp[r]][p] = image[r][p]
      BY <1>0, <3>1, <3>2
    <3>4. Whole(s)'
      BY <1>0, <1>2, <2>2, <3>3 DEF Whole
    <3>5. \A x \in Threads : ~(th'[x].op \in Rebuild /\ th'[x].sid = r)
      BY <1>1, <3>1 DEF Rebuild
    <3> QED BY <2>2, <3>4, <3>5 DEF Alone
  <2>3. CASE s # r
    <3>1. mem'[s] # None => Whole(s)'
      BY <1>2, <2>1, <2>3 DEF Alone, Whole
    <3>2. \A x \in Threads : th'[x].op \in Rebuild /\ th'[x].sid = s =>
            th'[x] = th[x]
      BY <1>1, <2>3
    <3> QED BY <1>2, <2>1, <2>3, <3>1, <3>2 DEF Alone
  <2> QED BY <2>2, <2>3
<1>6. \A x \in Threads : /\ At(x, "open")' => th'[x].pos = 1
                         /\ At(x, "load")' => mem'[th'[x].sid] # None
  BY <1>0, <1>1, <1>2 DEF LoneInv, At, ControlInv, Control
<1> QED BY <1>4, <1>5, <1>6 DEF LoneInv

LEMMA FilesStep ==
  ASSUME ControlInv, InodeInv, LoneInv, [Next]_vars
  PROVE  InodeInv' /\ LoneInv'
<1>0. ControlInv' /\ Grow /\ TypeOK
  BY ControlStep DEF ControlInv
<1>1. ASSUME NEW t \in Threads, OpenTmp(t) PROVE InodeInv' /\ LoneInv'
  <2>1. PICK n \in Inodes : OpensAt(t, n)
    BY <1>1 DEF OpenTmp, OpensAt
  <2> QED BY <1>0, <2>1, OpenFiles
<1>2. ASSUME NEW t \in Threads, GetHot(t) \/ Warm(t) PROVE InodeInv' /\ LoneInv'
  BY <1>0, <1>2, AppendFiles
<1>3. ASSUME NEW t \in Threads, Replace(t) PROVE InodeInv' /\ LoneInv'
  BY <1>0, <1>3, ReplaceFiles
<1>4. ASSUME NEW t \in Threads, GetCold(t) \/ WarmCreate(t) PROVE InodeInv' /\ LoneInv'
  <2>1. /\ \A x \in Threads : x # t => th'[x] = th[x]
        /\ th'[t].op \in Rebuild /\ th[t].op \in Rebuild
        /\ th'[t].fd = th[t].fd /\ th'[t].sid = th[t].sid /\ th'[t].pos = th[t].pos
    BY <1>0, <1>4, GotoReads DEF GetCold, WarmCreate, Getting, At, Ops, Rebuild
  <2>2. UNCHANGED <<mem, tmp, data, shared>>
    BY <1>4 DEF GetCold, WarmCreate, files, history
  <2> QED BY <1>0, <2>1, <2>2, FrameFiles DEF KeepsFile
<1>5. ASSUME NEW t \in Threads, GetFails(t) \/ ReplaceFails(t) \/ Load(t)
      PROVE  InodeInv' /\ LoneInv'
  <2>1. th'[t] = Idle /\ \A x \in Threads : x # t => th'[x] = th[x]
    BY <1>0, <1>5, FinishReads DEF GetFails, ReplaceFails, Load
  <2>2. UNCHANGED <<mem, tmp, data, shared>>
    BY <1>5 DEF GetFails, ReplaceFails, Load, files, history
  <2> QED BY <1>0, <2>1, <2>2, FrameFiles DEF KeepsFile, Idle, Rebuild
<1>6. ASSUME NEW t \in Threads, StoreStep(t) PROVE InodeInv' /\ LoneInv'
  <2>1. /\ UNCHANGED <<mem, tmp, data, shared>>
        /\ th[t].op \in StoreOps
    BY <1>6 DEF StoreStep, AcquireStore, PutKnown, PutHot, PutCreate, PutWrite, PutFails,
                FlushNothing, FlushStart, FlushEnd, Upload, UploadFails, CancelUploads, WriteManifest,
                CommitRow, At, StoreOps, files, history
  <2>2. \A x \in Threads : x # t => th'[x] = th[x]
    BY <1>0, <1>6 DEF StoreStep, AcquireStore, PutKnown, PutHot, PutCreate, PutWrite,
                PutFails, FlushNothing, FlushStart, FlushEnd, Upload, UploadFails, CancelUploads,
                WriteManifest, CommitRow, Goto, Advance, Finish, TypeOK
  <2>3. th'[t].op \in StoreOps \cup {"idle"}
    <3>1. CASE PutFails(t) \/ CommitRow(t)
      BY <1>0, <3>1, FinishReads DEF PutFails, CommitRow, Idle
    <3>2. CASE PutKnown(t) \/ PutHot(t) \/ PutWrite(t)
      BY <1>0, <3>2 DEF PutKnown, PutHot, PutWrite, Advance, TypeOK, Thread, StoreOps
    <3>3. CASE AcquireStore(t) \/ PutCreate(t) \/ FlushNothing(t) \/ WriteManifest(t)
      BY <1>0, <3>3, GotoReads DEF AcquireStore, PutCreate, FlushNothing, WriteManifest,
                                   StoreOps, Ops
    <3>4. CASE FlushStart(t)
      BY <1>0, <3>4 DEF FlushStart, TypeOK, Thread, StoreOps
    <3>5. ASSUME NEW h \in Chunks, Upload(t, h) PROVE th'[t].op = "upload"
      BY <1>0, <3>5 DEF Upload, TypeOK, Thread, At
    <3>6. ASSUME NEW h \in Chunks, UploadFails(t, h) PROVE th'[t].op = "upload"
      BY <1>0, <3>6 DEF UploadFails, TypeOK, Thread, At
    <3>8. ASSUME NEW C \in SUBSET Chunks, CancelUploads(t, C) PROVE th'[t].op = "upload"
      BY <1>0, <3>8 DEF CancelUploads, TypeOK, Thread, At
    <3>7. CASE FlushEnd(t)
      BY <1>0, <3>7, GotoReads, FinishReads DEF FlushEnd, Idle, StoreOps, Ops
    <3> QED BY <1>6, <3>1, <3>2, <3>3, <3>4, <3>5, <3>6, <3>7, <3>8 DEF StoreStep, StoreOps
  <2>4. th'[t].fd = None
    BY <1>0, <2>3 DEF ControlInv, Control, StoreOps, Rebuild
  <2> QED BY <1>0, <2>1, <2>2, <2>3, <2>4, FrameFiles DEF KeepsFile, StoreOps, Rebuild
<1>7. ASSUME NEW t \in Threads, NEW s \in Snaps, NEW im \in Images, StartStore(t, s, im)
      PROVE  InodeInv' /\ LoneInv'
  <2>1. /\ \A x \in Threads : x # t => th'[x] = th[x]
        /\ th'[t].op = "lock" /\ th'[t].fd = None
    BY <1>0, <1>7, StartStoreReads
  <2>2. UNCHANGED <<mem, tmp, data, shared>>
    BY <1>7 DEF StartStore, files, history
  <2> QED BY <1>0, <2>1, <2>2, FrameFiles DEF KeepsFile, Rebuild
<1>8. ASSUME NEW t \in Threads, NEW s \in Snaps, StartFork(t, s)
      PROVE  InodeInv' /\ LoneInv'
  <2>1. /\ \A x \in Threads : x # t => th'[x] = th[x]
        /\ th'[t].op = IF mem[s] # None THEN "load" ELSE "open"
        /\ th'[t].sid = s /\ th'[t].fd = None /\ th'[t].pos = 1
    BY <1>0, <1>8, StartForkReads
  <2>2. UNCHANGED <<mem, tmp, data, shared>>
    BY <1>8 DEF StartFork, files, history
  <2> QED BY <1>0, <2>1, <2>2, FrameFiles DEF KeepsFile, Rebuild
<1>9. CASE Crash
  <2>1. \A t \in Threads : th'[t] = Idle
    BY <1>9 DEF Crash
  <2>2. UNCHANGED <<mem, tmp, data, shared>>
    BY <1>9 DEF Crash, files
  <2> QED BY <1>0, <2>1, <2>2, FrameFiles DEF KeepsFile, Idle, Rebuild
<1>10. CASE DropHotCache \/ UNCHANGED vars
  <2>1. UNCHANGED <<mem, tmp, data, shared, th>>
    BY <1>10 DEF DropHotCache, vars, files, history
  <2> QED BY <1>0, <2>1, FrameFiles DEF KeepsFile
<1> QED BY <1>1, <1>2, <1>3, <1>4, <1>5, <1>6, <1>7, <1>8, <1>9, <1>10 DEF Next, ForkStep

-----------------------------------------------------------------------------
StoreInv == ControlInv /\ KeptInv /\ HotInv /\ InodeInv /\ LoneInv

LEMMA InitStore == Init => StoreInv
<1> SUFFICES ASSUME Init PROVE StoreInv
  OBVIOUS
<1>1. ControlInv
  BY InitControl
<1>2. KeptInv
  BY DEF Init, KeptInv, PutSoFar, At, Idle, Locked
<1>3. HotInv
  BY DEF Init, HotInv
<1>4. InodeInv
  BY StoreAssumption DEF Init, InodeInv, Belongs, Idle
<1>5. LoneInv
  BY DEF Init, LoneInv, Alone, At, Idle, Rebuild
<1> QED BY <1>1, <1>2, <1>3, <1>4, <1>5 DEF StoreInv

LEMMA StoreInvStep == StoreInv /\ [Next]_vars => StoreInv'
  BY ControlStep, KeptStep, HotStep, FilesStep DEF StoreInv

LEMMA StoreInvariant == Spec => []StoreInv
  BY InitStore, StoreInvStep, PTL DEF Spec

(* Every variable keeps its type, in every instance. *)
THEOREM TypeCorrect == Spec => []TypeOK
  BY StoreInvariant, PTL DEF StoreInv, ControlInv

(***************************************************************************)
(* A chunk of a published manifest is in the bucket unless its own write   *)
(* raised once or its upload was cancelled with those of a flush that      *)
(* failed, however often the daemon is killed between the local file, the  *)
(* upload and the manifest.                                                *)
(***************************************************************************)
THEOREM MissingHasFailed == Spec => []MissingMeansFailed
<1>1. StoreInv => MissingMeansFailed
  BY DEF StoreInv, KeptInv, Kept, MissingMeansFailed, Listed
<1> QED BY <1>1, StoreInvariant, PTL

(***************************************************************************)
(* A chunk of a published manifest can be read, now or as soon as the      *)
(* thread that writes its file is done, unless a kill or an error left its *)
(* file empty or its upload raised or was cancelled.                       *)
(***************************************************************************)
THEOREM UnreadableIsTorn == Spec => []UnreadableMeansTorn
<1>1. ASSUME StoreInv PROVE UnreadableMeansTorn
  <2> SUFFICES ASSUME NEW s \in Snaps, NEW p \in 1..Len(manifest[s])
               PROVE  Readable(manifest[s][p]) \/ manifest[s][p] \in lost \cup torn
    BY DEF UnreadableMeansTorn, Listed
  <2> DEFINE h == manifest[s][p]
  <2>1. manifest[s] \in Images
    BY <1>1 DEF StoreInv, ControlInv, TypeOK
  <2>2. h \in Chunks /\ Kept(h)
    BY <1>1, <2>1, ImageFacts DEF StoreInv, KeptInv
  <2>3. hot[h] \in {"none", "empty", "whole"}
    BY <1>1, <2>2 DEF StoreInv, ControlInv, TypeOK
  <2>4. CASE hot[h] = "empty"
    BY <1>1, <2>2, <2>4 DEF StoreInv, HotInv, Writing, Readable, At
  <2>5. CASE hot[h] = "none"
    BY <2>2, <2>5 DEF Kept, Readable
  <2> QED BY <2>3, <2>4, <2>5 DEF Readable
<1> QED BY <1>1, StoreInvariant, PTL

(***************************************************************************)
(* An image never holds a block of another snapshot, even when two threads *)
(* share mem.tmp: every inode belongs to one snapshot.                     *)
(***************************************************************************)
THEOREM BlocksAreOwn == Spec => []NoForeignBlocks
<1>1. StoreInv => NoForeignBlocks
  BY DEF StoreInv, ControlInv, TypeOK, InodeInv, Belongs, NoForeignBlocks
<1> QED BY <1>1, StoreInvariant, PTL

(***************************************************************************)
(* The image a fork loads is the captured one, all of it, unless two       *)
(* threads have reconstructed it at once.                                  *)
(***************************************************************************)
THEOREM LoneForksLoadWhole == Spec => LoneForkLoadsWholeImage
<1>1. ASSUME StoreInv, NEW t \in Threads, Load(t)
      PROVE  Whole(th[t].sid) \/ th[t].sid \in shared
  <2>1. th[t].sid \in Snaps /\ mem[th[t].sid] # None
    BY <1>1 DEF StoreInv, ControlInv, Control, LoneInv, Load, At
  <2> QED BY <1>1, <2>1 DEF StoreInv, LoneInv, Alone
<1>2. StoreInv => [\A t \in Threads : Load(t) => Whole(th[t].sid) \/ th[t].sid \in shared]_vars
  BY <1>1
<1> QED BY <1>2, StoreInvariant, PTL DEF LoneForkLoadsWholeImage

-----------------------------------------------------------------------------
(***************************************************************************)
(* Chunking.  The recursions of the model (sums, the flattened manifest,   *)
(* the loop over the bytes) are handled by least counterexamples: a set P  *)
(* that holds the first index, and each index whose predecessor it holds,  *)
(* holds the interval.                                                     *)
(***************************************************************************)

(* A set of naturals has a least element. *)
LEMMA LeastNat ==
  ASSUME NEW T \in SUBSET Nat, T # {}
  PROVE  \E m \in T : \A k \in T : m <= k
<1> DEFINE R == {p \in Nat \X Nat : p[1] < p[2]}
<1>1. IsWellFoundedOn(R, Nat)
  BY NatLessThanWellFounded, Zenon DEF OpToRel
<1>2. PICK m \in T : \A k \in T : <<k, m>> \notin R
  <2> HIDE DEF R
  <2> QED BY <1>1, WFMin, Zenon
<1>3. ASSUME NEW k \in T PROVE m <= k
  <2>1. ~(k < m)
    BY <1>2
  <2> QED BY <2>1
<1> QED BY <1>3

(* Induction over an interval. *)
LEMMA IntervalInduction ==
  ASSUME NEW lo \in Nat, NEW n \in Nat, NEW P, lo \in P,
         \A i \in lo..n : i > lo /\ i - 1 \in P => i \in P
  PROVE  lo..n \subseteq P
<1> DEFINE T == (lo..n) \ P
<1> SUFFICES ASSUME T # {} PROVE FALSE
  OBVIOUS
<1>1. PICK m \in T : \A k \in T : m <= k
  <2>1. T \in SUBSET Nat
    OBVIOUS
  <2> HIDE DEF T
  <2> QED BY <2>1, LeastNat
<1>2. m \in lo..n /\ m > lo /\ m - 1 \in lo..n /\ m \notin P
  BY <1>1
<1>3. m - 1 \in P
  <2>1. ~(m <= m - 1)
    BY <1>2
  <2>2. m - 1 \notin T
    BY <1>1, <2>1
  <2> QED BY <1>2, <2>2
<1> QED BY <1>2, <1>3

(* g solves the recursion that starts with base and goes on with F. *)
Solves(g, lo, n, V, base, F) ==
  /\ g \in [lo..n -> V]
  /\ g[lo] = base
  /\ \A i \in lo..n : i > lo => g[i] = F[i][g[i - 1]]

(* A recursion over an interval has a solution. *)
LEMMA RecursionDefined ==
  ASSUME NEW lo \in Nat, NEW n \in Nat, lo <= n, NEW V, NEW base \in V,
         NEW F \in [lo..n -> [V -> V]]
  PROVE  \E g : Solves(g, lo, n, V, base, F)
<1> DEFINE Sol(g, k) == /\ g \in [lo..k -> V] /\ g[lo] = base
                        /\ \A i \in lo..k : i > lo => g[i] = F[i][g[i - 1]]
           P == {k \in lo..n : \E g : Sol(g, k)}
<1>1. lo \in P
  <2> DEFINE g == [i \in lo..lo |-> base]
  <2>1. Sol(g, lo)
    OBVIOUS
  <2> HIDE DEF Sol, g
  <2> QED BY <2>1
<1>2. ASSUME NEW m \in lo..n, m > lo, m - 1 \in P PROVE m \in P
  <2>1. PICK g : Sol(g, m - 1)
    BY <1>2
  <2> DEFINE v == F[m][g[m - 1]]
             h == [i \in lo..m |-> IF i = m THEN v ELSE g[i]]
  <2>2. v \in V
    <3>1. g[m - 1] \in V
      BY <1>2, <2>1
    <3> QED BY <1>2, <3>1
  <2>3. h \in [lo..m -> V] /\ h[lo] = base
    <3> HIDE DEF v
    <3> QED BY <1>2, <2>1, <2>2
  <2>4. ASSUME NEW i \in lo..m, i > lo PROVE h[i] = F[i][h[i - 1]]
    <3>1. i - 1 \in lo..m /\ i - 1 # m /\ i - 1 \in lo..(m - 1)
      BY <2>4
    <3>2. h[i - 1] = g[i - 1]
      BY <3>1
    <3>3. CASE i = m
      BY <3>2, <3>3
    <3>4. CASE i # m
      <4>1. i \in lo..(m - 1) /\ h[i] = g[i]
        BY <3>4
      <4>2. g[i] = F[i][g[i - 1]]
        BY <2>1, <2>4, <4>1
      <4> HIDE DEF h
      <4> QED BY <3>2, <4>1, <4>2
    <3> QED BY <3>3, <3>4
  <2>5. Sol(h, m)
    <3> HIDE DEF h
    <3> QED BY <2>3, <2>4
  <2> HIDE DEF Sol
  <2> QED BY <2>5
<1>3. n \in P
  <2>1. \A i \in lo..n : i > lo /\ i - 1 \in P => i \in P
    <3> HIDE DEF P
    <3> QED BY <1>2
  <2>2. n \in lo..n
    OBVIOUS
  <2> HIDE DEF P
  <2> QED BY <1>1, <2>1, <2>2, IntervalInduction
<1>4. PICK g : Sol(g, n)
  BY <1>3
<1> QED BY <1>4 DEF Solves

(* ... and only one. *)
Agree(t, g, lo, n) == \A i \in lo..n : t[i] = g[i]

StepsAgree(t, g, lo, n) ==
  /\ t[lo] = g[lo]
  /\ \A i \in lo..n : i > lo /\ t[i - 1] = g[i - 1] => t[i] = g[i]

LEMMA RecursionUnique ==
  ASSUME NEW lo \in Nat, NEW n \in Nat, NEW g, NEW t, StepsAgree(t, g, lo, n)
  PROVE  Agree(t, g, lo, n)
<1> DEFINE P == {i \in Nat : t[i] = g[i]}
<1>1. lo \in P /\ \A i \in lo..n : i > lo /\ i - 1 \in P => i \in P
  BY DEF StepsAgree
<1>2. lo..n \subseteq P
  <2> HIDE DEF P
  <2> QED BY <1>1, IntervalInduction
<1> QED BY <1>2 DEF Agree

-----------------------------------------------------------------------------
(* Sums *)

(* The table that Total reads. *)
TotalTable(f, n) ==
  CHOOSE sum : sum = [k \in 0..n |-> IF k = 0 THEN 0 ELSE sum[k - 1] + f[k]]

AreNat(f, n) == \A k \in 1..n : f[k] \in Nat

IsTotals(t, f, n) ==
  /\ t \in [0..n -> Nat] /\ t[0] = 0
  /\ \A k \in 0..n : k > 0 => t[k] = t[k - 1] + f[k]

(* Total has the values its recursion says. *)
LEMMA TotalIs ==
  ASSUME NEW n \in Nat, NEW f, AreNat(f, n)
  PROVE  Total(f, n) = TotalTable(f, n)[n] /\ IsTotals(TotalTable(f, n), f, n)
<1> DEFINE Eq(t) == t = [k \in 0..n |-> IF k = 0 THEN 0 ELSE t[k - 1] + f[k]]
           t == TotalTable(f, n)
           F == [i \in 0..n |-> [v \in Nat |-> IF i = 0 THEN 0 ELSE v + f[i]]]
<1>1. Total(f, n) = t[n]
  BY DEF Total, TotalTable
<1>2. \A k \in 0..n : k > 0 => f[k] \in Nat
  BY DEF AreNat
<1>3. F \in [0..n -> [Nat -> Nat]]
  BY <1>2
<1>4. PICK g \in [0..n -> Nat] :
        g[0] = 0 /\ \A i \in 0..n : i > 0 => g[i] = F[i][g[i - 1]]
  <2>1. 0 \in Nat /\ 0 <= n
    OBVIOUS
  <2> HIDE DEF F
  <2>2. \E g : Solves(g, 0, n, Nat, 0, F)
    BY <1>3, <2>1, RecursionDefined, Zenon
  <2> QED BY <2>2 DEF Solves
<1>5. ASSUME NEW i \in 0..n, i > 0 PROVE g[i] = g[i - 1] + f[i]
  <2>1. i - 1 \in 0..n /\ i # 0
    BY <1>5
  <2>2. g[i - 1] \in Nat
    BY <1>4, <2>1
  <2>3. g[i] = F[i][g[i - 1]]
    BY <1>4, <1>5
  <2> QED BY <2>1, <2>2, <2>3
<1>6. Eq(g)
  BY <1>4, <1>5
<1>7. Eq(t)
  BY <1>6 DEF TotalTable
<1> HIDE DEF t
<1>8. /\ t[0] = 0 /\ DOMAIN t = 0..n
      /\ \A i \in 0..n : i > 0 => t[i] = t[i - 1] + f[i]
  BY <1>7
<1>9. \A i \in 0..n : t[i] = g[i]
  <2>1. t[0] = g[0] /\ 0 \in Nat
    BY <1>4, <1>8
  <2>2. \A i \in 0..n : i > 0 /\ t[i - 1] = g[i - 1] => t[i] = g[i]
    BY <1>5, <1>8
  <2>3. StepsAgree(t, g, 0, n)
    BY <2>1, <2>2 DEF StepsAgree
  <2>4. Agree(t, g, 0, n)
    BY <2>1, <2>3, RecursionUnique, Zenon
  <2> QED BY <2>4 DEF Agree
<1>10. t \in [0..n -> Nat]
  BY <1>7, <1>9
<1> QED BY <1>1, <1>8, <1>10 DEF t, IsTotals

(* A sum depends on its terms alone. *)
LEMMA TotalAgree ==
  ASSUME NEW n \in Nat, NEW f, NEW m \in Nat, NEW g, m <= n, AreNat(f, n),
         \A k \in 1..m : g[k] = f[k]
  PROVE  Total(g, m) = TotalTable(f, n)[m]
<1> DEFINE t == TotalTable(f, n)
           u == TotalTable(g, m)
<1>1. AreNat(g, m)
  BY DEF AreNat
<1>2. IsTotals(t, f, n)
  BY TotalIs
<1>3. Total(g, m) = u[m] /\ IsTotals(u, g, m)
  BY <1>1, TotalIs
<1> HIDE DEF t, u
<1>4. StepsAgree(u, t, 0, m)
  BY <1>2, <1>3 DEF IsTotals, StepsAgree
<1>5. Agree(u, t, 0, m)
  <2>1. 0 \in Nat
    OBVIOUS
  <2> QED BY <1>4, <2>1, RecursionUnique, Zenon
<1>6. m \in 0..m
  OBVIOUS
<1> QED BY <1>3, <1>5, <1>6 DEF Agree, t

LEMMA TotalSame ==
  ASSUME NEW n \in Nat, NEW f, NEW g, AreNat(f, n), \A k \in 1..n : g[k] = f[k]
  PROVE  Total(g, n) = Total(f, n)
BY TotalAgree, TotalIs

LEMMA TotalZero == ASSUME NEW f PROVE Total(f, 0) = 0
<1>1. AreNat(f, 0)
  BY DEF AreNat
<1> QED BY <1>1, TotalIs DEF IsTotals

LEMMA TotalType ==
  ASSUME NEW n \in Nat, NEW f, AreNat(f, n) PROVE Total(f, n) \in Nat
BY TotalIs DEF IsTotals

(* A sum grows by its last term. *)
LEMMA TotalNext ==
  ASSUME NEW n \in Nat, n > 0, NEW f, AreNat(f, n), NEW g, \A k \in 1..(n - 1) : g[k] = f[k]
  PROVE  Total(f, n) = Total(g, n - 1) + f[n]
<1> DEFINE t == TotalTable(f, n)
<1>1. Total(f, n) = t[n] /\ IsTotals(t, f, n)
  BY TotalIs
<1>2. Total(g, n - 1) = t[n - 1]
  BY TotalAgree
<1> HIDE DEF t
<1> QED BY <1>1, <1>2 DEF IsTotals

-----------------------------------------------------------------------------
(* Sequences of chunks *)

LEMMA SizeEmpty == Size(<< >>) = 0
BY TotalZero DEF Size

LEMMA SizeType ==
  ASSUME NEW S, NEW cs \in Seq(Seq(S)) PROVE Size(cs) \in Nat
<1> DEFINE f == [k \in 1..Len(cs) |-> Len(cs[k])]
<1>1. Len(cs) \in Nat /\ AreNat(f, Len(cs))
  BY DEF AreNat
<1> HIDE DEF f
<1>2. Total(f, Len(cs)) \in Nat
  BY <1>1, TotalType
<1> QED BY <1>2 DEF Size, f

(* One chunk more, and its bytes more. *)
LEMMA SizeAppend ==
  ASSUME NEW S, NEW cs \in Seq(Seq(S)), NEW c \in Seq(S)
  PROVE  Size(Append(cs, c)) = Size(cs) + Len(c)
<1> DEFINE n == Len(cs) + 1
           f == [k \in 1..Len(Append(cs, c)) |-> Len(Append(cs, c)[k])]
           g == [k \in 1..Len(cs) |-> Len(cs[k])]
<1>1. /\ Len(cs) \in Nat /\ n \in Nat /\ n > 0 /\ n - 1 = Len(cs)
      /\ Len(Append(cs, c)) = n /\ f[n] = Len(c)
      /\ \A k \in 1..(n - 1) : g[k] = f[k]
  OBVIOUS
<1>2. AreNat(f, n)
  BY <1>1 DEF AreNat
<1>3. Size(Append(cs, c)) = Total(f, n) /\ Size(cs) = Total(g, n - 1)
  BY <1>1 DEF Size
<1> HIDE DEF f, g, n
<1> QED BY <1>1, <1>2, <1>3, TotalNext

(* The table that FlattenSeq reads. *)
FlattenTable(s) ==
  CHOOSE flatten :
    flatten = [i \in 1..Len(s) |-> IF i = 1 THEN s[i] ELSE flatten[i - 1] \o s[i]]

IsFlattened(t, s, S) ==
  /\ t \in [1..Len(s) -> Seq(S)] /\ t[1] = s[1]
  /\ \A i \in 1..Len(s) : i > 1 => t[i] = t[i - 1] \o s[i]

(* FlattenSeq has the values its recursion says. *)
LEMMA FlattenIs ==
  ASSUME NEW S, NEW s \in Seq(Seq(S)), Len(s) > 0
  PROVE  /\ FlattenSeq(s) = FlattenTable(s)[Len(s)]
         /\ IsFlattened(FlattenTable(s), s, S)
<1> DEFINE n == Len(s)
           Put(i, v) == v \o s[i]
           Eq(t) == t = [i \in 1..n |-> IF i = 1 THEN s[i] ELSE Put(i, t[i - 1])]
           t == FlattenTable(s)
           F == [i \in 1..n |-> [v \in Seq(S) |-> Put(i, v)]]
<1>1. FlattenSeq(s) = t[n]
  BY DEF FlattenSeq, FlattenTable
<1>2. n \in Nat /\ n >= 1 /\ \A k \in 1..n : s[k] \in Seq(S)
  OBVIOUS
<1>3. F \in [1..n -> [Seq(S) -> Seq(S)]]
  BY <1>2
<1>4. PICK g \in [1..n -> Seq(S)] :
        g[1] = s[1] /\ \A i \in 1..n : i > 1 => g[i] = F[i][g[i - 1]]
  <2>1. 1 \in Nat /\ 1 <= n /\ s[1] \in Seq(S)
    BY <1>2
  <2> HIDE DEF F, n
  <2>2. \E g : Solves(g, 1, n, Seq(S), s[1], F)
    BY <1>2, <1>3, <2>1, RecursionDefined, Zenon
  <2> QED BY <2>2 DEF Solves
<1> HIDE DEF n, Put
<1>5. ASSUME NEW i \in 1..n, i > 1 PROVE g[i] = Put(i, g[i - 1])
  <2>1. i - 1 \in 1..n
    BY <1>2, <1>5
  <2>2. g[i - 1] \in Seq(S)
    BY <1>4, <2>1
  <2>3. g[i] = F[i][g[i - 1]]
    BY <1>4, <1>5
  <2> QED BY <2>2, <2>3
<1>6. Eq(g)
  BY <1>2, <1>4, <1>5
<1>7. Eq(t)
  BY <1>6 DEF FlattenTable, n, Put
<1> HIDE DEF t
<1>8. /\ t[1] = s[1] /\ DOMAIN t = 1..n
      /\ \A i \in 1..n : i > 1 => t[i] = Put(i, t[i - 1])
  BY <1>2, <1>7
<1>9. \A i \in 1..n : t[i] = g[i]
  <2>1. t[1] = g[1] /\ 1 \in Nat
    BY <1>4, <1>8
  <2>2. \A i \in 1..n : i > 1 /\ t[i - 1] = g[i - 1] => t[i] = g[i]
    BY <1>5, <1>8
  <2>3. StepsAgree(t, g, 1, n)
    BY <2>1, <2>2 DEF StepsAgree
  <2>4. Agree(t, g, 1, n)
    BY <1>2, <2>1, <2>3, RecursionUnique, Zenon
  <2> QED BY <2>4 DEF Agree
<1>10. t \in [1..n -> Seq(S)]
  BY <1>7, <1>9
<1> QED BY <1>1, <1>8, <1>10 DEF t, n, Put, IsFlattened

LEMMA FlattenEmpty == FlattenSeq(<< >>) = << >>
BY DEF FlattenSeq

LEMMA FlattenType ==
  ASSUME NEW S, NEW s \in Seq(Seq(S)) PROVE FlattenSeq(s) \in Seq(S)
<1>1. CASE Len(s) = 0
  <2>1. s = << >>
    BY <1>1
  <2>2. FlattenSeq(s) = << >>
    BY <2>1, FlattenEmpty
  <2> QED BY <2>2, EmptySeq
<1>2. CASE Len(s) > 0
  <2>0. IsFlattened(FlattenTable(s), s, S)
    BY <1>2, FlattenIs
  <2>1. FlattenTable(s) \in [1..Len(s) -> Seq(S)] /\ Len(s) \in 1..Len(s)
    BY <1>2, <2>0 DEF IsFlattened
  <2>2. FlattenTable(s)[Len(s)] \in Seq(S)
    BY <2>1
  <2> QED BY <1>2, <2>2, FlattenIs
<1> QED BY <1>1, <1>2

(* One chunk more, and its bytes follow. *)
LEMMA FlattenAppend ==
  ASSUME NEW S, NEW s \in Seq(Seq(S)), NEW c \in Seq(S)
  PROVE  FlattenSeq(Append(s, c)) = FlattenSeq(s) \o c
<1> DEFINE a == Append(s, c)
           n == Len(s)
           t == FlattenTable(a)
           u == FlattenTable(s)
<1>1. /\ n \in Nat /\ a \in Seq(Seq(S)) /\ Len(a) = n + 1 /\ a[n + 1] = c
      /\ \A i \in 1..n : a[i] = s[i]
  OBVIOUS
<1>2. FlattenSeq(a) = t[n + 1] /\ IsFlattened(t, a, S)
  <2> HIDE DEF a, n
  <2>1. Len(a) > 0
    BY <1>1
  <2> QED BY <1>1, <2>1, FlattenIs
<1>3. CASE n = 0
  <2>1. s = << >>
    BY <1>3
  <2>2. FlattenSeq(s) = << >>
    BY <2>1, FlattenEmpty
  <2>3. FlattenSeq(a) = c
    BY <1>1, <1>2, <1>3 DEF IsFlattened
  <2> QED BY <2>2, <2>3
<1>4. CASE n > 0
  <2>1. FlattenSeq(s) = u[n] /\ IsFlattened(u, s, S)
    BY <1>4, FlattenIs
  <2> HIDE DEF a, t, u
  <2>2. StepsAgree(u, t, 1, n)
    <3>1. u[1] = t[1]
      BY <1>1, <1>2, <1>4, <2>1 DEF IsFlattened
    <3>2. ASSUME NEW i \in 1..n, i > 1, u[i - 1] = t[i - 1] PROVE u[i] = t[i]
      <4>1. u[i] = u[i - 1] \o s[i]
        BY <2>1, <3>2 DEF IsFlattened
      <4>2. i \in 1..Len(a) /\ a[i] = s[i]
        BY <1>1, <3>2
      <4>3. t[i] = t[i - 1] \o a[i]
        BY <1>2, <3>2, <4>2 DEF IsFlattened
      <4> QED BY <3>2, <4>1, <4>2, <4>3
    <3> HIDE DEF n
    <3> QED BY <3>1, <3>2 DEF StepsAgree
  <2>3. Agree(u, t, 1, n)
    <3>1. 1 \in Nat
      OBVIOUS
    <3> HIDE DEF n
    <3> QED BY <1>1, <2>2, <3>1, RecursionUnique, Zenon
  <2>4. u[n] = t[n]
    BY <1>1, <1>4, <2>3 DEF Agree
  <2>5. t[n + 1] = t[n] \o c
    <3>1. n + 1 \in 1..Len(a) /\ n + 1 > 1 /\ (n + 1) - 1 = n
      BY <1>1, <1>4
    <3>2. t[n + 1] = t[(n + 1) - 1] \o a[n + 1]
      BY <1>2, <3>1 DEF IsFlattened
    <3> QED BY <1>1, <3>1, <3>2
  <2> QED BY <1>2, <2>1, <2>4, <2>5 DEF a
<1> QED BY <1>1, <1>3, <1>4

LEMMA PrefixType ==
  ASSUME NEW S, NEW s \in Seq(S), NEW k \in 0..Len(s)
  PROVE  SubSeq(s, 1, k) \in Seq(S) /\ Len(SubSeq(s, 1, k)) = k
OBVIOUS

LEMMA PrefixZero ==
  ASSUME NEW S, NEW s \in Seq(S) PROVE SubSeq(s, 1, 0) = << >>
OBVIOUS

LEMMA PrefixAppend ==
  ASSUME NEW S, NEW s \in Seq(S), NEW k \in 1..Len(s)
  PROVE  SubSeq(s, 1, k) = Append(SubSeq(s, 1, k - 1), s[k])
<1>1. SubSeq(s, 1, k) \in Seq(S) /\ Append(SubSeq(s, 1, k - 1), s[k]) \in Seq(S)
  OBVIOUS
<1>2. Len(SubSeq(s, 1, k)) = k /\ Len(Append(SubSeq(s, 1, k - 1), s[k])) = k
  OBVIOUS
<1>3. \A i \in 1..k : SubSeq(s, 1, k)[i] = Append(SubSeq(s, 1, k - 1), s[k])[i]
  OBVIOUS
<1> QED BY <1>1, <1>2, <1>3, SeqEqual

(* Size counts the bytes of the flattened chunks. *)
LEMMA FlattenSize ==
  ASSUME NEW S, NEW s \in Seq(Seq(S)) PROVE Len(FlattenSeq(s)) = Size(s)
<1> DEFINE P == {k \in 0..Len(s) : Len(FlattenSeq(SubSeq(s, 1, k))) = Size(SubSeq(s, 1, k))}
<1>0. Len(s) \in Nat /\ 0 \in Nat
  OBVIOUS
<1>1. 0 \in P
  <2>1. SubSeq(s, 1, 0) = << >>
    BY PrefixZero
  <2>2. Len(FlattenSeq(SubSeq(s, 1, 0))) = Size(SubSeq(s, 1, 0))
    <3>1. Len(<< >>) = 0
      BY EmptySeq
    <3> QED BY <2>1, <3>1, FlattenEmpty, SizeEmpty, Zenon
  <2> QED BY <1>0, <2>2
<1>2. ASSUME NEW k \in 0..Len(s), k > 0, k - 1 \in P PROVE k \in P
  <2> DEFINE p == SubSeq(s, 1, k - 1)
  <2>1. k \in 1..Len(s) /\ k - 1 \in 0..Len(s)
    BY <1>0, <1>2
  <2>2. p \in Seq(Seq(S)) /\ s[k] \in Seq(S)
    BY <2>1, PrefixType
  <2>3. SubSeq(s, 1, k) = Append(p, s[k])
    BY <2>1, PrefixAppend
  <2>4. Len(FlattenSeq(p)) = Size(p)
    BY <1>2
  <2> HIDE DEF p
  <2>5. Len(FlattenSeq(Append(p, s[k]))) = Len(FlattenSeq(p)) + Len(s[k])
    <3>1. FlattenSeq(Append(p, s[k])) = FlattenSeq(p) \o s[k]
      BY <2>2, FlattenAppend
    <3>2. FlattenSeq(p) \in Seq(S)
      BY <2>2, FlattenType
    <3> QED BY <2>2, <3>1, <3>2, ConcatProperties
  <2>6. Size(Append(p, s[k])) = Size(p) + Len(s[k])
    BY <2>2, SizeAppend
  <2>7. Len(FlattenSeq(SubSeq(s, 1, k))) = Size(SubSeq(s, 1, k))
    BY <2>3, <2>4, <2>5, <2>6
  <2> QED BY <2>7
<1>3. 0..Len(s) \subseteq P
  <2> HIDE DEF P
  <2> QED BY <1>0, <1>1, <1>2, IntervalInduction
<1>4. Len(s) \in P
  BY <1>0, <1>3
<1>5. SubSeq(s, 1, Len(s)) = s
  BY SubSeqFull
<1> QED BY <1>4, <1>5

LEMMA ConcatAppend ==
  ASSUME NEW S, NEW s \in Seq(S), NEW t \in Seq(S), NEW x \in S
  PROVE  s \o Append(t, x) = Append(s \o t, x)
<1>1. s \o Append(t, x) \in Seq(S) /\ Append(s \o t, x) \in Seq(S)
  OBVIOUS
<1>2. /\ Len(s \o Append(t, x)) = Len(s) + Len(t) + 1
      /\ Len(Append(s \o t, x)) = Len(s) + Len(t) + 1
  OBVIOUS
<1>3. \A i \in 1..(Len(s) + Len(t) + 1) : (s \o Append(t, x))[i] = Append(s \o t, x)[i]
  OBVIOUS
<1> QED BY <1>1, <1>2, <1>3, SeqEqual

(* Manifests are flattened piece by piece. *)
LEMMA FlattenConcat ==
  ASSUME NEW S, NEW s \in Seq(Seq(S)), NEW t \in Seq(Seq(S))
  PROVE  FlattenSeq(s \o t) = FlattenSeq(s) \o FlattenSeq(t)
<1> DEFINE Q(p) == FlattenSeq(s \o p) = FlattenSeq(s) \o FlattenSeq(p)
           P == {k \in 0..Len(t) : Q(SubSeq(t, 1, k))}
<1>0. Len(t) \in Nat /\ 0 \in Nat
  OBVIOUS
<1>1. 0 \in P
  <2>1. SubSeq(t, 1, 0) = << >> /\ s \o << >> = s
    BY PrefixZero, ConcatEmptySeq
  <2>2. FlattenSeq(s) \o << >> = FlattenSeq(s)
    BY FlattenType, ConcatEmptySeq
  <2>3. Q(SubSeq(t, 1, 0))
    BY <2>1, <2>2, FlattenEmpty
  <2> HIDE DEF Q
  <2> QED BY <1>0, <2>3
<1>2. ASSUME NEW k \in 0..Len(t), k > 0, k - 1 \in P PROVE k \in P
  <2> DEFINE p == SubSeq(t, 1, k - 1)
             c == t[k]
  <2>1. k \in 1..Len(t) /\ k - 1 \in 0..Len(t)
    BY <1>0, <1>2
  <2>2. p \in Seq(Seq(S)) /\ c \in Seq(S)
    BY <2>1, PrefixType
  <2>3. SubSeq(t, 1, k) = Append(p, c)
    BY <2>1, PrefixAppend
  <2>4. Q(p)
    BY <1>2
  <2> HIDE DEF p, c
  <2>5. FlattenSeq(s) \in Seq(S) /\ FlattenSeq(p) \in Seq(S) /\ s \o p \in Seq(Seq(S))
    BY <2>2, FlattenType, ConcatProperties
  <2>6. FlattenSeq(s \o Append(p, c)) = FlattenSeq(s \o p) \o c
    <3>1. s \o Append(p, c) = Append(s \o p, c)
      BY <2>2, ConcatAppend
    <3> QED BY <2>2, <2>5, <3>1, FlattenAppend
  <2>7. FlattenSeq(Append(p, c)) = FlattenSeq(p) \o c
    BY <2>2, FlattenAppend
  <2>8. (FlattenSeq(s) \o FlattenSeq(p)) \o c = FlattenSeq(s) \o (FlattenSeq(p) \o c)
    <3> DEFINE x == FlattenSeq(s)
               y == FlattenSeq(p)
    <3>1. x \in Seq(S) /\ y \in Seq(S) /\ c \in Seq(S)
      BY <2>2, <2>5
    <3> HIDE DEF x, y
    <3>2. (x \o y) \o c = x \o (y \o c)
      BY <3>1, ConcatAssociative
    <3> QED BY <3>2 DEF x, y
  <2>9. Q(SubSeq(t, 1, k))
    BY <2>3, <2>4, <2>6, <2>7, <2>8
  <2> HIDE DEF Q
  <2> QED BY <2>9
<1>3. 0..Len(t) \subseteq P
  <2> HIDE DEF P
  <2> QED BY <1>0, <1>1, <1>2, IntervalInduction
<1>4. Len(t) \in P
  BY <1>0, <1>3
<1>5. SubSeq(t, 1, Len(t)) = t
  BY SubSeqFull
<1> QED BY <1>4, <1>5

LEMMA SizeConcat ==
  ASSUME NEW S, NEW s \in Seq(Seq(S)), NEW t \in Seq(Seq(S))
  PROVE  Size(s \o t) = Size(s) + Size(t)
<1>1. s \o t \in Seq(Seq(S))
  BY ConcatProperties
<1>2. /\ Len(FlattenSeq(s \o t)) = Size(s \o t)
      /\ Len(FlattenSeq(s)) = Size(s) /\ Len(FlattenSeq(t)) = Size(t)
  BY <1>1, FlattenSize
<1>3. FlattenSeq(s) \in Seq(S) /\ FlattenSeq(t) \in Seq(S)
  BY FlattenType
<1>4. Len(FlattenSeq(s) \o FlattenSeq(t)) = Len(FlattenSeq(s)) + Len(FlattenSeq(t))
  BY <1>3, ConcatProperties
<1> QED BY <1>2, <1>4, FlattenConcat

LEMMA MinIs ==
  ASSUME NEW a \in Int, NEW b \in Int
  PROVE  Min({a, b}) = IF a <= b THEN a ELSE b
<1>1. PICK x \in {a, b} : \A y \in {a, b} : x <= y
  OBVIOUS
<1>2. Min({a, b}) \in {a, b} /\ \A y \in {a, b} : Min({a, b}) <= y
  BY <1>1 DEF Min
<1> QED BY <1>2

-----------------------------------------------------------------------------
(* Powers of two, counted as sets of bits. *)

LEMMA PowerIs ==
  ASSUME NEW n \in Nat
  PROVE  /\ IsFiniteSet(SUBSET (1..n)) /\ 2 ^ n = Cardinality(SUBSET (1..n))
         /\ 2 ^ n \in Nat \ {0}
<1>1. IsFiniteSet(1..n) /\ Cardinality(1..n) = n
  BY FS_Interval
<1>2. IsFiniteSet(SUBSET (1..n)) /\ Cardinality(SUBSET (1..n)) = 2 ^ n
  BY <1>1, FS_SUBSET
<1>3. SUBSET (1..n) # {}
  OBVIOUS
<1>4. Cardinality(SUBSET (1..n)) \in Nat /\ Cardinality(SUBSET (1..n)) # 0
  BY <1>2, <1>3, FS_CardinalityType, FS_EmptySet
<1> QED BY <1>2, <1>4

LEMMA PowerZero == 2 ^ 0 = 1
<1>1. 0 \in Nat /\ SUBSET (1..0) = {{}}
  OBVIOUS
<1>2. Cardinality({{}}) = 1
  BY FS_Singleton
<1> QED BY <1>1, <1>2, PowerIs

(* A set with one more bit has twice the subsets. *)
LEMMA PowerNext ==
  ASSUME NEW n \in Nat PROVE 2 ^ (n + 1) = 2 * 2 ^ n
<1> DEFINE A == SUBSET (1..n)
           B == SUBSET (1..(n + 1))
           C == {x \in B : n + 1 \in x}
           f == [x \in A |-> x \cup {n + 1}]
<1>1. n + 1 \in Nat /\ n + 1 \notin 1..n /\ 1..(n + 1) = (1..n) \cup {n + 1}
  OBVIOUS
<1>2. B = A \cup C /\ A \cap C = {}
  <2>1. A \cap C = {}
    BY <1>1
  <2>2. A \subseteq B
    BY <1>1
  <2>3. ASSUME NEW x \in B, x \notin C PROVE x \in A
    BY <1>1, <2>3
  <2> QED BY <2>1, <2>2, <2>3
<1>3. f \in Bijection(A, C)
  <2>1. f \in [A -> C]
    BY <1>1
  <2>2. ASSUME NEW x \in A, NEW y \in A, f[x] = f[y] PROVE x = y
    <3>1. n + 1 \notin x /\ n + 1 \notin y
      BY <1>1
    <3>2. x \cup {n + 1} = y \cup {n + 1}
      BY <2>2
    <3> HIDE DEF f, A
    <3>3. \A z : z \in x <=> z \in y
      BY <3>1, <3>2
    <3> QED BY <3>3
  <2>3. ASSUME NEW z \in C PROVE \E x \in A : f[x] = z
    <3>1. z \ {n + 1} \in A /\ (z \ {n + 1}) \cup {n + 1} = z
      BY <1>1
    <3>2. f[z \ {n + 1}] = z
      BY <3>1
    <3> QED BY <3>1, <3>2
  <2> HIDE DEF f, A, C
  <2> QED BY <2>1, <2>2, <2>3 DEF Bijection, Injection, Surjection, IsInjective
<1>4. IsFiniteSet(A) /\ 2 ^ n = Cardinality(A) /\ 2 ^ n \in Nat
  BY PowerIs
<1>5. 2 ^ (n + 1) = Cardinality(B)
  BY <1>1, PowerIs
<1> HIDE DEF f, A, B, C
<1>6. IsFiniteSet(C) /\ Cardinality(C) = Cardinality(A)
  <2>1. ExistsBijection(A, C)
    BY <1>3 DEF ExistsBijection
  <2> QED BY <1>4, <2>1, FS_Bijection
<1>7. Cardinality(A \cup C) = Cardinality(A) + Cardinality(C) - 0
  <2>1. Cardinality(A \cap C) = 0
    BY <1>2, FS_EmptySet
  <2> QED BY <1>4, <1>6, <2>1, FS_Union
<1> QED BY <1>2, <1>4, <1>5, <1>6, <1>7

LEMMA PowerSum ==
  ASSUME NEW a \in Nat, NEW b \in Nat
  PROVE  2 ^ (a + b) = 2 ^ a * 2 ^ b
<1> DEFINE P == {k \in Nat : 2 ^ (a + k) = 2 ^ a * 2 ^ k}
<1>1. 0 \in P
  <2>1. 2 ^ a \in Nat
    BY PowerIs
  <2>2. 2 ^ (a + 0) = 2 ^ a * 2 ^ 0
    BY <2>1, PowerZero
  <2> QED BY <2>2
<1>2. ASSUME NEW k \in 0..b, k > 0, k - 1 \in P PROVE k \in P
  <2>1. /\ k - 1 \in Nat /\ a + (k - 1) \in Nat
        /\ (k - 1) + 1 = k /\ (a + (k - 1)) + 1 = a + k
    BY <1>2
  <2>2. 2 ^ k = 2 * 2 ^ (k - 1) /\ 2 ^ (a + k) = 2 * 2 ^ (a + (k - 1))
    BY <2>1, PowerNext
  <2>3. 2 ^ (a + (k - 1)) = 2 ^ a * 2 ^ (k - 1)
    BY <1>2
  <2>4. 2 ^ a \in Nat /\ 2 ^ (k - 1) \in Nat
    BY <2>1, PowerIs
  <2>5. \A x, y \in Nat : 2 * (x * y) = x * (2 * y)
    OBVIOUS
  <2>6. 2 ^ (a + k) = 2 ^ a * 2 ^ k
    BY <2>2, <2>3, <2>4, <2>5
  <2> QED BY <2>6
<1>3. b \in P
  <2>1. 0..b \subseteq P /\ b \in 0..b
    <3> HIDE DEF P
    <3> QED BY <1>1, <1>2, IntervalInduction
  <2> QED BY <2>1
<1> QED BY <1>3

-----------------------------------------------------------------------------
(* Remainders *)

LEMMA RemainderIs ==
  ASSUME NEW x \in Nat, NEW m \in Nat \ {0}
  PROVE  x % m \in 0..(m - 1) /\ \E q \in Nat : x = q * m + (x % m)
<1>1. x % m \in 0..(m - 1)
  OBVIOUS
<1>2. x \div m \in Nat
  OBVIOUS
<1>3. x = (x \div m) * m + (x % m)
  OBVIOUS
<1> QED BY <1>1, <1>2, <1>3

(* Two numbers below m that differ by a multiple of m are the same. *)
LEMMA RemainderUnique ==
  ASSUME NEW m \in Nat \ {0}, NEW r \in 0..(m - 1), NEW s \in 0..(m - 1),
         NEW p \in Int, NEW q \in Int,
         p * m + r = q * m + s
  PROVE  r = s
<1>1. CASE p = q
  BY <1>1
<1>2. CASE p < q
  <2>1. (q - p) * m = r - s
    OBVIOUS
  <2>2. (q - p) * m >= m
    BY <1>2
  <2> QED BY <2>1, <2>2
<1>3. CASE p > q
  <2>1. (p - q) * m = s - r
    OBVIOUS
  <2>2. (p - q) * m >= m
    BY <1>3
  <2> QED BY <2>1, <2>2
<1> QED BY <1>1, <1>2, <1>3

(* Numbers that differ by a multiple of m have one remainder. *)
LEMMA RemainderOf ==
  ASSUME NEW m \in Nat \ {0}, NEW x \in Nat, NEW y \in Nat, NEW p \in Nat,
         y = p * m + x
  PROVE  x % m = y % m
<1>1. PICK a \in Nat : x = a * m + (x % m)
  BY RemainderIs
<1>2. PICK b \in Nat : y = b * m + (y % m)
  BY RemainderIs
<1> DEFINE r == x % m
           s == y % m
<1>3. r \in 0..(m - 1) /\ s \in 0..(m - 1)
  BY RemainderIs
<1>4. x = a * m + r /\ y = b * m + s
  BY <1>1, <1>2
<1> HIDE DEF r, s
<1>5. (p + a) * m + r = b * m + s
  BY <1>3, <1>4
<1>6. p + a \in Int /\ b \in Int
  OBVIOUS
<1>7. r = s
  BY <1>3, <1>5, <1>6, RemainderUnique
<1> QED BY <1>7 DEF r, s

(* A shift sees the remainder alone. *)
LEMMA RemainderTwice ==
  ASSUME NEW x \in Nat, NEW g \in Nat, NEW m \in Nat \ {0}
  PROVE  (2 * (x % m) + g) % m = (2 * x + g) % m
<1>1. PICK a \in Nat : x = a * m + (x % m)
  BY RemainderIs
<1> DEFINE r == x % m
<1>2. r \in Nat /\ x = a * m + r
  BY <1>1, RemainderIs
<1> HIDE DEF r
<1> DEFINE y == 2 * r + g
           z == 2 * x + g
           p == 2 * a
<1>3. z = p * m + y
  BY <1>2
<1>4. p \in Nat /\ y \in Nat /\ z \in Nat
  BY <1>2
<1> HIDE DEF y, z, p
<1>5. y % m = z % m
  BY <1>3, <1>4, RemainderOf
<1> QED BY <1>5 DEF y, z, r

(* The low bits survive the width of the hash. *)
LEMMA RemainderOfMultiple ==
  ASSUME NEW x \in Nat, NEW a \in Nat \ {0}, NEW b \in Nat \ {0}
  PROVE  (x % (a * b)) % a = x % a
<1> DEFINE n == a * b
           r == x % n
<1>1. n \in Nat \ {0}
  OBVIOUS
<1>2. r \in Nat /\ \E q \in Nat : x = q * n + r
  <2> HIDE DEF n
  <2>1. x % n \in 0..(n - 1) /\ \E q \in Nat : x = q * n + (x % n)
    BY <1>1, RemainderIs
  <2>2. r \in 0..(n - 1) /\ \E q \in Nat : x = q * n + r
    BY <2>1
  <2>3. r \in Nat
    <3> HIDE DEF r
    <3> QED BY <1>1, <2>2
  <2> QED BY <2>2, <2>3
<1>3. PICK q \in Nat : x = q * n + r
  BY <1>2
<1> HIDE DEF r
<1> DEFINE p == q * b
<1>4. x = p * a + r
  BY <1>2, <1>3
<1>5. p \in Nat
  OBVIOUS
<1> HIDE DEF p
<1>6. r % a = x % a
  BY <1>2, <1>4, <1>5, RemainderOf
<1> QED BY <1>6 DEF r, n

-----------------------------------------------------------------------------
(* Windows *)

(* The terms of a window. *)
Terms(c, k) == [j \in 1..k |-> Gear[c[Len(c) - j + 1]] * 2 ^ (j - 1)]

LEMMA GearNat == ASSUME NEW b \in Bytes PROVE Gear[b] \in Nat
<1>1. Gear \in [Bytes -> 0..(2 ^ Width - 1)] /\ Width \in Nat
  BY ChunkingAssumption
<1>2. 2 ^ Width \in Nat
  BY <1>1, PowerIs
<1> QED BY <1>1, <1>2

LEMMA TermNat ==
  ASSUME NEW c \in Seq(Bytes), NEW k \in 0..Len(c)
  PROVE  AreNat(Terms(c, k), k)
<1> SUFFICES ASSUME NEW j \in 1..k PROVE Terms(c, k)[j] \in Nat
  BY DEF AreNat
<1> DEFINE b == c[Len(c) - j + 1]
           w == 2 ^ (j - 1)
<1>1. b \in Bytes /\ j - 1 \in Nat
  OBVIOUS
<1>2. Gear[b] \in Nat
  BY <1>1, GearNat
<1>3. w \in Nat
  BY <1>1, PowerIs
<1>4. Terms(c, k)[j] = Gear[b] * w
  BY DEF Terms
<1> HIDE DEF b, w
<1> QED BY <1>2, <1>3, <1>4

LEMMA WindowType ==
  ASSUME NEW c \in Seq(Bytes), NEW k \in 0..Len(c) PROVE Window(c, k) \in Nat
<1>1. k \in Nat /\ AreNat(Terms(c, k), k)
  BY TermNat
<1>2. Total(Terms(c, k), k) \in Nat
  BY <1>1, TotalType
<1> QED BY <1>2 DEF Window, Terms

LEMMA WindowZero == ASSUME NEW c PROVE Window(c, 0) = 0
BY TotalZero DEF Window

LEMMA WindowNext ==
  ASSUME NEW c \in Seq(Bytes), NEW k \in 1..Len(c)
  PROVE  Window(c, k) = Window(c, k - 1) + Gear[c[Len(c) - k + 1]] * 2 ^ (k - 1)
<1> DEFINE f == Terms(c, k)
           g == Terms(c, k - 1)
<1>1. k \in Nat /\ k > 0 /\ k \in 0..Len(c)
  OBVIOUS
<1>2. AreNat(f, k)
  BY <1>1, TermNat
<1>3. \A j \in 1..(k - 1) : g[j] = f[j]
  BY DEF Terms
<1>4. f[k] = Gear[c[Len(c) - k + 1]] * 2 ^ (k - 1)
  BY DEF Terms
<1>5. Window(c, k) = Total(f, k) /\ Window(c, k - 1) = Total(g, k - 1)
  BY DEF Window, Terms
<1> HIDE DEF f, g
<1>6. Total(f, k) = Total(g, k - 1) + f[k]
  BY <1>1, <1>2, <1>3, TotalNext
<1> QED BY <1>4, <1>5, <1>6

(* One more byte shifts the others. *)
LEMMA WindowAppend ==
  ASSUME NEW c \in Seq(Bytes), NEW b \in Bytes, NEW n \in 0..Len(c)
  PROVE  Window(Append(c, b), n + 1) = Gear[b] + 2 * Window(c, n)
<1> DEFINE d == Append(c, b)
           L == Len(c)
           P == {k \in 0..L : Window(d, k + 1) = Gear[b] + 2 * Window(c, k)}
<1>1. /\ L \in Nat /\ d \in Seq(Bytes) /\ Len(d) = L + 1 /\ d[L + 1] = b
      /\ \A i \in 1..L : d[i] = c[i]
  OBVIOUS
<1>2. Gear[b] \in Nat
  BY GearNat
<1> HIDE DEF d, L
<1>3. 0 \in P
  <2>1. 1 \in 1..Len(d) /\ Len(d) - 1 + 1 = L + 1 /\ 0 \in 0..L
    BY <1>1
  <2>2. Window(d, 1) = Window(d, 1 - 1) + Gear[d[Len(d) - 1 + 1]] * 2 ^ (1 - 1)
    BY <1>1, <2>1, WindowNext
  <2>3. Window(d, 1) = Window(d, 0) + Gear[b] * 2 ^ 0
    BY <1>1, <2>1, <2>2
  <2>4. Window(d, 0 + 1) = Gear[b] + 2 * Window(c, 0)
    BY <1>2, <2>3, WindowZero, PowerZero
  <2> QED BY <2>1, <2>4
<1>4. ASSUME NEW k \in 0..L, k > 0, k - 1 \in P PROVE k \in P
  <2> DEFINE G == Gear[c[L - k + 1]]
             w == 2 ^ (k - 1)
             x == Window(c, k - 1)
  <2>1. /\ k + 1 \in 1..Len(d) /\ (k + 1) - 1 = k /\ (k - 1) + 1 = k /\ k - 1 \in Nat
        /\ Len(d) - (k + 1) + 1 = L - k + 1 /\ L - k + 1 \in 1..L
    BY <1>1, <1>4
  <2>2. Window(d, k + 1) = Window(d, k) + G * 2 ^ k
    <3>1. Window(d, k + 1)
            = Window(d, (k + 1) - 1) + Gear[d[Len(d) - (k + 1) + 1]] * 2 ^ ((k + 1) - 1)
      BY <1>1, <2>1, WindowNext
    <3>2. d[Len(d) - (k + 1) + 1] = c[L - k + 1]
      BY <1>1, <2>1
    <3> QED BY <2>1, <3>1, <3>2
  <2>3. Window(d, k) = Gear[b] + 2 * x
    BY <1>4, <2>1
  <2>4. Window(c, k) = x + G * w
    <3>1. k \in 1..Len(c)
      BY <1>4, <1>1 DEF L
    <3> QED BY <3>1, WindowNext DEF L
  <2>5. 2 ^ k = 2 * w
    BY <2>1, PowerNext
  <2>6. G \in Nat /\ w \in Nat /\ x \in Nat
    <3>1. c[L - k + 1] \in Bytes /\ k - 1 \in 0..Len(c)
      BY <2>1, <1>4 DEF L
    <3> QED BY <2>1, <3>1, GearNat, PowerIs, WindowType
  <2> HIDE DEF G, w, x
  <2>7. Window(d, k + 1) = Gear[b] + 2 * Window(c, k)
    <3>1. G * (2 * w) = 2 * (G * w)
      BY <2>6
    <3> QED BY <1>2, <2>2, <2>3, <2>4, <2>5, <2>6, <3>1
  <2> QED BY <2>7
<1>5. n \in P
  <2>1. 0..L \subseteq P
    <3> HIDE DEF P
    <3> QED BY <1>1, <1>3, <1>4, IntervalInduction
  <2> QED BY <2>1 DEF L
<1> QED BY <1>5 DEF d

(* The low bits come from the last bytes alone. *)
LEMMA WindowLow ==
  ASSUME NEW c \in Seq(Bytes), NEW n \in MaskBits..Len(c)
  PROVE  Window(c, n) % 2 ^ MaskBits = Window(c, MaskBits) % 2 ^ MaskBits
<1> DEFINE m == 2 ^ MaskBits
           P == {k \in MaskBits..Len(c) : Window(c, k) % m = Window(c, MaskBits) % m}
<1>1. MaskBits \in Nat /\ Len(c) \in Nat
  BY ChunkingAssumption
<1>2. m \in Nat \ {0}
  BY <1>1, PowerIs
<1>3. MaskBits \in P
  BY <1>1
<1>4. ASSUME NEW k \in MaskBits..Len(c), k > MaskBits, k - 1 \in P PROVE k \in P
  <2> DEFINE G == Gear[c[Len(c) - k + 1]]
             v == 2 ^ ((k - 1) - MaskBits)
             x == Window(c, k - 1)
             p == G * v
  <2>1. /\ k \in 1..Len(c) /\ (k - 1) - MaskBits \in Nat /\ k - 1 \in 0..Len(c)
        /\ MaskBits + ((k - 1) - MaskBits) = k - 1 /\ c[Len(c) - k + 1] \in Bytes
    BY <1>1, <1>4
  <2>2. 2 ^ (k - 1) = m * v
    BY <1>1, <2>1, PowerSum
  <2>3. G \in Nat /\ v \in Nat /\ x \in Nat
    BY <2>1, GearNat, PowerIs, WindowType
  <2>4. Window(c, k) = x + G * 2 ^ (k - 1)
    BY <2>1, WindowNext
  <2>5. x % m = Window(c, MaskBits) % m
    BY <1>4
  <2> HIDE DEF G, v, x, m
  <2>6. Window(c, k) = p * m + x /\ p \in Nat
    BY <1>2, <2>2, <2>3, <2>4
  <2>7. Window(c, k) \in Nat
    BY <1>2, <2>3, <2>6
  <2> HIDE DEF p
  <2>8. x % m = Window(c, k) % m
    BY <1>2, <2>3, <2>6, <2>7, RemainderOf
  <2> QED BY <2>5, <2>8
<1>5. n \in P
  <2>1. MaskBits..Len(c) \subseteq P
    <3> HIDE DEF P
    <3> QED BY <1>1, <1>3, <1>4, IntervalInduction
  <2> QED BY <2>1
<1> QED BY <1>5

LEMMA SizesNat ==
  /\ MaskBits \in Nat \ {0} /\ Width \in Nat /\ Mn \in Nat \ {0} /\ Mx \in Nat \ {0}
  /\ MaskBits <= Width /\ MaskBits <= Mn /\ Mn <= Mx
  /\ 2 ^ Width \in Nat \ {0} /\ 2 ^ MaskBits \in Nat \ {0}
<1>1. /\ MaskBits \in Nat \ {0} /\ Width \in Nat /\ Mn \in Nat \ {0} /\ Mx \in Nat \ {0}
      /\ MaskBits <= Width /\ MaskBits <= Mn /\ Mn <= Mx
  BY ChunkingAssumption
<1>2. 2 ^ Width \in Nat \ {0}
  BY <1>1, PowerIs
<1>3. 2 ^ MaskBits \in Nat \ {0}
  BY <1>1, PowerIs
<1> QED BY <1>1, <1>2, <1>3

(* The masked hash is that of the window of the bytes since the last cut. *)
Hashes(h, c) == h % 2 ^ MaskBits = Window(c, Len(c)) % 2 ^ MaskBits

(* A byte keeps the masked hash that of the window. *)
LEMMA HashStep ==
  ASSUME NEW c \in Seq(Bytes), NEW b \in Bytes, NEW h \in Nat, Hashes(h, c)
  PROVE  /\ (2 * h + Gear[b]) % 2 ^ Width \in Nat
         /\ Hashes((2 * h + Gear[b]) % 2 ^ Width, Append(c, b))
<1> DEFINE m == 2 ^ MaskBits
           W == 2 ^ Width
           g == Gear[b]
           x == Window(c, Len(c))
           v == 2 ^ (Width - MaskBits)
           y == 2 * h + g
           d == Append(c, b)
<1>1. m \in Nat \ {0} /\ W \in Nat \ {0}
  BY SizesNat
<1>2. g \in Nat
  BY GearNat
<1>3. W = m * v /\ v \in Nat \ {0}
  <2>1. Width - MaskBits \in Nat /\ MaskBits \in Nat /\ MaskBits + (Width - MaskBits) = Width
    BY SizesNat
  <2>2. 2 ^ (MaskBits + (Width - MaskBits)) = m * v
    BY <2>1, PowerSum
  <2>3. v \in Nat \ {0}
    BY <2>1, PowerIs
  <2> QED BY <2>1, <2>2, <2>3
<1>4. Len(c) \in 0..Len(c) /\ Len(d) = Len(c) + 1
  OBVIOUS
<1>5. x \in Nat
  BY <1>4, WindowType
<1>6. Window(d, Len(d)) = g + 2 * x
  BY <1>4, WindowAppend
<1>7. h % m = x % m
  BY DEF Hashes
<1> HIDE DEF m, W, g, x, v, d
<1>8. y \in Nat
  BY <1>2
<1> HIDE DEF y
<1>9. y % W \in Nat
  BY <1>1, <1>8
<1>10. (y % W) % m = y % m
  BY <1>1, <1>3, <1>8, RemainderOfMultiple
<1>11. (2 * (h % m) + g) % m = y % m
  BY <1>1, <1>2, RemainderTwice DEF y
<1>12. (2 * (x % m) + g) % m = (2 * x + g) % m
  BY <1>1, <1>2, <1>5, RemainderTwice
<1>13. 2 * x + g = Window(d, Len(d))
  BY <1>2, <1>5, <1>6
<1>14. y % m = Window(d, Len(d)) % m
  BY <1>7, <1>11, <1>12, <1>13
<1> QED BY <1>9, <1>10, <1>14 DEF Hashes, m, W, g, d, y

(* From the least size on, the mask sees what Zeros says. *)
LEMMA MaskSees ==
  ASSUME NEW c \in Seq(Bytes), NEW h \in Nat, Hashes(h, c), Len(c) >= Mn
  PROVE  h % 2 ^ MaskBits = 0 <=> Zeros(c)
<1>1. Len(c) \in MaskBits..Len(c)
  BY SizesNat
<1> QED BY <1>1, WindowLow DEF Hashes, Zeros

-----------------------------------------------------------------------------
(* The loop. *)

(* What the loop works on. *)
LoopStates == [h : Nat, start : Nat \ {0}, out : Seq(Seq(Bytes))]
LoopStart == [h |-> 0, start |-> 1, out |-> << >>]

LEMMA GearStepType ==
  ASSUME NEW buf \in Seq(Bytes), NEW a \in LoopStates, NEW i \in 1..Len(buf)
  PROVE  GearStep(buf, a, i) \in LoopStates
<1> DEFINE h == (2 * a.h + Gear[buf[i]]) % 2 ^ Width
           size == i - a.start + 1
<1>1. a.h \in Nat /\ a.start \in Nat \ {0} /\ a.out \in Seq(Seq(Bytes))
  BY DEF LoopStates
<1>2. h \in Nat
  <2>1. Gear[buf[i]] \in Nat
    BY GearNat
  <2>2. 2 ^ Width \in Nat \ {0}
    BY SizesNat
  <2>3. 2 * a.h + Gear[buf[i]] \in Nat
    BY <1>1, <2>1
  <2> QED BY <2>2, <2>3
<1>3. SubSeq(buf, a.start, i) \in Seq(Bytes)
  BY <1>1
<1>4. Append(a.out, SubSeq(buf, a.start, i)) \in Seq(Seq(Bytes)) /\ i + 1 \in Nat \ {0}
  BY <1>1, <1>3, AppendProperties
<1>5. [h |-> 0, start |-> i + 1, out |-> Append(a.out, SubSeq(buf, a.start, i))] \in LoopStates
  BY <1>4 DEF LoopStates
<1> HIDE DEF h
<1>6. [a EXCEPT !.h = h] \in LoopStates
  BY <1>2 DEF LoopStates
<1> QED BY <1>5, <1>6 DEF GearStep, h

(* GearLoop goes from state to state by GearStep. *)
LEMMA GearLoopIs ==
  ASSUME NEW buf \in Seq(Bytes)
  PROVE  /\ GearLoop(buf)[0] = LoopStart
         /\ \A i \in 0..Len(buf) :
              i > 0 => GearLoop(buf)[i] = GearStep(buf, GearLoop(buf)[i - 1], i)
<1> DEFINE n == Len(buf)
           Do(i, v) == GearStep(buf, v, i)
           Eq(t) == t = [i \in 0..n |-> IF i = 0 THEN LoopStart ELSE Do(i, t[i - 1])]
           F == [i \in 0..n |-> [v \in LoopStates |-> IF i = 0 THEN v ELSE Do(i, v)]]
           t == GearLoop(buf)
<1>1. n \in Nat /\ 0 \in Nat /\ 0 <= n /\ LoopStart \in LoopStates
  BY DEF LoopStart, LoopStates
<1>2. F \in [0..n -> [LoopStates -> LoopStates]]
  <2>1. ASSUME NEW i \in 0..n, NEW v \in LoopStates, i # 0 PROVE Do(i, v) \in LoopStates
    BY <2>1, GearStepType
  <2> HIDE DEF Do
  <2> QED BY <2>1
<1> HIDE DEF n, Do
<1>3. PICK g : Solves(g, 0, n, LoopStates, LoopStart, F)
  <2> HIDE DEF F
  <2> QED BY <1>1, <1>2, RecursionDefined, Zenon
<1>4. Eq(g)
  <2>1. g \in [0..n -> LoopStates] /\ g[0] = LoopStart
    BY <1>3 DEF Solves
  <2>2. ASSUME NEW i \in 0..n, i # 0 PROVE g[i] = Do(i, g[i - 1])
    <3>1. i - 1 \in 0..n /\ i > 0
      BY <1>1, <2>2
    <3>2. g[i - 1] \in LoopStates
      BY <2>1, <3>1
    <3>3. g[i] = F[i][g[i - 1]]
      BY <1>3, <3>1 DEF Solves
    <3> QED BY <2>2, <3>2, <3>3
  <2> QED BY <1>1, <2>1, <2>2
<1>5. Eq(t)
  BY <1>4 DEF GearLoop, LoopStart, Do, n
<1> HIDE DEF t
<1>6. t[0] = LoopStart /\ \A i \in 0..n : i > 0 => t[i] = Do(i, t[i - 1])
  BY <1>1, <1>5
<1> QED BY <1>6 DEF t, Do, n

(* No cut was due within the first n bytes of a chunk. *)
NoCut(c, n) == \A s \in Mn..n : ~Zeros(SubSeq(c, 1, s))

(* A chunk that the loop cuts. *)
CutRule(c) ==
  /\ c \in Seq(Bytes) /\ Len(c) \in 1..Mx
  /\ NoCut(c, Len(c) - 1)
  /\ Len(c) = Mx \/ (Len(c) >= Mn /\ Zeros(c))

(* What the loop has after i bytes. *)
LoopInv(buf, a, i) ==
  /\ a \in LoopStates /\ a.start <= i + 1
  /\ FlattenSeq(a.out) = SubSeq(buf, 1, a.start - 1)
  /\ \A n \in 1..Len(a.out) : CutRule(a.out[n])
  /\ LET c == SubSeq(buf, a.start, i)
     IN Len(c) < Mx /\ NoCut(c, Len(c)) /\ Hashes(a.h, c)

LEMMA LoopInit == ASSUME NEW buf \in Seq(Bytes) PROVE LoopInv(buf, LoopStart, 0)
<1> DEFINE c == SubSeq(buf, 1, 0)
<1>1. c = << >> /\ Len(c) = 0
  OBVIOUS
<1>2. NoCut(c, Len(c)) /\ Len(c) < Mx
  BY <1>1, SizesNat DEF NoCut
<1>3. Hashes(0, c)
  <2>1. Window(c, Len(c)) = 0
    BY <1>1, WindowZero
  <2> QED BY <2>1 DEF Hashes
<1>4. LoopStart \in LoopStates
  BY DEF LoopStart, LoopStates
<1>5. FlattenSeq(<< >>) = c /\ Len(<< >>) = 0
  BY <1>1, FlattenEmpty
<1> HIDE DEF c
<1> QED BY <1>2, <1>3, <1>4, <1>5 DEF LoopInv, LoopStart, c

LEMMA SliceGrows ==
  ASSUME NEW S, NEW s \in Seq(S), NEW p \in Nat \ {0}, NEW i \in 1..Len(s), p <= i
  PROVE  /\ SubSeq(s, p, i - 1) \in Seq(S) /\ Len(SubSeq(s, p, i - 1)) = i - p
         /\ SubSeq(s, p, i) = Append(SubSeq(s, p, i - 1), s[i])
<1> DEFINE c == SubSeq(s, p, i - 1)
           d == SubSeq(s, p, i)
<1>1. c \in Seq(S) /\ Len(c) = i - p /\ d \in Seq(S) /\ Len(d) = i - p + 1
  OBVIOUS
<1>2. Append(c, s[i]) \in Seq(S) /\ Len(Append(c, s[i])) = i - p + 1
  BY <1>1
<1>3. \A k \in 1..(i - p + 1) : d[k] = Append(c, s[i])[k]
  OBVIOUS
<1> HIDE DEF c, d
<1> QED BY <1>1, <1>2, <1>3, SeqEqual DEF c, d

LEMMA SlicesJoin ==
  ASSUME NEW S, NEW s \in Seq(S), NEW p \in Nat \ {0}, NEW i \in 0..Len(s), p <= i + 1
  PROVE  SubSeq(s, 1, p - 1) \o SubSeq(s, p, i) = SubSeq(s, 1, i)
<1> DEFINE k == p - 1
<1>1. /\ 1 \in 1..(Len(s) + 1) /\ k \in (1 - 1)..Len(s)
      /\ i \in k..Len(s) /\ k + 1 = p
  OBVIOUS
<1> HIDE DEF k
<1>2. SubSeq(s, 1, k) \o SubSeq(s, k + 1, i) = SubSeq(s, 1, i)
  BY <1>1, ConcatAdjacentSubSeq
<1> QED BY <1>1, <1>2 DEF k

LEMMA AppendAll ==
  ASSUME NEW S, NEW s \in Seq(S), NEW x \in S, NEW n \in 1..Len(Append(s, x))
  PROVE  (n \in 1..Len(s) /\ Append(s, x)[n] = s[n]) \/ (n = Len(s) + 1 /\ Append(s, x)[n] = x)
OBVIOUS

LEMMA NoCutGrows ==
  ASSUME NEW c \in Seq(Bytes), NEW b \in Bytes, NoCut(c, Len(c))
  PROVE  NoCut(Append(c, b), Len(c))
<1> SUFFICES ASSUME NEW s \in Mn..Len(c) PROVE ~Zeros(SubSeq(Append(c, b), 1, s))
  BY DEF NoCut
<1>1. SubSeq(Append(c, b), 1, s) = SubSeq(c, 1, s)
  BY SizesNat
<1> QED BY <1>1 DEF NoCut

(* One byte keeps the invariant of the loop. *)
LEMMA LoopStep ==
  ASSUME NEW buf \in Seq(Bytes), NEW i \in 1..Len(buf), NEW a, LoopInv(buf, a, i - 1)
  PROVE  LoopInv(buf, GearStep(buf, a, i), i)
<1> DEFINE b == buf[i]
           c == SubSeq(buf, a.start, i - 1)
           d == SubSeq(buf, a.start, i)
           h == (2 * a.h + Gear[b]) % 2 ^ Width
           size == i - a.start + 1
           next == GearStep(buf, a, i)
<1>1. /\ a \in LoopStates /\ a.start \in Nat \ {0} /\ a.start <= i /\ a.h \in Nat
      /\ a.out \in Seq(Seq(Bytes)) /\ b \in Bytes /\ i \in Nat
  BY DEF LoopInv, LoopStates
<1>2. Len(c) < Mx /\ NoCut(c, Len(c)) /\ Hashes(a.h, c)
  BY DEF LoopInv
<1>3. c \in Seq(Bytes) /\ Len(c) = i - a.start /\ d = Append(c, b)
  BY <1>1, SliceGrows
<1>4. d \in Seq(Bytes) /\ Len(d) = Len(c) + 1 /\ Len(d) = size
  <2> HIDE DEF b, c, d
  <2>1. d \in Seq(Bytes) /\ Len(d) = Len(c) + 1
    BY <1>1, <1>3, AppendProperties
  <2> QED BY <1>1, <1>3, <2>1
<1>5. NoCut(d, Len(d) - 1)
  <2>1. NoCut(Append(c, b), Len(c))
    <3> HIDE DEF c, b
    <3> QED BY <1>1, <1>2, <1>3, NoCutGrows
  <2>2. Len(d) - 1 = Len(c)
    <3> HIDE DEF c, d
    <3> QED BY <1>3, <1>4
  <2> QED BY <1>3, <2>1, <2>2
<1>6. h \in Nat /\ Hashes(h, d)
  <2> HIDE DEF b, c, d
  <2> QED BY <1>1, <1>2, <1>3, HashStep
<1>7. next \in LoopStates
  BY <1>1, GearStepType
<1>8. /\ FlattenSeq(a.out) = SubSeq(buf, 1, a.start - 1)
      /\ \A n \in 1..Len(a.out) : CutRule(a.out[n])
  BY DEF LoopInv
<1>9. CASE (size >= Mn /\ h % 2 ^ MaskBits = 0) \/ size >= Mx
  <2>1. next = [h |-> 0, start |-> i + 1, out |-> Append(a.out, d)]
    BY <1>9 DEF GearStep
  <2>2. next.h = 0 /\ next.start = i + 1 /\ next.out = Append(a.out, d)
    <3> HIDE DEF next, d
    <3> QED BY <2>1
  <2>3. CutRule(d)
    <3> HIDE DEF c, d, h
    <3>1. Len(d) \in 1..Mx
      BY <1>2, <1>3, <1>4, SizesNat
    <3>2. CASE size >= Mx
      <4>1. Len(d) = Mx
        BY <1>4, <3>1, <3>2, SizesNat
      <4> QED BY <1>4, <1>5, <3>1, <4>1 DEF CutRule
    <3>3. CASE size >= Mn /\ h % 2 ^ MaskBits = 0
      <4>1. Len(d) >= Mn
        BY <1>4, <3>3
      <4>2. Zeros(d)
        BY <1>4, <1>6, <3>3, <4>1, MaskSees
      <4> QED BY <1>4, <1>5, <3>1, <4>1, <4>2 DEF CutRule
    <3> QED BY <1>9, <3>2, <3>3 DEF h
  <2>4. FlattenSeq(next.out) = SubSeq(buf, 1, next.start - 1)
    <3>1. FlattenSeq(Append(a.out, d)) = FlattenSeq(a.out) \o d
      BY <1>1, <1>4, FlattenAppend
    <3>2. SubSeq(buf, 1, a.start - 1) \o d = SubSeq(buf, 1, i)
      <4>1. i \in 0..Len(buf) /\ a.start <= i + 1
        BY <1>1
      <4> QED BY <1>1, <4>1, SlicesJoin
    <3>3. next.start - 1 = i
      <4> HIDE DEF next
      <4> QED BY <1>1, <2>2
    <3> HIDE DEF next, d
    <3> QED BY <1>8, <2>2, <3>1, <3>2, <3>3
  <2>5. \A n \in 1..Len(next.out) : CutRule(next.out[n])
    <3> HIDE DEF next, d
    <3>1. ASSUME NEW n \in 1..Len(Append(a.out, d)) PROVE CutRule(Append(a.out, d)[n])
      BY <1>1, <1>4, <1>8, <2>3, AppendAll
    <3> QED BY <2>2, <3>1
  <2> DEFINE e == SubSeq(buf, next.start, i)
  <2>6. Len(e) < Mx /\ NoCut(e, Len(e)) /\ Hashes(next.h, e)
    <3>1. e = SubSeq(buf, i + 1, i)
      BY <2>2
    <3>2. e = << >> /\ Len(e) = 0
      BY <1>1, <3>1
    <3>3. NoCut(e, Len(e)) /\ Len(e) < Mx
      BY <3>2, SizesNat DEF NoCut
    <3>4. Window(e, Len(e)) = 0
      BY <3>2, WindowZero
    <3> HIDE DEF e, next
    <3> QED BY <2>2, <3>3, <3>4 DEF Hashes
  <2>7. next.start <= i + 1
    <3> HIDE DEF next
    <3> QED BY <1>1, <2>2
  <2> HIDE DEF next
  <2>8. LoopInv(buf, next, i)
    BY <1>7, <2>4, <2>5, <2>6, <2>7 DEF LoopInv
  <2> QED BY <2>8 DEF next
<1>10. CASE ~((size >= Mn /\ h % 2 ^ MaskBits = 0) \/ size >= Mx)
  <2>1. next = [a EXCEPT !.h = h]
    BY <1>10 DEF GearStep
  <2>2. next.h = h /\ next.start = a.start /\ next.out = a.out
    <3> HIDE DEF next, h
    <3> QED BY <1>1, <2>1 DEF LoopStates
  <2>3. Len(d) < Mx /\ NoCut(d, Len(d))
    <3> HIDE DEF c, d, h
    <3>1. Len(d) < Mx
      BY <1>4, <1>10, SizesNat
    <3>2. ASSUME NEW s \in Mn..Len(d) PROVE ~Zeros(SubSeq(d, 1, s))
      <4>1. CASE s = Len(d)
        <5>1. SubSeq(d, 1, s) = d
          BY <1>4, <4>1, SubSeqFull
        <5>2. Len(d) >= Mn
          BY <1>4, <4>1, SizesNat
        <5>3. h % 2 ^ MaskBits # 0
          BY <1>4, <1>10, <5>2 DEF h
        <5>4. ~Zeros(d)
          BY <1>4, <1>6, <5>2, <5>3, MaskSees
        <5> QED BY <5>1, <5>4
      <4>2. CASE s # Len(d)
        <5>1. s \in Mn..(Len(d) - 1)
          BY <1>4, <4>2, SizesNat
        <5> QED BY <1>5, <5>1 DEF NoCut
      <4> QED BY <4>1, <4>2
    <3> QED BY <3>1, <3>2 DEF NoCut
  <2>4. next.start <= i + 1 /\ SubSeq(buf, next.start, i) = d
    BY <1>1, <2>2
  <2> HIDE DEF next, d, h
  <2>5. LoopInv(buf, next, i)
    BY <1>6, <1>7, <1>8, <2>2, <2>3, <2>4 DEF LoopInv
  <2> QED BY <2>5 DEF next
<1> QED BY <1>9, <1>10

LEMMA LoopAll ==
  ASSUME NEW buf \in Seq(Bytes)
  PROVE  LoopInv(buf, GearLoop(buf)[Len(buf)], Len(buf))
<1> DEFINE t == GearLoop(buf)
           n == Len(buf)
           P == {i \in 0..n : LoopInv(buf, t[i], i)}
<1>1. n \in Nat /\ 0 \in Nat /\ 0 \in 0..n /\ n \in 0..n
  OBVIOUS
<1>2. 0 \in P
  <2>1. t[0] = LoopStart
    BY GearLoopIs
  <2>2. LoopInv(buf, t[0], 0)
    BY <2>1, LoopInit
  <2> HIDE DEF t, n
  <2> QED BY <1>1, <2>2
<1>3. ASSUME NEW i \in 0..n, i > 0, i - 1 \in P PROVE i \in P
  <2>1. i \in 1..n
    BY <1>3
  <2>2. t[i] = GearStep(buf, t[i - 1], i)
    BY <1>3, GearLoopIs
  <2> HIDE DEF t
  <2>3. LoopInv(buf, t[i - 1], i - 1)
    BY <1>3
  <2>4. LoopInv(buf, GearStep(buf, t[i - 1], i), i)
    BY <2>1, <2>3, LoopStep
  <2> HIDE DEF n
  <2> QED BY <2>2, <2>4
<1>4. 0..n \subseteq P
  <2> HIDE DEF P, n, t
  <2> QED BY <1>1, <1>2, <1>3, IntervalInduction
<1>5. n \in P
  <2> HIDE DEF P, n, t
  <2> QED BY <1>1, <1>4
<1> HIDE DEF t
<1>6. LoopInv(buf, t[n], n)
  BY <1>5
<1> QED BY <1>6 DEF t

(* A chunk of CDC mode, cut or left over at the end of the buffer. *)
CdcChunk(c) == c \in Seq(Bytes) /\ Len(c) \in 1..Mx /\ NoCut(c, Len(c) - 1)

(***************************************************************************)
(* What the loop and the tail give: the buffer, in chunks that keep the    *)
(* rule.                                                                   *)
(***************************************************************************)
LEMMA CdcCuts ==
  ASSUME NEW buf \in Seq(Bytes)
  PROVE  /\ CdcBlocks(buf) \in Seq(Seq(Bytes)) /\ FlattenSeq(CdcBlocks(buf)) = buf
         /\ \A n \in 1..Len(CdcBlocks(buf)) :
              LET c == CdcBlocks(buf)[n]
              IN /\ CdcChunk(c)
                 /\ CutRule(c) \/ Size(SubSeq(CdcBlocks(buf), 1, n)) = Len(buf)
<1> DEFINE L == Len(buf)
           a == GearLoop(buf)[L]
           cs == CdcBlocks(buf)
           c == SubSeq(buf, a.start, L)
<1>1. LoopInv(buf, a, L)
  BY LoopAll
<1> HIDE DEF a
<1>2. /\ a.start \in Nat \ {0} /\ a.start <= L + 1 /\ a.out \in Seq(Seq(Bytes)) /\ L \in Nat
      /\ FlattenSeq(a.out) = SubSeq(buf, 1, a.start - 1)
      /\ \A n \in 1..Len(a.out) : CutRule(a.out[n])
  BY <1>1 DEF LoopInv, LoopStates
<1>3. Len(c) < Mx /\ NoCut(c, Len(c))
  BY <1>1 DEF LoopInv
<1>4. CASE a.start <= L
  <2>1. cs = Append(a.out, c)
    BY <1>4 DEF CdcBlocks, a
  <2>2. c \in Seq(Bytes) /\ Len(c) = L - a.start + 1
    BY <1>2, <1>4
  <2>3. cs \in Seq(Seq(Bytes))
    <3> HIDE DEF c, cs
    <3> QED BY <1>2, <2>1, <2>2, AppendProperties
  <2>4. FlattenSeq(cs) = buf
    <3>1. FlattenSeq(Append(a.out, c)) = FlattenSeq(a.out) \o c
      <4> HIDE DEF c
      <4> QED BY <1>2, <2>2, FlattenAppend
    <3>2. SubSeq(buf, 1, a.start - 1) \o c = SubSeq(buf, 1, L)
      <4>1. L \in 0..Len(buf)
        BY <1>2
      <4> QED BY <1>2, <4>1, SlicesJoin
    <3>3. SubSeq(buf, 1, L) = buf
      BY SubSeqFull
    <3> HIDE DEF c, cs, L
    <3> QED BY <1>2, <2>1, <3>1, <3>2, <3>3
  <2>5. CdcChunk(c)
    <3>1. Len(c) \in 1..Mx /\ Len(c) \in Nat
      <4> HIDE DEF c, L
      <4> QED BY <1>2, <1>3, <1>4, <2>2, SizesNat
    <3>2. NoCut(c, Len(c) - 1)
      <4> HIDE DEF c
      <4> QED BY <1>3, <3>1, SizesNat DEF NoCut
    <3> HIDE DEF c
    <3> QED BY <2>2, <3>1, <3>2 DEF CdcChunk
  <2>6. Size(SubSeq(cs, 1, Len(cs))) = L
    <3>1. SubSeq(cs, 1, Len(cs)) = cs
      BY <2>3, SubSeqFull
    <3>2. Len(FlattenSeq(cs)) = Size(cs)
      BY <2>3, FlattenSize
    <3> QED BY <2>4, <3>1, <3>2
  <2>7. ASSUME NEW n \in 1..Len(cs)
        PROVE  CdcChunk(cs[n]) /\ (CutRule(cs[n]) \/ Size(SubSeq(cs, 1, n)) = L)
    <3> HIDE DEF c, cs, L
    <3>1. \/ n \in 1..Len(a.out) /\ cs[n] = a.out[n]
          \/ n = Len(a.out) + 1 /\ cs[n] = c
      BY <1>2, <2>1, <2>2, AppendAll
    <3>2. CASE n \in 1..Len(a.out) /\ cs[n] = a.out[n]
      BY <1>2, <3>2 DEF CutRule, CdcChunk
    <3>3. CASE n = Len(a.out) + 1 /\ cs[n] = c
      <4>1. n = Len(cs)
        BY <1>2, <2>1, <2>2, <3>3, AppendProperties
      <4> QED BY <2>5, <2>6, <3>3, <4>1
    <3> QED BY <3>1, <3>2, <3>3
  <2> HIDE DEF cs
  <2>8. /\ cs \in Seq(Seq(Bytes)) /\ FlattenSeq(cs) = buf
        /\ \A n \in 1..Len(cs) :
             CdcChunk(cs[n]) /\ (CutRule(cs[n]) \/ Size(SubSeq(cs, 1, n)) = L)
    BY <2>3, <2>4, <2>7
  <2> QED BY <2>8 DEF cs
<1>5. CASE a.start > L
  <2>1. cs = a.out
    BY <1>2, <1>5 DEF CdcBlocks, a
  <2>2. a.start - 1 = L
    BY <1>2, <1>5
  <2>3. FlattenSeq(cs) = buf
    BY <1>2, <2>1, <2>2, SubSeqFull
  <2> HIDE DEF cs
  <2>4. \A n \in 1..Len(cs) : CdcChunk(cs[n]) /\ CutRule(cs[n])
    BY <1>2, <2>1 DEF CutRule, CdcChunk
  <2>5. /\ cs \in Seq(Seq(Bytes)) /\ FlattenSeq(cs) = buf
        /\ \A n \in 1..Len(cs) :
             CdcChunk(cs[n]) /\ (CutRule(cs[n]) \/ Size(SubSeq(cs, 1, n)) = L)
    BY <1>2, <2>1, <2>3, <2>4
  <2> QED BY <2>5 DEF cs
<1> QED BY <1>2, <1>4, <1>5

-----------------------------------------------------------------------------
(* Fixed blocks. *)

(* How many blocks: enough for the bytes, and no empty one. *)
LEMMA BlockCount ==
  ASSUME NEW L \in Nat, NEW B \in Nat \ {0}, NEW K, K = (L + B - 1) \div B
  PROVE  K \in Nat /\ K * B >= L /\ (K > 0 => (K - 1) * B < L)
<1> DEFINE x == L + B - 1
<1>1. x \in Nat
  OBVIOUS
<1>2. K \in Nat
  BY <1>1
<1> HIDE DEF x
<1>3. x \div B \in Nat /\ x % B \in 0..(B - 1)
  BY <1>1
<1>4. x = (x \div B) * B + (x % B)
  BY <1>1
<1>5. K = x \div B
  BY DEF x
<1> DEFINE r == x % B
<1>6. r \in 0..(B - 1) /\ x = K * B + r
  BY <1>3, <1>4, <1>5
<1> HIDE DEF r
<1>7. K * B \in Nat /\ (K - 1) * B = K * B - B
  BY <1>2
<1>8. L + B - 1 = K * B + r
  BY <1>6 DEF x
<1> DEFINE y == K * B
           z == (K - 1) * B
<1>9. y \in Nat /\ z = y - B /\ L + B - 1 = y + r
  BY <1>7, <1>8
<1> HIDE DEF y, z
<1>10. y >= L /\ z < L
  BY <1>6, <1>9
<1> QED BY <1>2, <1>10 DEF y, z

LEMMA BlockEdges ==
  ASSUME NEW K \in Nat, NEW B \in Nat \ {0}, NEW n \in 1..K, NEW L \in Nat, (K - 1) * B < L
  PROVE  /\ (n - 1) * B \in Nat /\ n * B \in Nat /\ n * B = (n - 1) * B + B
         /\ (n - 1) * B < L /\ (n < K => n * B < L)
<1>1. (n - 1) * B \in Nat /\ n * B \in Nat /\ n * B = (n - 1) * B + B
  OBVIOUS
<1>2. \A k \in 0..(K - 1) : k * B <= (K - 1) * B
  <2> TAKE k \in 0..(K - 1)
  <2> DEFINE d == (K - 1) - k
  <2>1. d \in Nat /\ (K - 1) = k + d
    OBVIOUS
  <2>2. (k + d) * B = k * B + d * B /\ d * B >= 0
    BY <2>1
  <2> HIDE DEF d
  <2> QED BY <2>1, <2>2
<1>3. (n - 1) * B <= (K - 1) * B
  BY <1>2
<1>4. n < K => n * B <= (K - 1) * B
  BY <1>2
<1> QED BY <1>1, <1>3, <1>4

(* Where the n-th fixed block of L bytes ends. *)
BlockEnd(n, L) == IF n * BlockSize <= L THEN n * BlockSize ELSE L

(***************************************************************************)
(* Each fixed block starts where the one before ended, and only the last   *)
(* may be short.                                                           *)
(***************************************************************************)
LEMMA FixedShape ==
  ASSUME NEW buf \in Seq(Bytes), NEW K, K = (Len(buf) + BlockSize - 1) \div BlockSize
  PROVE  /\ K \in Nat /\ BlockEnd(0, Len(buf)) = 0 /\ BlockEnd(K, Len(buf)) = Len(buf)
         /\ FixedBlocks(buf) \in Seq(Seq(Bytes)) /\ Len(FixedBlocks(buf)) = K
         /\ \A n \in 1..K :
              /\ BlockEnd(n - 1, Len(buf)) \in 0..Len(buf)
              /\ BlockEnd(n, Len(buf)) \in 0..Len(buf)
              /\ FixedBlocks(buf)[n]
                   = SubSeq(buf, BlockEnd(n - 1, Len(buf)) + 1, BlockEnd(n, Len(buf)))
              /\ BlockEnd(n, Len(buf)) - BlockEnd(n - 1, Len(buf)) \in 1..BlockSize
              /\ n < K => BlockEnd(n, Len(buf)) - BlockEnd(n - 1, Len(buf)) = BlockSize
<1> DEFINE L == Len(buf)
           cs == FixedBlocks(buf)
<1>1. L \in Nat /\ BlockSize \in Nat \ {0}
  BY ChunkingAssumption
<1>2. K \in Nat /\ K * BlockSize >= L /\ (K > 0 => (K - 1) * BlockSize < L)
  <2> HIDE DEF L
  <2>1. K = (L + BlockSize - 1) \div BlockSize
    BY DEF L
  <2> QED BY <1>1, <2>1, BlockCount
<1>3. BlockEnd(0, L) = 0 /\ BlockEnd(K, L) = L
  <2> HIDE DEF L
  <2>1. 0 * BlockSize = 0 /\ K * BlockSize \in Nat
    BY <1>1, <1>2
  <2> QED BY <1>1, <1>2, <2>1 DEF BlockEnd
<1>4. ASSUME NEW n \in 1..K
      PROVE  /\ BlockEnd(n - 1, L) = (n - 1) * BlockSize
             /\ BlockEnd(n - 1, L) \in 0..L /\ BlockEnd(n, L) \in 0..L
             /\ BlockEnd(n, L) - BlockEnd(n - 1, L) \in 1..BlockSize
             /\ n < K => BlockEnd(n, L) - BlockEnd(n - 1, L) = BlockSize
             /\ BlockEnd(n, L) = Min({n * BlockSize, L})
  <2> HIDE DEF L
  <2> DEFINE x == (n - 1) * BlockSize
             y == n * BlockSize
  <2>1. K > 0
    BY <1>2, <1>4
  <2>2. x \in Nat /\ y \in Nat /\ y = x + BlockSize /\ x < L /\ (n < K => y < L)
    BY <1>1, <1>2, <2>1, BlockEdges
  <2>3. Min({y, L}) = IF y <= L THEN y ELSE L
    <3> HIDE DEF y
    <3>1. y \in Int /\ L \in Int
      BY <1>1, <2>2
    <3> QED BY <3>1, MinIs
  <2>4. /\ BlockEnd(n - 1, L) = IF x <= L THEN x ELSE L
        /\ BlockEnd(n, L) = IF y <= L THEN y ELSE L
    BY DEF BlockEnd
  <2> HIDE DEF x, y
  <2>5. /\ BlockEnd(n - 1, L) = x
        /\ BlockEnd(n - 1, L) \in 0..L /\ BlockEnd(n, L) \in 0..L
        /\ BlockEnd(n, L) - BlockEnd(n - 1, L) \in 1..BlockSize
        /\ n < K => BlockEnd(n, L) - BlockEnd(n - 1, L) = BlockSize
    BY <1>1, <2>2, <2>4
  <2> QED BY <2>3, <2>4, <2>5 DEF x, y
<1>5. cs = [n \in 1..K |-> SubSeq(buf, (n - 1) * BlockSize + 1, Min({n * BlockSize, L}))]
  BY DEF FixedBlocks
<1>6. ASSUME NEW n \in 1..K PROVE cs[n] = SubSeq(buf, BlockEnd(n - 1, L) + 1, BlockEnd(n, L))
  <2>1. cs[n] = SubSeq(buf, (n - 1) * BlockSize + 1, Min({n * BlockSize, L}))
    <3> HIDE DEF L, cs
    <3> QED BY <1>5
  <2>2. BlockEnd(n - 1, L) = (n - 1) * BlockSize /\ BlockEnd(n, L) = Min({n * BlockSize, L})
    BY <1>4
  <2> HIDE DEF L, cs
  <2> QED BY <2>1, <2>2
<1>7. ASSUME NEW n \in 1..K PROVE cs[n] \in Seq(Bytes)
  <2> DEFINE x == BlockEnd(n - 1, L)
             y == BlockEnd(n, L)
  <2>1. x \in 0..L /\ y \in 0..L
    BY <1>4
  <2> HIDE DEF x, y
  <2>2. SubSeq(buf, x + 1, y) \in Seq(Bytes)
    BY <2>1
  <2> QED BY <1>6, <2>2 DEF x, y
<1> HIDE DEF cs, L
<1>8. DOMAIN cs = 1..K /\ cs \in [1..K -> Seq(Bytes)]
  BY <1>5, <1>7
<1>9. cs \in Seq(Seq(Bytes)) /\ Len(cs) = K
  BY <1>2, <1>8
<1>10. \A n \in 1..K :
              /\ BlockEnd(n - 1, L) \in 0..L /\ BlockEnd(n, L) \in 0..L
              /\ cs[n] = SubSeq(buf, BlockEnd(n - 1, L) + 1, BlockEnd(n, L))
              /\ BlockEnd(n, L) - BlockEnd(n - 1, L) \in 1..BlockSize
              /\ n < K => BlockEnd(n, L) - BlockEnd(n - 1, L) = BlockSize
  BY <1>4, <1>6
<1> QED BY <1>2, <1>3, <1>9, <1>10 DEF cs, L

LEMMA FixedRestores ==
  ASSUME NEW buf \in Seq(Bytes)
  PROVE  FlattenSeq(FixedBlocks(buf)) = buf
<1> DEFINE L == Len(buf)
           cs == FixedBlocks(buf)
           K == (L + BlockSize - 1) \div BlockSize
           P == {n \in 0..K : FlattenSeq(SubSeq(cs, 1, n)) = SubSeq(buf, 1, BlockEnd(n, L))}
<1>1. /\ K \in Nat /\ BlockEnd(0, L) = 0 /\ BlockEnd(K, L) = L
      /\ cs \in Seq(Seq(Bytes)) /\ Len(cs) = K
      /\ \A n \in 1..K :
              /\ BlockEnd(n - 1, L) \in 0..L /\ BlockEnd(n, L) \in 0..L
              /\ cs[n] = SubSeq(buf, BlockEnd(n - 1, L) + 1, BlockEnd(n, L))
              /\ BlockEnd(n, L) - BlockEnd(n - 1, L) \in 1..BlockSize
  BY FixedShape
<1> HIDE DEF K, cs
<1>2. 0 \in P
  <2>1. SubSeq(cs, 1, 0) = << >> /\ SubSeq(buf, 1, 0) = << >>
    BY <1>1, PrefixZero
  <2>2. FlattenSeq(SubSeq(cs, 1, 0)) = SubSeq(buf, 1, BlockEnd(0, L))
    BY <1>1, <2>1, FlattenEmpty
  <2> QED BY <1>1, <2>2
<1>3. ASSUME NEW n \in 0..K, n > 0, n - 1 \in P PROVE n \in P
  <2> DEFINE x == BlockEnd(n - 1, L)
             y == BlockEnd(n, L)
             p == SubSeq(cs, 1, n - 1)
  <2>1. n \in 1..Len(cs) /\ n - 1 \in 0..Len(cs) /\ n \in 1..K
    BY <1>1, <1>3
  <2>2. /\ x \in 0..L /\ y \in 0..L /\ cs[n] = SubSeq(buf, x + 1, y)
        /\ y - x \in 1..BlockSize
    BY <1>1, <2>1
  <2>3. SubSeq(cs, 1, n) = Append(p, cs[n]) /\ p \in Seq(Seq(Bytes)) /\ cs[n] \in Seq(Bytes)
    <3>1. SubSeq(cs, 1, n) = Append(p, cs[n])
      BY <1>1, <2>1, PrefixAppend
    <3>2. p \in Seq(Seq(Bytes))
      BY <1>1, <2>1, PrefixType
    <3>3. cs[n] \in Seq(Bytes)
      BY <1>1, <2>1, ElementOfSeq
    <3> QED BY <3>1, <3>2, <3>3
  <2>4. FlattenSeq(p) = SubSeq(buf, 1, x)
    BY <1>3
  <2> HIDE DEF x, y, p
  <2>5. FlattenSeq(Append(p, cs[n])) = FlattenSeq(p) \o cs[n]
    BY <2>3, FlattenAppend
  <2>6. SubSeq(buf, 1, x) \o SubSeq(buf, x + 1, y) = SubSeq(buf, 1, y)
    <3> DEFINE z == x + 1
    <3>1. z \in Nat \ {0} /\ y \in 0..Len(buf) /\ z <= y + 1 /\ z - 1 = x
      BY <2>2, ChunkingAssumption
    <3> HIDE DEF z
    <3>2. SubSeq(buf, 1, z - 1) \o SubSeq(buf, z, y) = SubSeq(buf, 1, y)
      BY <3>1, SlicesJoin
    <3> QED BY <3>1, <3>2 DEF z
  <2>7. FlattenSeq(SubSeq(cs, 1, n)) = SubSeq(buf, 1, y)
    BY <2>2, <2>3, <2>4, <2>5, <2>6
  <2> QED BY <2>7 DEF y
<1>4. K \in P
  <2>1. 0..K \subseteq P
    <3> HIDE DEF P
    <3> QED BY <1>1, <1>2, <1>3, IntervalInduction
  <2> QED BY <1>1, <2>1
<1>5. SubSeq(cs, 1, K) = cs /\ SubSeq(buf, 1, L) = buf
  BY <1>1, SubSeqFull
<1> QED BY <1>1, <1>4, <1>5 DEF cs

(* A short block is the last, and only of a buffer that is not full. *)
LEMMA FixedCuts ==
  ASSUME NEW buf \in Seq(Bytes), NEW n \in 1..Len(FixedBlocks(buf))
  PROVE  /\ Len(FixedBlocks(buf)[n]) \in 1..BlockSize
         /\ \/ Len(FixedBlocks(buf)[n]) = BlockSize
            \/ /\ Len(buf) % BlockSize # 0
               /\ Size(SubSeq(FixedBlocks(buf), 1, n)) = Len(buf)
<1> DEFINE L == Len(buf)
           cs == FixedBlocks(buf)
           K == (L + BlockSize - 1) \div BlockSize
           x == BlockEnd(n - 1, L)
           y == BlockEnd(n, L)
<1>0. L \in Nat /\ BlockSize \in Nat \ {0}
  BY ChunkingAssumption
<1>1. /\ K \in Nat /\ BlockEnd(K, L) = L /\ cs \in Seq(Seq(Bytes)) /\ Len(cs) = K
      /\ x \in 0..L /\ y \in 0..L /\ cs[n] = SubSeq(buf, x + 1, y)
      /\ y - x \in 1..BlockSize /\ (n < K => y - x = BlockSize)
  BY FixedShape
<1> HIDE DEF K, cs
<1>2. Len(cs[n]) = y - x
  <2> HIDE DEF x, y
  <2>1. Len(SubSeq(buf, x + 1, y)) = y - x
    BY <1>0, <1>1
  <2> QED BY <1>1, <2>1
<1>3. CASE n < K
  BY <1>1, <1>2, <1>3 DEF cs
<1>4. CASE n = K
  <2>1. SubSeq(cs, 1, n) = cs
    BY <1>1, <1>4, SubSeqFull
  <2>2. Size(cs) = Len(buf)
    <3>1. Len(FlattenSeq(cs)) = Size(cs)
      BY <1>1, FlattenSize
    <3>2. FlattenSeq(cs) = buf
      BY FixedRestores DEF cs
    <3> QED BY <3>1, <3>2
  <2>3. ASSUME L % BlockSize = 0 PROVE y - x = BlockSize
    <3>1. PICK q \in Nat : L = q * BlockSize + (L % BlockSize)
      <4> HIDE DEF L
      <4> QED BY <1>0, RemainderIs
    <3>2. L = q * BlockSize
      BY <1>0, <2>3, <3>1
    <3>3. y = L /\ (x = (n - 1) * BlockSize \/ x = L)
      BY <1>1, <1>4 DEF x, y, BlockEnd
    <3>4. x = (n - 1) * BlockSize
      <4> HIDE DEF x, y, L
      <4> QED BY <1>0, <1>1, <1>4, <3>3
    <3> DEFINE d == q - (n - 1)
    <3>5. d \in Int /\ q = (n - 1) + d
      BY <1>1
    <3>6. ((n - 1) + d) * BlockSize = (n - 1) * BlockSize + d * BlockSize
      BY <1>0, <1>1, <3>5
    <3>7. y - x = d * BlockSize
      <4> HIDE DEF x, y, L, d
      <4> QED BY <1>0, <1>1, <1>4, <3>2, <3>3, <3>4, <3>5, <3>6
    <3> HIDE DEF d, x, y, L
    <3>8. d * BlockSize \in 1..BlockSize
      BY <1>1, <3>7
    <3>9. CASE d <= 0
      <4>1. d * BlockSize <= 0
        BY <1>0, <3>5, <3>9
      <4> QED BY <1>0, <3>8, <4>1
    <3>10. CASE d >= 2
      <4>1. d * BlockSize >= 2 * BlockSize
        BY <1>0, <3>5, <3>10
      <4> QED BY <1>0, <3>8, <4>1
    <3>11. CASE d = 1
      BY <1>0, <3>7, <3>11
    <3> QED BY <3>5, <3>9, <3>10, <3>11
  <2>4. Len(cs[n]) = BlockSize \/ L % BlockSize # 0
    BY <1>2, <2>3
  <2>5. Len(cs[n]) \in 1..BlockSize
    BY <1>1, <1>2
  <2> QED BY <2>1, <2>2, <2>4, <2>5 DEF cs, L
<1> QED BY <1>1, <1>3, <1>4 DEF cs

-----------------------------------------------------------------------------
(* put_file *)

(* The rule of CutsAreLocal for one chunk and where it ends. *)
LocalCut(c, end) ==
  IF ~cdc
    THEN Len(c) = BlockSize \/ (end = Len(file) /\ Len(c) \in 1..BlockSize)
    ELSE /\ Len(c) \in 1..Mx
         /\ \A s \in Mn..(Len(c) - 1) : ~Zeros(SubSeq(c, 1, s))
         /\ \/ end % Buf = 0 \/ end = Len(file)
            \/ Len(c) = Mx
            \/ Len(c) >= Mn /\ Zeros(c)

(***************************************************************************)
(* The invariant of put_file: besides the two properties, the types, and   *)
(* that every read but the last ends at a multiple of the buffer, without  *)
(* which the short block of one buffer could stand in the middle of the    *)
(* file.                                                                   *)
(***************************************************************************)
PutInv ==
  /\ cdc \in BOOLEAN /\ file \in Seq(Bytes) /\ listed \in Seq(Seq(Bytes))
  /\ pos \in 0..Len(file) /\ (pos % Buf = 0 \/ pos = Len(file))
  /\ RestoresFile
  /\ CutsAreLocal

LEMMA CutsAreLocalIs ==
  CutsAreLocal <=> \A n \in 1..Len(listed) : LocalCut(listed[n], Size(SubSeq(listed, 1, n)))
BY DEF CutsAreLocal, LocalCut

LEMMA PutInvInit == PutInit => PutInv
<1> SUFFICES ASSUME PutInit PROVE PutInv
  OBVIOUS
<1>1. cdc \in BOOLEAN /\ listed = << >> /\ pos = 0 /\ known = {} /\ logical = 0 /\ chunks = 0
  BY DEF PutInit
<1>2. file \in Seq(Bytes)
  BY DEF PutInit, BoundedSeq, SeqOf
<1>3. Buf \in Nat \ {0}
  BY ChunkingAssumption
<1>4. listed \in Seq(Seq(Bytes)) /\ Len(listed) = 0 /\ pos \in 0..Len(file) /\ pos % Buf = 0
  BY <1>1, <1>2, <1>3
<1>5. RestoresFile
  <2>1. SubSeq(file, 1, 0) = << >>
    BY <1>2, PrefixZero
  <2>2. FlattenSeq(listed) = SubSeq(file, 1, pos)
    BY <1>1, <2>1, FlattenEmpty
  <2>3. ToSet(listed) \subseteq known
    BY <1>1 DEF ToSet
  <2> QED BY <1>1, <1>4, <2>2, <2>3 DEF RestoresFile
<1>6. CutsAreLocal
  BY <1>4, CutsAreLocalIs
<1> QED BY <1>1, <1>2, <1>4, <1>5, <1>6 DEF PutInv

(* What _blocks cuts gives the buffer back, and each chunk keeps its rule. *)
LEMMA BlocksRestore ==
  ASSUME NEW buf \in Seq(Bytes)
  PROVE  CutBlocks(buf) \in Seq(Seq(Bytes)) /\ FlattenSeq(CutBlocks(buf)) = buf
<1>1. CASE cdc
  BY <1>1, CdcCuts DEF CutBlocks
<1>2. CASE ~cdc
  <2>1. FixedBlocks(buf) \in Seq(Seq(Bytes))
    BY FixedShape
  <2> QED BY <1>2, <2>1, FixedRestores DEF CutBlocks
<1> QED BY <1>1, <1>2

(* Where the chunks of one buffer end in the file. *)
LEMMA BlocksAreLocal ==
  ASSUME PutInv, NEW buf \in Seq(Bytes), NEW e \in 1..Len(file), Len(buf) = e - pos,
         e = Len(file) \/ (e % Buf = 0 /\ Len(buf) = Buf),
         NEW m \in 1..Len(CutBlocks(buf))
  PROVE  LocalCut(CutBlocks(buf)[m], pos + Size(SubSeq(CutBlocks(buf), 1, m)))
<1> DEFINE new == CutBlocks(buf)
           c == new[m]
           z == Size(SubSeq(new, 1, m))
<1>1. z \in Nat /\ pos \in Nat /\ Len(file) \in Nat
  <2>1. new \in Seq(Seq(Bytes))
    BY BlocksRestore
  <2>2. m \in 0..Len(new)
    BY <2>1
  <2> HIDE DEF new
  <2>3. SubSeq(new, 1, m) \in Seq(Seq(Bytes))
    BY <2>1, <2>2, PrefixType
  <2>4. z \in Nat
    BY <2>3, SizeType
  <2> QED BY <2>4 DEF PutInv
<1>2. z = Len(buf) => pos + z = e
  <2> HIDE DEF z
  <2> QED BY <1>1
<1>3. CASE ~cdc
  <2>1. new = FixedBlocks(buf)
    BY <1>3 DEF CutBlocks
  <2>2. /\ Len(c) \in 1..BlockSize
        /\ Len(c) = BlockSize \/ (Len(buf) % BlockSize # 0 /\ z = Len(buf))
    BY <2>1, FixedCuts
  <2>3. Len(buf) % BlockSize # 0 => e = Len(file)
    BY ChunkingAssumption
  <2> HIDE DEF c, z
  <2>4. LocalCut(c, pos + z)
    BY <1>2, <1>3, <2>2, <2>3 DEF LocalCut
  <2> QED BY <2>4 DEF c, z
<1>4. CASE cdc
  <2>1. new = CdcBlocks(buf)
    BY <1>4 DEF CutBlocks
  <2>2. CdcChunk(c) /\ (CutRule(c) \/ z = Len(buf))
    BY <2>1, CdcCuts
  <2> HIDE DEF c, z
  <2>3. Len(c) \in 1..Mx /\ \A s \in Mn..(Len(c) - 1) : ~Zeros(SubSeq(c, 1, s))
    BY <2>2 DEF CdcChunk, NoCut
  <2>4. CutRule(c) => Len(c) = Mx \/ (Len(c) >= Mn /\ Zeros(c))
    BY DEF CutRule
  <2>5. z = Len(buf) => (pos + z) % Buf = 0 \/ pos + z = Len(file)
    BY <1>2
  <2>6. LocalCut(c, pos + z)
    BY <1>4, <2>2, <2>3, <2>4, <2>5 DEF LocalCut
  <2> QED BY <2>6 DEF c, z
<1> QED BY <1>3, <1>4

LEMMA ConcatOld ==
  ASSUME NEW S, NEW s \in Seq(S), NEW t \in Seq(S), NEW n \in 1..Len(s)
  PROVE  (s \o t)[n] = s[n] /\ SubSeq(s \o t, 1, n) = SubSeq(s, 1, n)
<1>1. 1 \in 1..Len(s)
  OBVIOUS
<1>2. SubSeq(s \o t, 1, n) = SubSeq(s, 1, n)
  BY <1>1, SubSeqOfConcat1
<1> QED BY <1>2

LEMMA ConcatNew ==
  ASSUME NEW S, NEW s \in Seq(S), NEW t \in Seq(S), NEW m \in 1..Len(t)
  PROVE  SubSeq(s \o t, 1, Len(s) + m) = s \o SubSeq(t, 1, m)
<1> DEFINE n == Len(s) + m
           l == SubSeq(s \o t, 1, n)
           p == SubSeq(t, 1, m)
           r == s \o p
<1>1. /\ s \o t \in Seq(S) /\ Len(s \o t) = Len(s) + Len(t)
      /\ n \in 0..(Len(s) + Len(t)) /\ m \in 0..Len(t)
  OBVIOUS
<1>2. l \in Seq(S) /\ Len(l) = n
  <2> HIDE DEF n
  <2> QED BY <1>1, PrefixType
<1>3. p \in Seq(S) /\ Len(p) = m /\ \A i \in 1..m : p[i] = t[i]
  BY <1>1
<1>4. r \in Seq(S) /\ Len(r) = n
  <2> HIDE DEF p
  <2> QED BY <1>3, ConcatProperties
<1>5. ASSUME NEW i \in 1..n PROVE l[i] = r[i]
  <2>1. l[i] = (s \o t)[i]
    <3> HIDE DEF n
    <3> QED BY <1>1, <1>5
  <2>2. (s \o t)[i] = IF i <= Len(s) THEN s[i] ELSE t[i - Len(s)]
    BY <1>1, <1>5
  <2>3. r[i] = IF i <= Len(s) THEN s[i] ELSE p[i - Len(s)]
    <3> HIDE DEF p
    <3> QED BY <1>3, <1>5
  <2>4. i > Len(s) => p[i - Len(s)] = t[i - Len(s)]
    <3> HIDE DEF p
    <3> QED BY <1>3, <1>5
  <2> HIDE DEF l, r, p
  <2> QED BY <2>1, <2>2, <2>3, <2>4
<1>6. l = r
  <2> HIDE DEF l, r, n
  <2> QED BY <1>2, <1>4, <1>5, SeqEqual
<1> QED BY <1>6

LEMMA ConcatSet ==
  ASSUME NEW S, NEW s \in Seq(S), NEW t \in Seq(S)
  PROVE  ToSet(s \o t) \subseteq ToSet(s) \cup ToSet(t)
<1>1. /\ s \o t \in Seq(S) /\ DOMAIN (s \o t) = 1..(Len(s) + Len(t))
      /\ DOMAIN s = 1..Len(s) /\ DOMAIN t = 1..Len(t)
  OBVIOUS
<1>2. ASSUME NEW i \in 1..(Len(s) + Len(t)) PROVE (s \o t)[i] \in ToSet(s) \cup ToSet(t)
  <2>1. CASE i <= Len(s)
    <3>1. i \in 1..Len(s) /\ (s \o t)[i] = s[i]
      BY <2>1
    <3>2. s[i] \in ToSet(s)
      BY <1>1, <3>1 DEF ToSet
    <3> QED BY <3>1, <3>2
  <2>2. CASE i > Len(s)
    <3>1. i - Len(s) \in 1..Len(t) /\ (s \o t)[i] = t[i - Len(s)]
      BY <2>2
    <3>2. t[i - Len(s)] \in ToSet(t)
      BY <1>1, <3>1 DEF ToSet
    <3> QED BY <3>1, <3>2
  <2> QED BY <2>1, <2>2
<1> QED BY <1>1, <1>2 DEF ToSet

LEMMA PutInvStep == PutInv /\ [PutBytes]_putVars => PutInv'
<1> SUFFICES ASSUME PutInv, [PutBytes]_putVars PROVE PutInv'
  OBVIOUS
<1>1. CASE PutBytes
  <2> DEFINE e == Min({pos + Buf, Len(file)})
             buf == SubSeq(file, pos + 1, e)
             new == CutBlocks(buf)
  <2>1. /\ cdc \in BOOLEAN /\ file \in Seq(Bytes) /\ listed \in Seq(Seq(Bytes))
        /\ pos \in 0..Len(file) /\ pos \in Nat /\ Len(file) \in Nat /\ Buf \in Nat \ {0}
        /\ pos < Len(file) /\ pos % Buf = 0
    BY <1>1, ChunkingAssumption DEF PutInv, PutBytes
  <2>2. /\ pos' = pos + Len(buf) /\ listed' = listed \o new
        /\ known' = known \cup ToSet(new) /\ logical' = logical + Size(new)
        /\ chunks' = chunks + Len(new) /\ cdc' = cdc /\ file' = file
    BY <1>1 DEF PutBytes
  <2>3. e = IF pos + Buf <= Len(file) THEN pos + Buf ELSE Len(file)
    <3>1. pos + Buf \in Int /\ Len(file) \in Int
      BY <2>1
    <3> QED BY <3>1, MinIs
  <2>4. e \in 1..Len(file) /\ pos < e
    <3> HIDE DEF e
    <3> QED BY <2>1, <2>3
  <2>5. buf \in Seq(Bytes) /\ Len(buf) = e - pos
    <3> HIDE DEF e
    <3> QED BY <2>1, <2>4
  <2>6. e = Len(file) \/ (e % Buf = 0 /\ Len(buf) = Buf)
    <3>1. (pos + Buf) % Buf = 0
      <4> DEFINE y == pos + Buf
      <4>1. y \in Nat /\ 1 \in Nat /\ y = 1 * Buf + pos
        BY <2>1
      <4> HIDE DEF y
      <4>2. pos % Buf = y % Buf
        BY <2>1, <4>1, RemainderOf
      <4> QED BY <2>1, <4>2 DEF y
    <3> HIDE DEF e, buf
    <3>2. CASE e = pos + Buf
      <4>1. Len(buf) = Buf
        BY <2>1, <2>5, <3>2
      <4> QED BY <3>1, <3>2, <4>1
    <3> QED BY <2>3, <3>2
  <2>7. new \in Seq(Seq(Bytes)) /\ FlattenSeq(new) = buf
    BY <2>5, BlocksRestore
  <2>8. pos' = e
    <3> HIDE DEF e, buf
    <3> QED BY <2>1, <2>2, <2>4, <2>5
  <2>9. pos' \in 0..Len(file) /\ (pos' % Buf = 0 \/ pos' = Len(file))
    <3> HIDE DEF e
    <3> QED BY <2>4, <2>6, <2>8
  <2>10. listed' \in Seq(Seq(Bytes)) /\ Len(listed') = Len(listed) + Len(new)
    <3> HIDE DEF new
    <3> QED BY <2>1, <2>2, <2>7, ConcatProperties
  <2>11. FlattenSeq(listed) = SubSeq(file, 1, pos) /\ ToSet(listed) \subseteq known
         /\ logical = pos /\ chunks = Len(listed)
    BY DEF PutInv, RestoresFile
  <2>12. Size(new) = Len(buf) /\ Size(listed) = pos
    <3>1. Len(FlattenSeq(new)) = Size(new) /\ Len(FlattenSeq(listed)) = Size(listed)
      BY <2>1, <2>7, FlattenSize
    <3>2. Len(SubSeq(file, 1, pos)) = pos
      BY <2>1, PrefixType
    <3> QED BY <2>7, <2>11, <3>1, <3>2
  <2>13. RestoresFile'
    <3>1. FlattenSeq(listed') = SubSeq(file', 1, pos')
      <4>1. FlattenSeq(listed \o new) = SubSeq(file, 1, pos) \o buf
        <5>1. FlattenSeq(listed \o new) = FlattenSeq(listed) \o FlattenSeq(new)
          BY <2>1, <2>7, FlattenConcat
        <5> QED BY <2>7, <2>11, <5>1
      <4>2. SubSeq(file, 1, pos) \o buf = SubSeq(file, 1, e)
        <5> DEFINE z == pos + 1
        <5>1. z \in Nat \ {0} /\ e \in 0..Len(file) /\ z <= e + 1 /\ z - 1 = pos
          <6> HIDE DEF e
          <6> QED BY <2>1, <2>4
        <5> HIDE DEF z, e
        <5>2. SubSeq(file, 1, z - 1) \o SubSeq(file, z, e) = SubSeq(file, 1, e)
          BY <2>1, <5>1, SlicesJoin
        <5> QED BY <5>1, <5>2 DEF z
      <4> QED BY <2>2, <2>8, <4>1, <4>2
    <3>2. ToSet(listed') \subseteq known'
      <4> HIDE DEF new
      <4>1. ToSet(listed \o new) \subseteq ToSet(listed) \cup ToSet(new)
        BY <2>1, <2>7, ConcatSet
      <4> QED BY <2>2, <2>11, <4>1
    <3>3. logical' = pos' /\ chunks' = Len(listed')
      <4> HIDE DEF new, buf
      <4> QED BY <2>2, <2>10, <2>11, <2>12
    <3> QED BY <3>1, <3>2, <3>3 DEF RestoresFile
  <2>14. CutsAreLocal'
    <3>1. ASSUME NEW n \in 1..Len(listed')
          PROVE  LocalCut(listed'[n], Size(SubSeq(listed', 1, n)))
      <4>1. CASE n <= Len(listed)
        <5>1. n \in 1..Len(listed)
          BY <4>1
        <5>2. listed'[n] = listed[n] /\ SubSeq(listed', 1, n) = SubSeq(listed, 1, n)
          <6> HIDE DEF new
          <6>1. /\ (listed \o new)[n] = listed[n]
                /\ SubSeq(listed \o new, 1, n) = SubSeq(listed, 1, n)
            BY <2>1, <2>7, <5>1, ConcatOld
          <6> QED BY <2>2, <6>1
        <5>3. LocalCut(listed[n], Size(SubSeq(listed, 1, n)))
          BY <5>1, CutsAreLocalIs DEF PutInv
        <5> QED BY <5>2, <5>3
      <4>2. CASE n > Len(listed)
        <5> DEFINE m == n - Len(listed)
        <5>1. m \in 1..Len(new) /\ m \in 0..Len(new) /\ n = Len(listed) + m
          <6>1. Len(listed) \in Nat /\ Len(new) \in Nat /\ n \in 1..(Len(listed) + Len(new))
            <7> HIDE DEF new
            <7> QED BY <2>1, <2>7, <2>10
          <6> HIDE DEF new
          <6> QED BY <4>2, <6>1
        <5>2. LocalCut(new[m], pos + Size(SubSeq(new, 1, m)))
          <6> HIDE DEF buf, m, e
          <6> QED BY <2>4, <2>5, <2>6, <5>1, BlocksAreLocal
        <5>3. listed'[n] = new[m] /\ SubSeq(listed', 1, n) = listed \o SubSeq(new, 1, m)
          <6> HIDE DEF new, m
          <6>1. (listed \o new)[Len(listed) + m] = new[m]
            BY <2>1, <2>7, <5>1, ConcatProperties
          <6>2. SubSeq(listed \o new, 1, Len(listed) + m) = listed \o SubSeq(new, 1, m)
            <7> DEFINE C == Seq(Bytes)
            <7>1. listed \in Seq(C) /\ new \in Seq(C) /\ m \in 1..Len(new)
              BY <2>1, <2>7, <5>1
            <7> HIDE DEF C
            <7> QED BY <7>1, ConcatNew
          <6> QED BY <2>2, <5>1, <6>1, <6>2
        <5>4. Size(SubSeq(listed', 1, n)) = pos + Size(SubSeq(new, 1, m))
          <6> HIDE DEF new, m
          <6>1. SubSeq(new, 1, m) \in Seq(Seq(Bytes))
            BY <2>7, <5>1, PrefixType
          <6>2. Size(listed \o SubSeq(new, 1, m)) = Size(listed) + Size(SubSeq(new, 1, m))
            BY <2>1, <6>1, SizeConcat
          <6> QED BY <2>12, <5>3, <6>2
        <5> HIDE DEF m, new
        <5> QED BY <5>2, <5>3, <5>4
      <4> QED BY <2>1, <2>7, <2>10, <4>1, <4>2
    <3> QED BY <2>2, <3>1 DEF CutsAreLocal, LocalCut
  <2> HIDE DEF e, buf, new
  <2> QED BY <2>1, <2>2, <2>9, <2>10, <2>13, <2>14 DEF PutInv
<1>2. CASE UNCHANGED putVars
  BY <1>2 DEF putVars, PutInv, RestoresFile, CutsAreLocal
<1> QED BY <1>1, <1>2

LEMMA PutInvariant == PutSpec => []PutInv
BY PutInvInit, PutInvStep, PTL DEF PutSpec

(***************************************************************************)
(* Whatever is put, in either mode and for every size of the buffers and   *)
(* chunks, the chunks put_file lists are in the store and give back, one   *)
(* after another, what was read of the file, and the statistics count      *)
(* exactly that (cas.py, put_file and put_bytes).                          *)
(***************************************************************************)
THEOREM ChunksRestoreFile == PutSpec => []RestoresFile
<1>1. PutInv => RestoresFile
  BY DEF PutInv
<1> QED BY PutInvariant, <1>1, PTL

(***************************************************************************)
(* A fixed block is short at the end of the file alone, and a CDC chunk    *)
(* ends at the first place where the last MaskBits bytes say so, or at Mx  *)
(* bytes, or with its buffer: for every file, gear table and width of the  *)
(* hash (cas.py, _blocks).                                                 *)
(***************************************************************************)
THEOREM CutsStayLocal == PutSpec => []CutsAreLocal
<1>1. PutInv => CutsAreLocal
  BY DEF PutInv
<1> QED BY PutInvariant, <1>1, PTL
=============================================================================
