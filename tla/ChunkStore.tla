----------------------------- MODULE ChunkStore -----------------------------
(***************************************************************************)
(* Where snapshot memory is kept (cas.py, s3.py, and _chunk_mem and        *)
(* _reconstruct_mem of kladosd.py).  A snapshot's memory image is cut into *)
(* content-addressed chunks, held as files of a hot cache and as objects   *)
(* of an optional S3 cold tier; a fork puts the image together again from  *)
(* the snapshot's manifest.  Handler threads do this concurrently, writes  *)
(* fail, and the daemon is killed and restarted between any two steps.     *)
(***************************************************************************)
EXTENDS Naturals, Sequences, FiniteSets

CONSTANTS Chunks,    \* chunk contents, each standing for its hash
          Images,    \* memory images: sequences of chunks
          MaxBlocks, \* most blocks of an image
          Snaps,
          Threads,   \* handler threads
          Workers,   \* uploads the pool of a flush runs at once
          Inodes,    \* files behind the names mem and mem.tmp
          None,
          ColdTier,  \* is an S3 endpoint configured?
          Faults     \* may writes to the disk and to S3 fail?

ASSUME StoreAssumption ==
  /\ MaxBlocks \in Nat
  /\ Workers \in Nat \ {0}
  /\ Images \subseteq Seq(Chunks)
  /\ \A im \in Images : Len(im) \in 1..MaxBlocks
  /\ None \notin Chunks \cup Threads \cup Snaps \cup Inodes
  /\ ColdTier \in BOOLEAN
  /\ Faults \in BOOLEAN

VARIABLES
  index,     \* CAS.index: chunks this daemon has put
  pending,   \* CAS._pending: chunks queued for S3
  storeLock, \* _store_lock
  hot,       \* file of the chunk in the hot cache
  cold,      \* objects in the bucket
  image,     \* the memory image captured for a snapshot
  manifest,  \* mem.manifest
  rows,      \* snapshots with a committed row
  mem,       \* the inode named mem
  tmp,       \* the inode named mem.tmp
  data,      \* blocks of an inode
  th,        \* what a handler thread does
  lost,      \* history: chunks given up: the write to the disk or to S3
             \* raised, or the upload was cancelled
  torn,      \* history: chunks whose file a kill or an error left empty
  shared     \* history: snapshots two threads have reconstructed at once

cas == <<index, pending, storeLock>>
tiers == <<hot, cold>>
snaps == <<image, manifest, rows>>
files == <<mem, tmp, data>>
history == <<lost, torn, shared>>
vars == <<cas, tiers, snaps, files, th, history>>

Ops == {"idle", "lock", "put", "write", "upload", "manifest", "row",
        "open", "get", "fetched", "warm", "load"}

Thread == [op : Ops,
           sid : Snaps \cup {None},
           pos : 1..(MaxBlocks + 1),    \* next block
           up : SUBSET Chunks,          \* uploads queued or under way
           failed : BOOLEAN,            \* an upload raised
           fd : Inodes \cup {None}]     \* mem.tmp as this thread opened it

Idle == [op |-> "idle", sid |-> None, pos |-> 1, up |-> {}, failed |-> FALSE,
         fd |-> None]

Blank == [p \in 1..MaxBlocks |-> None]

TypeOK ==
  /\ index \subseteq Chunks
  /\ pending \subseteq Chunks
  /\ storeLock \in Threads \cup {None}
  /\ hot \in [Chunks -> {"none", "empty", "whole"}]
  /\ cold \subseteq Chunks
  /\ image \in [Snaps -> Images \cup {<<>>}]
  /\ manifest \in [Snaps -> Images \cup {<<>>}]
  /\ rows \subseteq Snaps
  /\ mem \in [Snaps -> Inodes \cup {None}]
  /\ tmp \in [Snaps -> Inodes \cup {None}]
  /\ data \in [Inodes -> [1..MaxBlocks -> Chunks \cup {None}]]
  /\ th \in [Threads -> Thread]
  /\ lost \subseteq Chunks
  /\ torn \subseteq Chunks
  /\ shared \subseteq Snaps

Init ==
  /\ index = {} /\ pending = {} /\ storeLock = None
  /\ hot = [h \in Chunks |-> "none"] /\ cold = {}
  /\ image = [s \in Snaps |-> <<>>]
  /\ manifest = [s \in Snaps |-> <<>>]
  /\ rows = {}
  /\ mem = [s \in Snaps |-> None]
  /\ tmp = [s \in Snaps |-> None]
  /\ data = [n \in Inodes |-> Blank]
  /\ th = [t \in Threads |-> Idle]
  /\ lost = {} /\ torn = {} /\ shared = {}

At(t, l) == th[t].op = l
Goto(t, l) == th' = [th EXCEPT ![t].op = l]
Advance(t, l) == th' = [th EXCEPT ![t].op = l, ![t].pos = @ + 1]
Finish(t) == th' = [th EXCEPT ![t] = Idle]

-----------------------------------------------------------------------------
(* _chunk_mem, called by snapshot_instance *)

StartStore(t, s, im) ==
  /\ At(t, "idle") /\ image[s] = <<>>
  /\ image' = [image EXCEPT ![s] = im]
  /\ th' = [th EXCEPT ![t] = [Idle EXCEPT !.op = "lock", !.sid = s]]
  /\ UNCHANGED <<cas, tiers, manifest, rows, files, history>>

AcquireStore(t) ==
  /\ At(t, "lock") /\ storeLock = None
  /\ storeLock' = t
  /\ Goto(t, "put")
  /\ UNCHANGED <<index, pending, tiers, snaps, files, history>>

(* The block of its image that a thread puts next. *)
Block(t) == image[th[t].sid][th[t].pos]
Blocks(t) == Len(image[th[t].sid])

(* Mutant: a chunk whose file is already there is taken to be stored. *)
QueueUnlessHot(h) ==
  pending' = IF ColdTier /\ hot[h] # "whole" THEN pending \cup {h} ELSE pending

Queue(h) == pending' = IF ColdTier THEN pending \cup {h} ELSE pending

(* Mutant: the block after a known one is skipped. *)
PutKnownSkips(t) ==
  /\ At(t, "put") /\ th[t].pos <= Blocks(t) /\ Block(t) \in index
  /\ th' = [th EXCEPT ![t].pos = @ + 2]
  /\ UNCHANGED <<cas, tiers, snaps, files, history>>

(* put_bytes, one block: a known hash is only listed in the manifest. *)
PutKnown(t) ==
  /\ At(t, "put") /\ th[t].pos <= Blocks(t) /\ Block(t) \in index
  /\ Advance(t, "put")
  /\ UNCHANGED <<cas, tiers, snaps, files, history>>

(* A new hash whose file is there, whatever its content, is not written. *)
PutHot(t) ==
  /\ At(t, "put") /\ th[t].pos <= Blocks(t)
  /\ Block(t) \notin index /\ hot[Block(t)] # "none"
  /\ index' = index \cup {Block(t)}
  /\ Queue(Block(t))
  /\ Advance(t, "put")
  /\ UNCHANGED <<storeLock, tiers, snaps, files, history>>

(* A new file: opened, hence empty, ... *)
PutCreate(t) ==
  /\ At(t, "put") /\ th[t].pos <= Blocks(t)
  /\ Block(t) \notin index /\ hot[Block(t)] = "none"
  /\ index' = index \cup {Block(t)}
  /\ hot' = [hot EXCEPT ![Block(t)] = "empty"]
  /\ Goto(t, "write")
  /\ UNCHANGED <<pending, storeLock, cold, snaps, files, history>>

(* ... then written. *)
PutWrite(t) ==
  /\ At(t, "write")
  /\ hot' = [hot EXCEPT ![Block(t)] = "whole"]
  /\ Queue(Block(t))
  /\ Advance(t, "put")
  /\ UNCHANGED <<index, storeLock, cold, snaps, files, history>>

(* The write raises: the hash stays in the index and is not queued. *)
PutFails(t) ==
  /\ Faults /\ At(t, "write")
  /\ storeLock' = None
  /\ Finish(t)
  /\ lost' = lost \cup {Block(t)}
  /\ torn' = torn \cup {Block(t)}
  /\ UNCHANGED <<index, pending, tiers, snaps, files, shared>>

(* flush_s3 with nothing to upload; the lock is released after it. *)
FlushNothing(t) ==
  /\ At(t, "put") /\ th[t].pos > Blocks(t) /\ pending = {}
  /\ storeLock' = None
  /\ Goto(t, "manifest")
  /\ UNCHANGED <<index, pending, tiers, snaps, files, history>>

(* The queue is emptied before the uploads start. *)
FlushStart(t) ==
  /\ At(t, "put") /\ th[t].pos > Blocks(t) /\ pending # {}
  /\ pending' = {}
  /\ th' = [th EXCEPT ![t].op = "upload", ![t].up = pending]
  /\ UNCHANGED <<index, storeLock, tiers, snaps, files, history>>

(* S3.put by a worker of the pool. *)
Upload(t, h) ==
  /\ At(t, "upload") /\ h \in th[t].up
  /\ cold' = cold \cup {h}
  /\ th' = [th EXCEPT ![t].up = @ \ {h}]
  /\ UNCHANGED <<cas, hot, snaps, files, history>>

(* It raises. *)
UploadFails(t, h) ==
  /\ Faults /\ At(t, "upload") /\ h \in th[t].up
  /\ th' = [th EXCEPT ![t].up = @ \ {h}, ![t].failed = TRUE]
  /\ lost' = lost \cup {h}
  /\ UNCHANGED <<cas, tiers, snaps, files, torn, shared>>

(* The exception has reached list(ex.map(...)), which cancels the uploads  *)
(* no worker has started; the others go on.  The chunks cancelled stay in  *)
(* the index and are in no queue any more.                                 *)
CancelUploads(t, C) ==
  /\ At(t, "upload") /\ th[t].failed
  /\ C # {} /\ C \subseteq th[t].up
  /\ Cardinality(th[t].up \ C) <= Workers
  /\ th' = [th EXCEPT ![t].up = @ \ C]
  /\ lost' = lost \cup C
  /\ UNCHANGED <<cas, tiers, snaps, files, torn, shared>>

(* The pool is done, every upload has run, raised or been cancelled: the   *)
(* first exception ends the request.                                       *)
FlushEnd(t) ==
  /\ At(t, "upload") /\ th[t].up = {}
  /\ storeLock' = None
  /\ IF th[t].failed THEN Finish(t) ELSE Goto(t, "manifest")
  /\ UNCHANGED <<index, pending, tiers, snaps, files, history>>

(* The manifest lists the chunks put; the raw image is removed. *)
WriteManifest(t) ==
  /\ At(t, "manifest")
  /\ manifest' = [manifest EXCEPT ![th[t].sid] = image[th[t].sid]]
  /\ Goto(t, "row")
  /\ UNCHANGED <<cas, tiers, image, rows, files, history>>

(* snapshot_instance commits the row. *)
CommitRow(t) ==
  /\ At(t, "row")
  /\ rows' = rows \cup {th[t].sid}
  /\ Finish(t)
  /\ UNCHANGED <<cas, tiers, image, manifest, files, history>>

-----------------------------------------------------------------------------
(* _reconstruct_mem, called by fork_snapshot *)

StartFork(t, s) ==
  /\ At(t, "idle") /\ s \in rows
  /\ th' = [th EXCEPT ![t] = [Idle EXCEPT !.sid = s,
                              !.op = IF mem[s] # None THEN "load" ELSE "open"]]
  /\ UNCHANGED <<cas, tiers, snaps, files, history>>

(* The inode n a thread gets when it opens a name: the old one of the name *)
(* or, when there is none, any that no name and no thread refers to.       *)
Free(n) ==
  /\ \A s \in Snaps : n \notin {mem[s], tmp[s]}
  /\ \A t \in Threads : n # th[t].fd

Opens(old, n) == IF old # None THEN n = old ELSE n \in Inodes /\ Free(n)

(* The other threads that are reconstructing the same image. *)
Rivals(t) ==
  {x \in Threads \ {t} : /\ th[x].sid = th[t].sid
                         /\ th[x].op \in {"open", "get", "fetched", "warm"}}

(* Mutant: the image is put together under its final name. *)
OpenTmpInPlace(t) ==
  /\ At(t, "open")
  /\ \E n \in Inodes :
       /\ Opens(mem[th[t].sid], n)
       /\ mem' = [mem EXCEPT ![th[t].sid] = n]
       /\ tmp' = [tmp EXCEPT ![th[t].sid] = n]
       /\ data' = [data EXCEPT ![n] = Blank]
       /\ th' = [th EXCEPT ![t].op = "get", ![t].fd = n]
  /\ shared' = IF Rivals(t) # {} THEN shared \cup {th[t].sid} ELSE shared
  /\ UNCHANGED <<cas, tiers, snaps, lost, torn>>

(* Mutant: mem.tmp is one file for all snapshots. *)
OpenTmpGlobal(t) ==
  /\ At(t, "open")
  /\ \E n \in Inodes :
       /\ Opens(tmp[th[t].sid], n)
       /\ tmp' = [s \in Snaps |-> n]
       /\ data' = [data EXCEPT ![n] = Blank]
       /\ th' = [th EXCEPT ![t].op = "get", ![t].fd = n]
  /\ shared' = IF Rivals(t) # {} THEN shared \cup {th[t].sid} ELSE shared
  /\ UNCHANGED <<cas, tiers, snaps, mem, lost, torn>>

(* open(tmp, "wb") truncates the file of that name, whoever writes it. *)
OpenTmp(t) ==
  /\ At(t, "open")
  /\ \E n \in Inodes :
       /\ Opens(tmp[th[t].sid], n)
       /\ tmp' = [tmp EXCEPT ![th[t].sid] = n]
       /\ data' = [data EXCEPT ![n] = Blank]
       /\ th' = [th EXCEPT ![t].op = "get", ![t].fd = n]
  /\ shared' = IF Rivals(t) # {} THEN shared \cup {th[t].sid} ELSE shared
  /\ UNCHANGED <<cas, tiers, snaps, mem, lost, torn>>

Wanted(t) == manifest[th[t].sid][th[t].pos]
Getting(t) == At(t, "get") /\ th[t].pos <= Len(manifest[th[t].sid])
Append1(t) == data' = [data EXCEPT ![th[t].fd][th[t].pos] = Wanted(t)]

(* CAS.get: from the hot cache, ... *)
GetHot(t) ==
  /\ Getting(t) /\ hot[Wanted(t)] = "whole"
  /\ Append1(t)
  /\ Advance(t, "get")
  /\ UNCHANGED <<cas, tiers, snaps, mem, tmp, history>>

(* ... or, when it is not there, from S3.  By the time the object has      *)
(* come the file may exist: opening it truncates it ...                    *)
GetCold(t) ==
  /\ Getting(t) /\ hot[Wanted(t)] = "none" /\ ColdTier /\ Wanted(t) \in cold
  /\ Goto(t, "fetched")
  /\ UNCHANGED <<cas, tiers, snaps, files, history>>

WarmCreate(t) ==
  /\ At(t, "fetched")
  /\ hot' = [hot EXCEPT ![Wanted(t)] = "empty"]
  /\ Goto(t, "warm")
  /\ UNCHANGED <<cas, cold, snaps, files, history>>

(* Mutant: the fetched chunk is not written to the cache. *)
WarmNothing(t) ==
  /\ At(t, "warm")
  /\ Append1(t)
  /\ Advance(t, "get")
  /\ UNCHANGED <<cas, tiers, snaps, mem, tmp, history>>

(* ... until it is written. *)
Warm(t) ==
  /\ At(t, "warm")
  /\ hot' = [hot EXCEPT ![Wanted(t)] = "whole"]
  /\ Append1(t)
  /\ Advance(t, "get")
  /\ UNCHANGED <<cas, cold, snaps, mem, tmp, history>>

(* An empty file does not decompress; a chunk in neither tier, a failed    *)
(* GET and a failed write of the cache raise.  mem.tmp is left behind.     *)
GetFails(t) ==
  /\ \/ Getting(t) /\ hot[Wanted(t)] = "empty"
     \/ Getting(t) /\ hot[Wanted(t)] = "none" /\ ~(ColdTier /\ Wanted(t) \in cold)
     \/ Getting(t) /\ hot[Wanted(t)] = "none" /\ Faults
     \/ At(t, "warm") /\ Faults
  /\ Finish(t)
  /\ torn' = IF At(t, "warm") THEN torn \cup {Wanted(t)} ELSE torn
  /\ UNCHANGED <<cas, tiers, snaps, files, lost, shared>>

(* os.replace(tmp, mem) *)
Replace(t) ==
  /\ At(t, "get") /\ th[t].pos > Len(manifest[th[t].sid])
  /\ tmp[th[t].sid] # None
  /\ mem' = [mem EXCEPT ![th[t].sid] = tmp[th[t].sid]]
  /\ tmp' = [tmp EXCEPT ![th[t].sid] = None]
  /\ th' = [th EXCEPT ![t].op = "load", ![t].fd = None]
  /\ UNCHANGED <<cas, tiers, snaps, data, history>>

(* Another thread has renamed mem.tmp meanwhile. *)
ReplaceFails(t) ==
  /\ At(t, "get") /\ th[t].pos > Len(manifest[th[t].sid])
  /\ tmp[th[t].sid] = None
  /\ Finish(t)
  /\ UNCHANGED <<cas, tiers, snaps, files, history>>

(* _boot_vm loads the image. *)
Load(t) ==
  /\ At(t, "load")
  /\ Finish(t)
  /\ UNCHANGED <<cas, tiers, snaps, files, history>>

-----------------------------------------------------------------------------
(* The daemon is killed and started again: files and objects stay. *)
Crash ==
  /\ index' = {} /\ pending' = {} /\ storeLock' = None
  /\ th' = [t \in Threads |-> Idle]
  /\ torn' = torn \cup {Block(t) : t \in {x \in Threads : At(x, "write")}}
                  \cup {Wanted(t) : t \in {x \in Threads : At(x, "warm")}}
  /\ UNCHANGED <<tiers, snaps, files, lost, shared>>

(* The operator deletes the hot cache between requests (demo_s3.sh). *)
DropHotCache ==
  /\ ColdTier /\ \A t \in Threads : At(t, "idle")
  /\ hot' = [h \in Chunks |-> "none"]
  /\ UNCHANGED <<cas, cold, snaps, files, th, history>>

StoreStep(t) ==
  \/ AcquireStore(t)
  \/ PutKnown(t) \/ PutHot(t) \/ PutCreate(t) \/ PutWrite(t) \/ PutFails(t)
  \/ FlushNothing(t) \/ FlushStart(t) \/ FlushEnd(t)
  \/ \E h \in Chunks : Upload(t, h) \/ UploadFails(t, h)
  \/ \E C \in SUBSET Chunks : CancelUploads(t, C)
  \/ WriteManifest(t) \/ CommitRow(t)

ForkStep(t) ==
  \/ OpenTmp(t) \/ GetHot(t) \/ GetCold(t) \/ WarmCreate(t) \/ Warm(t)
  \/ GetFails(t) \/ Replace(t) \/ ReplaceFails(t) \/ Load(t)

Next ==
  \/ \E t \in Threads, s \in Snaps, im \in Images : StartStore(t, s, im)
  \/ \E t \in Threads, s \in Snaps : StartFork(t, s)
  \/ \E t \in Threads : StoreStep(t) \/ ForkStep(t)
  \/ Crash
  \/ DropHotCache

Spec == Init /\ [][Next]_vars

-----------------------------------------------------------------------------
(* Properties. *)

Listed(s) == {manifest[s][p] : p \in 1..Len(manifest[s])}

(***************************************************************************)
(* What holds of the rule that a manifest is published last (tech spec 12, *)
(* cas.py flush_s3): a chunk that a published manifest lists and the       *)
(* bucket lacks was given up at some time: its own write raised, or its    *)
(* upload was cancelled because another one of its flush had raised.       *)
(* Kills of the daemon between the local write, the upload and the         *)
(* manifest, dedup against the index and a deleted hot cache lose nothing. *)
(***************************************************************************)
MissingMeansFailed == ColdTier => \A s \in Snaps : Listed(s) \subseteq cold \cup lost

(***************************************************************************)
(* A chunk of a published manifest that CAS.get cannot read, now or as     *)
(* soon as the thread that writes its file is done, is one whose file was  *)
(* left empty by a kill or a failed write, or whose upload raised or was   *)
(* cancelled: nothing the cache, the dedup and the warming of chunks by    *)
(* forks do to each other makes a stored chunk unreadable.                 *)
(***************************************************************************)
Readable(h) ==
  \/ hot[h] = "whole"
  \/ hot[h] = "none" /\ ColdTier /\ h \in cold
  \/ \E t \in Threads : \/ At(t, "write") /\ Block(t) = h
                        \/ th[t].op \in {"fetched", "warm"} /\ Wanted(t) = h

UnreadableMeansTorn ==
  \A s \in Snaps : \A h \in Listed(s) : Readable(h) \/ h \in lost \cup torn

Whole(s) ==
  /\ mem[s] # None
  /\ \A p \in 1..Len(image[s]) : data[mem[s]][p] = image[s][p]

(***************************************************************************)
(* What holds of _reconstruct_mem's promise that the image is materialised *)
(* once: the image a fork loads is the captured one, all of it, as long as *)
(* no two threads have reconstructed it at once, although mem.tmp may be   *)
(* left over from a killed daemon or from a fork that failed half way.     *)
(***************************************************************************)
LoneForkLoadsWholeImage ==
  [][\A t \in Threads : Load(t) => Whole(th[t].sid) \/ th[t].sid \in shared]_vars

(***************************************************************************)
(* Even when threads share mem.tmp, the image of one snapshot never holds  *)
(* a block of another: a block is the captured one or not yet written.     *)
(***************************************************************************)
NoForeignBlocks ==
  \A s \in Snaps : mem[s] # None =>
    \A p \in 1..Len(image[s]) : data[mem[s]][p] \in {None, image[s][p]}
=============================================================================
