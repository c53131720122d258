------------------------------ MODULE Chunking ------------------------------
(***************************************************************************)
(* How the content-addressed store cuts a file into chunks (cas.py):       *)
(* put_file reads it in buffers, and _blocks cuts each buffer into fixed   *)
(* blocks or, in CDC mode, where a gear hash of what was read since the    *)
(* last cut ends in zeros.  A chunk stands for its hash.                   *)
(***************************************************************************)
EXTENDS Integers, SequencesExt

CONSTANTS Bytes, MaxLen,   \* files: sequences of at most MaxLen bytes
          BlockSize, Buf,  \* sizes of a fixed block and of a read
          Gear,            \* the gear table
          Width, MaskBits, \* bits of the hash, and of its mask
          Mn, Mx           \* least and greatest chunk of CDC mode

ASSUME ChunkingAssumption ==
  /\ {MaxLen, BlockSize, Buf, Width, MaskBits, Mn, Mx} \subseteq Nat \ {0}
  /\ Gear \in [Bytes -> 0..(2 ^ Width - 1)]
  /\ MaskBits <= Width /\ MaskBits <= Mn /\ Mn <= Mx
  /\ Buf % BlockSize = 0

VARIABLES cdc,      \* CAS.cdc
          file,     \* the file that is put
          pos,      \* bytes of it that are read
          listed,   \* manifest of put_file
          known,    \* CAS.index
          logical,  \* CAS.logical
          chunks    \* CAS.chunks

putVars == <<cdc, file, pos, listed, known, logical, chunks>>

PutInit ==
  /\ cdc \in BOOLEAN
  /\ file \in BoundedSeq(Bytes, MaxLen)
  /\ pos = 0 /\ listed = << >> /\ known = {}
  /\ logical = 0 /\ chunks = 0

-----------------------------------------------------------------------------
(* _blocks *)

FixedBlocks(data) ==
  [n \in 1..((Len(data) + BlockSize - 1) \div BlockSize) |->
     SubSeq(data, (n - 1) * BlockSize + 1, Min({n * BlockSize, Len(data)}))]

(* Mutant: the least size is not kept. *)
GearStepNoMin(data, a, i) ==
  LET h == (2 * a.h + Gear[data[i]]) % 2 ^ Width
  IN IF h % 2 ^ MaskBits = 0 \/ i - a.start + 1 >= Mx
       THEN [h |-> 0, start |-> i + 1, out |-> Append(a.out, SubSeq(data, a.start, i))]
       ELSE [a EXCEPT !.h = h]

(* One byte: the hash is shifted, and a cut starts it anew. *)
GearStep(data, a, i) ==
  LET h == (2 * a.h + Gear[data[i]]) % 2 ^ Width
      size == i - a.start + 1
  IN IF (size >= Mn /\ h % 2 ^ MaskBits = 0) \/ size >= Mx
       THEN [h |-> 0, start |-> i + 1, out |-> Append(a.out, SubSeq(data, a.start, i))]
       ELSE [a EXCEPT !.h = h]

(* The loop over the bytes: what it has after i of them. *)
GearLoop(data) ==
  LET a[i \in 0..Len(data)] ==
        IF i = 0 THEN [h |-> 0, start |-> 1, out |-> << >>] ELSE GearStep(data, a[i - 1], i)
  IN a

(* Mutant: what follows the last cut is dropped. *)
CdcBlocksNoTail(data) == GearLoop(data)[Len(data)].out

CdcBlocks(data) ==
  LET a == GearLoop(data)[Len(data)]
  IN IF a.start <= Len(data)
       THEN Append(a.out, SubSeq(data, a.start, Len(data)))
       ELSE a.out

CutBlocks(data) == IF cdc THEN CdcBlocks(data) ELSE FixedBlocks(data)

-----------------------------------------------------------------------------
(* f[1] + ... + f[n] *)
Total(f, n) ==
  LET sum[k \in 0..n] == IF k = 0 THEN 0 ELSE sum[k - 1] + f[k] IN sum[n]

(* Bytes of a sequence of chunks. *)
Size(cs) == Total([k \in 1..Len(cs) |-> Len(cs[k])], Len(cs))

(* put_file: a buffer is read, and put_bytes cuts and counts it. *)
PutBytes ==
  /\ pos < Len(file)
  /\ LET data == SubSeq(file, pos + 1, Min({pos + Buf, Len(file)}))
         new == CutBlocks(data)
     IN /\ pos' = pos + Len(data)
        /\ listed' = listed \o new
        /\ known' = known \cup ToSet(new)
        /\ logical' = logical + Size(new)
        /\ chunks' = chunks + Len(new)
  /\ UNCHANGED <<cdc, file>>

PutSpec == PutInit /\ [][PutBytes]_putVars

-----------------------------------------------------------------------------
(* Properties. *)

(***************************************************************************)
(* The chunks a manifest names are in the store and give back, one after   *)
(* another, what was read of the file, and the statistics count it: no     *)
(* byte is lost or doubled at a cut or at the end of a buffer.             *)
(***************************************************************************)
RestoresFile ==
  /\ FlattenSeq(listed) = SubSeq(file, 1, pos)
  /\ ToSet(listed) \subseteq known
  /\ logical = pos /\ chunks = Len(listed)

(* The last k bytes of a chunk, each shifted by its distance to the end. *)
Window(c, k) == Total([j \in 1..k |-> Gear[c[Len(c) - j + 1]] * 2 ^ (j - 1)], k)

(***************************************************************************)
(* The low bits of the gear hash depend on the last MaskBits bytes alone,  *)
(* whatever came before them.                                              *)
(***************************************************************************)
Zeros(c) == Window(c, MaskBits) % 2 ^ MaskBits = 0

(***************************************************************************)
(* Where the cuts are.  Fixed blocks do not depend on the buffers ("fixed- *)
(* block hashing is stable across reads"): only the last one of the file   *)
(* is short.  In CDC mode a chunk ends at the first place from Mn bytes on *)
(* where a window of the last MaskBits bytes says so, and has at most Mx   *)
(* bytes, or it ends with the buffer: cuts are found again after an        *)
(* insertion, which is what the mode is for.                               *)
(***************************************************************************)
CutsAreLocal ==
  \A n \in 1..Len(listed) :
    LET c == listed[n]
        end == Size(SubSeq(listed, 1, n))
    IN IF ~cdc
         THEN Len(c) = BlockSize \/ (end = Len(file) /\ Len(c) \in 1..BlockSize)
         ELSE /\ Len(c) \in 1..Mx
              /\ \A s \in Mn..(Len(c) - 1) : ~Zeros(SubSeq(c, 1, s))
              /\ \/ end % Buf = 0 \/ end = Len(file)
                 \/ Len(c) = Mx
                 \/ Len(c) >= Mn /\ Zeros(c)
=============================================================================
