------------------------- MODULE WriterClient_proofs -------------------------
(***************************************************************************)
(* The block writer never damages what was written before the current      *)
(* file: neither by padding, nor by writing, nor by cutting off a          *)
(* duplicate, whatever the blocks, flags and hashes are and wherever a     *)
(* call fails.                                                             *)
(***************************************************************************)
EXTENDS WriterClient, TLAPS

(* The file g begins with f. *)
Extends(f, g) ==
  /\ g \in Seq(Nat)
  /\ Len(f) <= Len(g)
  /\ \A k \in 1 .. Len(f) : g[k] = f[k]

(* A file of which the first n cells are those of f. *)
KeepsFirst(n, f, g) ==
  /\ g \in Seq(Nat)
  /\ n <= Len(g)
  /\ \A k \in 1 .. n : g[k] = f[k]

(* Appending to a file changes nothing of it. *)
LEMMA AppendExtends ==
  ASSUME NEW f \in Seq(Nat), NEW g, Extends(f, g), NEW h \in Seq(Nat)
  PROVE  Extends(f, g \o h)
BY DEF Extends

(* align_file only appends. *)
LEMMA AlignExtends ==
  ASSUME NEW f \in Seq(Nat), NEW d, Extends(f, d.file)
  PROVE  Extends(f, align_file(d).file)
<1> DEFINE diff == Len(d.file) % DevBlkSz
           zeros == [k \in 1 .. diff |-> 0]
<1>1. diff \in Nat
  BY BlockWriterAssumption DEF Extends
<1> HIDE DEF diff
<1>2. zeros \in Seq(Nat)
  BY <1>1
<1> HIDE DEF zeros
<1>3. align_file(d).file = d.file \/ align_file(d).file = d.file \o zeros
  BY Zenon DEF align_file, Disk, diff, zeros
<1>4. Extends(f, d.file \o zeros)
  BY <1>2, AppendExtends
<1> QED BY <1>3, <1>4

------------------------------------------------------------------------------
(* The steps of write_data_block before the duplicate is cut off only       *)
(* append to the output file.                                               *)
LEMMA StepsExtend ==
  ASSUME file \in Seq(Nat), NEW b, b.data \in Seq(Nat), NEW fl
  PROVE  /\ Extends(file, AfterAlign(fl).file)
         /\ Extends(file, AfterStore(b, fl).file)
         /\ Extends(file, AfterWrite(b, fl).file)
         /\ Extends(file, AfterPadding(b, fl).file)
<1>1. Extends(file, Disk(file, blocks).file)
  BY DEF Extends, Disk
<1>2. Extends(file, AfterAlign(fl).file)
  BY <1>1, AlignExtends DEF AfterAlign
<1>3. Extends(file, AfterStore(b, fl).file)
  <2>1. AfterStore(b, fl).file = AfterAlign(fl).file
    BY Zenon DEF AfterStore, Disk
  <2> QED BY <1>2, <2>1
<1>4. Extends(file, AfterWrite(b, fl).file)
  <2>1. \/ AfterWrite(b, fl).file = AfterStore(b, fl).file \o b.data
        \/ AfterWrite(b, fl).file = AfterStore(b, fl).file
    BY Zenon DEF AfterWrite, Disk
  <2> QED BY <1>3, <2>1, AppendExtends
<1>5. Extends(file, AfterPadding(b, fl).file)
  BY <1>4, AlignExtends DEF AfterPadding
<1> QED BY <1>2, <1>3, <1>4, <1>5

(* The current file starts inside the output file as it was. *)
LEMMA StartInside ==
  ASSUME file \in Seq(Nat), start \in 0 .. Len(file), NEW fl
  PROVE  NewStart(fl) \in 0 .. Len(file)
BY DEF NewStart

(* A file that begins with the old one keeps the cells before the current   *)
(* file, and so does what is left of it when the duplicate is cut off.      *)
LEMMA CutKeeps ==
  ASSUME file \in Seq(Nat), NEW n \in 0 .. Len(file), NEW g, Extends(file, g)
  PROVE  /\ KeepsFirst(n, file, g)
         /\ KeepsFirst(n, file, SubSeq(g, 1, n))
<1>0. n \in Nat /\ n <= Len(file) /\ Len(file) \in Nat
  OBVIOUS
<1>1. KeepsFirst(n, file, g)
  <2>1. g \in Seq(Nat) /\ Len(g) \in Nat /\ Len(file) <= Len(g)
    BY DEF Extends
  <2>2. n <= Len(g)
    BY <1>0, <2>1
  <2>3. ASSUME NEW k \in 1 .. n PROVE g[k] = file[k]
    <3>1. k \in 1 .. Len(file)
      BY <1>0
    <3> QED BY <3>1 DEF Extends
  <2> QED BY <2>1, <2>2, <2>3 DEF KeepsFirst
<1>2. /\ SubSeq(g, 1, n) \in Seq(Nat)
      /\ Len(SubSeq(g, 1, n)) = n
      /\ \A k \in 1 .. n : SubSeq(g, 1, n)[k] = g[k]
  BY <1>0 DEF Extends
<1> QED BY <1>0, <1>1, <1>2 DEF KeepsFirst

------------------------------------------------------------------------------
(* What a step of the client leaves of the output file. *)
IInv ==
  /\ file \in Seq(Nat)
  /\ start \in 0 .. Len(file)
  /\ written \in Nat

(* What a call does to the output file. *)
Kept == start' \in 0 .. Len(file) /\ KeepsFirst(start', file, file')

(* A call that succeeds. *)
LEMMA WriteKeeps ==
  ASSUME IInv, NEW b, b.data \in Seq(Nat), NEW fl, write_data_block(b, fl)
  PROVE  Kept
<1> DEFINE d == AfterPadding(b, fl)
<1>1. Extends(file, d.file)
  BY StepsExtend DEF IInv
<1>2. start' = NewStart(fl) /\ NewStart(fl) \in 0 .. Len(file)
  BY StartInside DEF IInv, write_data_block
<1>3. \/ file' = d.file
      \/ file' = SubSeq(d.file, 1, NewStart(fl))
  BY Zenon DEF write_data_block, AfterDedup, Disk
<1> HIDE DEF d
<1>4. KeepsFirst(NewStart(fl), file, file')
  BY <1>1, <1>2, <1>3, CutKeeps DEF IInv
<1> QED BY <1>2, <1>4 DEF Kept

(* Padding that fails has been written, or it has not. *)
LEMMA AlignFailsExtends ==
  ASSUME NEW f \in Seq(Nat), NEW d, Extends(f, d.file), NEW e \in AlignFails(d)
  PROVE  Extends(f, e.file)
<1>1. e = d \/ e = Disk(align_file(d).file, d.blocks)
  BY Zenon DEF AlignFails
<1>2. Disk(align_file(d).file, d.blocks).file = align_file(d).file
  BY Zenon DEF Disk
<1> QED BY <1>1, <1>2, AlignExtends

(* A call that fails has appended a part of what it was to append: the cut  *)
(* is the last thing it does.                                               *)
LEMMA FailureKeeps ==
  ASSUME IInv, NEW b, b.data \in Seq(Nat), NEW fl, write_data_block_fails(b, fl)
  PROVE  Kept
<1>1. start' = NewStart(fl) /\ NewStart(fl) \in 0 .. Len(file)
  BY StartInside DEF IInv, write_data_block_fails
<1>2. ASSUME NEW d \in FailuresBeforeWrite(b, fl)
      PROVE  Extends(file, d.file)
  <2>1. \/ d \in AlignFails(Disk(file, blocks))
        \/ d = AfterAlign(fl)
        \/ d = AfterStore(b, fl)
    BY <1>2, Zenon DEF FailuresBeforeWrite
  <2>2. Extends(file, Disk(file, blocks).file)
    BY DEF IInv, Extends, Disk
  <2> QED BY <2>1, <2>2, AlignFailsExtends, StepsExtend DEF IInv
<1>3. ASSUME NEW d \in FailuresAfterWrite(b, fl)
      PROVE  Extends(file, d.file)
  <2>1. \/ d \in AlignFails(AfterWrite(b, fl))
        \/ d = AfterPadding(b, fl)
        \/ d = Disk(AfterPadding(b, fl).file, AfterDedup(b, fl).blocks)
    BY <1>3, Zenon DEF FailuresAfterWrite
  <2>2. Disk(AfterPadding(b, fl).file, AfterDedup(b, fl).blocks).file = AfterPadding(b, fl).file
    BY Zenon DEF Disk
  <2> QED BY <2>1, <2>2, AlignFailsExtends, StepsExtend DEF IInv
<1>4. PICK d \in FailuresBeforeWrite(b, fl) \cup FailuresAfterWrite(b, fl) : file' = d.file
  BY Zenon DEF write_data_block_fails
<1>5. Extends(file, file')
  BY <1>2, <1>3, <1>4
<1> QED BY <1>1, <1>5, CutKeeps DEF Kept, IInv

(* The blocks that the client passes on are blocks. *)
LEMMA BlocksTyped ==
  ASSUME WriterClientAssumption, IInv, NEW f \in Files
  PROVE  BlockAt(f, written + 1).data \in Seq(Nat)
<1> DEFINE Blocks == [data : Seq(Nat), checksum : Nat, flags : SUBSET STRING]
<1>1. CASE written + 1 <= Len(f.blocks)
  <2>1. f.blocks \in Seq(Blocks)
    BY DEF WriterClientAssumption
  <2> HIDE DEF Blocks
  <2>2. f.blocks[written + 1] \in Blocks
    BY <1>1, <2>1 DEF IInv
  <2>3. \A x \in Blocks : x.data \in Seq(Nat)
    BY DEF Blocks
  <2> QED BY <1>1, <2>2, <2>3 DEF BlockAt
<1>2. CASE ~(written + 1 <= Len(f.blocks))
  BY <1>2 DEF BlockAt, Sentinel
<1> QED BY <1>1, <1>2

(* Every step keeps the invariant and the cells before the current file. *)
LEMMA StepKeeps ==
  ASSUME WriterClientAssumption, IInv, Next
  PROVE  IInv' /\ Kept
<1>1. PICK f \in Files : Write(f) \/ WriteFails(f)
  BY DEF Next
<1>2. Kept
  BY <1>1, BlocksTyped, WriteKeeps, FailureKeeps DEF Write, WriteFails
<1>3. written' \in Nat
  <2>1. CASE Write(f)
    BY <2>1 DEF Write, Advance, IInv
  <2>2. CASE WriteFails(f)
    BY <2>2 DEF WriteFails, IInv
  <2> QED BY <1>1, <2>1, <2>2
<1>4. start' \in 0 .. Len(file')
  BY <1>2 DEF Kept, KeepsFirst, IInv
<1> QED BY <1>2, <1>3, <1>4 DEF IInv, Kept, KeepsFirst

(* The output file of a new writer. *)
LEMMA InitKeeps == Init => IInv
BY BlockWriterAssumption DEF Init, WriterInit, IInv

(* No call of write_data_block changes what was in the output file before   *)
(* the current file, for any files, flags, alignment and hashes: the cut    *)
(* that removes a duplicate stops at the start of the current file, which   *)
(* was the end of the output file when its first block came.                *)
THEOREM EarlierKept ==
  ASSUME WriterClientAssumption
  PROVE  Spec => EarlierBytesKept
<1>1. IInv /\ [Next]_vars => IInv'
  <2>1. CASE Next
    BY <2>1, StepKeeps
  <2>2. CASE UNCHANGED vars
    BY <2>2 DEF vars, writer, IInv
  <2> QED BY <2>1, <2>2
<1>2. IInv /\ [Next]_vars =>
        [/\ start' <= Len(file')
         /\ start' <= Len(file)
         /\ \A k \in 1 .. start' : file'[k] = file[k]]_vars
  BY StepKeeps DEF IInv, Kept, KeepsFirst
<1> QED BY <1>1, <1>2, InitKeeps, PTL DEF Spec, EarlierBytesKept
=============================================================================
