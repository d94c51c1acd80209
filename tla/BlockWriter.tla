----------------------------- MODULE BlockWriter -----------------------------
(***************************************************************************)
(* The default block writer: lib/sqfs/block_writer.c.  It appends blocks to*)
(* the output file, remembers where each one is and, when the last block of*)
(* a file has arrived, looks for the same sequence of blocks further up. If*)
(* there is one, the blocks just written are cut off again.                *)
(*                                                                         *)
(* WriterClient and DataPath call it: this module has the state of the     *)
(* writer and what one call of write_data_block does.                      *)
(***************************************************************************)
EXTENDS Integers, Sequences, SequencesExt, FiniteSets

CONSTANTS
  DataStart,       \* size of the output file when the writer is created
  DevBlkSz,        \* devblksz
  HashCompareOnly  \* SQFS_BLOCK_WRITER_HASH_COMPARE_ONLY

ASSUME BlockWriterAssumption ==
  /\ DataStart \in Nat
  /\ DevBlkSz \in Nat \ {0}
  /\ HashCompareOnly \in BOOLEAN

VARIABLES
  file,            \* the output file: a sequence of cells
  blocks,          \* wr->blocks, the first num_blocks entries
  start, file_start, blocks_written

writer == <<file, blocks, start, file_start, blocks_written>>

WriterInit ==
  /\ file = [k \in 1 .. DataStart |-> 0]
  /\ blocks = <<>>
  /\ start = 0 /\ file_start = 0 /\ blocks_written = 0

------------------------------------------------------------------------------
(* The hash of a block: its size on disk, the bit that tells uncompressed   *)
(* blocks, and the checksum.                                                *)
Bit24 == 16777216

MK_BLK_HASH(b) ==
  <<Len(b.data) + (IF "IS_COMPRESSED" \in b.flags THEN 0 ELSE Bit24), b.checksum>>

SIZE_FROM_HASH(hash) == hash[1] % Bit24

store_block_location(list, offset, hash) ==
  Append(list, [offset |-> offset, hash |-> hash])

NoHash == <<0, 0>>

(* The output file and the block list, the two things the steps of a call   *)
(* change.                                                                  *)
Disk(f, l) == [file |-> f, blocks |-> l]

align_file(d) ==
  LET size == Len(d.file)
      diff == size % DevBlkSz
  IN  IF diff = 0 THEN d
      ELSE Disk(d.file \o [k \in 1 .. diff |-> 0],
                store_block_location(d.blocks, size, NoHash))

(* read_at fails if the range is not inside the file. *)
Readable(f, offset, size) == offset + size <= Len(f)

Bytes(f, offset, size) == SubSeq(f, offset + 1, offset + size)

(* compare_blocks on entry i + j and entry fs + j; both count from 0. *)
SameBytes(d, i, fs, j) ==
  LET a == d.blocks[i + j + 1]
      b == d.blocks[fs + j + 1]
      sz == SIZE_FROM_HASH(a.hash)
  IN  Bytes(d.file, a.offset, sz) = Bytes(d.file, b.offset, sz)

ReadableBlocks(d, i, fs, j) ==
  LET sz == SIZE_FROM_HASH(d.blocks[i + j + 1].hash)
  IN  /\ Readable(d.file, d.blocks[i + j + 1].offset, sz)
      /\ Readable(d.file, d.blocks[fs + j + 1].offset, sz)

SameHashes(d, i, fs, n) ==
  \A j \in 0 .. n - 1 : /\ d.blocks[i + j + 1].hash # NoHash
                        /\ d.blocks[i + j + 1].hash = d.blocks[fs + j + 1].hash

(* Comparing candidate i byte for byte runs into an unreadable block. *)
ReadError(d, i, fs, n) ==
  \E j \in 0 .. n - 1 :
    /\ ~ReadableBlocks(d, i, fs, j)
    /\ \A k \in 0 .. j - 1 : ReadableBlocks(d, i, fs, k) /\ SameBytes(d, i, fs, k)

(* Mutant: the bytes are not compared. *)
AnySequence(d, i, fs, n) == TRUE

SameSequence(d, i, fs, n) ==
  \A j \in 0 .. n - 1 : ReadableBlocks(d, i, fs, j) /\ SameBytes(d, i, fs, j)

(* Mutant: the search starts at the second entry. *)
StopsLate(d, fs, n) ==
  {i \in 1 .. fs - 1 :
     /\ SameHashes(d, i, fs, n)
     /\ HashCompareOnly \/ SameSequence(d, i, fs, n) \/ ReadError(d, i, fs, n)}

(* The candidates at which the search for n blocks stops: a match or an error. *)
Stops(d, fs, n) ==
  {i \in 0 .. fs - 1 :
     /\ SameHashes(d, i, fs, n)
     /\ HashCompareOnly \/ SameSequence(d, i, fs, n) \/ ReadError(d, i, fs, n)}

deduplicate_blocks(d, fs, n) ==
  IF Stops(d, fs, n) = {} THEN fs
  ELSE CHOOSE i \in Stops(d, fs, n) : \A k \in Stops(d, fs, n) : i <= k

DedupFails(d, fs, n) ==
  LET i == deduplicate_blocks(d, fs, n)
  IN  i < fs /\ ~HashCompareOnly /\ ReadError(d, i, fs, n)

------------------------------------------------------------------------------
(* One call of write_data_block, for the block b with the flags fl, step by *)
(* step.  First: where the file starts, and the padding before it.          *)
NewStart(fl) == IF "FIRST_BLOCK" \in fl THEN Len(file) ELSE start

NewFileStart(fl) == IF "FIRST_BLOCK" \in fl THEN Len(blocks) ELSE file_start

AfterAlign(fl) ==
  IF {"FIRST_BLOCK", "ALIGN"} \subseteq fl THEN align_file(Disk(file, blocks))
  ELSE Disk(file, blocks)

IsStored(b, fl) == b.data # <<>> /\ "IS_SPARSE" \notin fl

(* The entry is made before the data is written. *)
AfterStore(b, fl) ==
  LET d == AfterAlign(fl)
  IN  IF IsStored(b, fl)
      THEN Disk(d.file, store_block_location(d.blocks, Len(d.file), MK_BLK_HASH(b)))
      ELSE d

AfterWrite(b, fl) ==
  LET d == AfterStore(b, fl)
  IN  IF IsStored(b, fl) THEN Disk(d.file \o b.data, d.blocks) ELSE d

AfterPadding(b, fl) ==
  IF {"LAST_BLOCK", "ALIGN"} \subseteq fl THEN align_file(AfterWrite(b, fl))
  ELSE AfterWrite(b, fl)

Count(b, fl) == Len(AfterPadding(b, fl).blocks) - NewFileStart(fl)

Dedups(b, fl) ==
  "LAST_BLOCK" \in fl /\ Count(b, fl) # 0 /\ "DONT_DEDUPLICATE" \notin fl

DedupStart(b, fl) == deduplicate_blocks(AfterPadding(b, fl), NewFileStart(fl), Count(b, fl))

(* The blocks are found further up: forget them and cut them off. *)
IsDuplicate(b, fl) == Dedups(b, fl) /\ DedupStart(b, fl) < NewFileStart(fl)

(* Mutants: entries of earlier files are forgotten; the file is cut off     *)
(* where the duplicate was found; the file is not cut off.                  *)
ForgetEarlierEntries(b, fl) ==
  LET d == AfterPadding(b, fl)
  IN  IF IsDuplicate(b, fl)
      THEN Disk(SubSeq(d.file, 1, NewStart(fl)), SubSeq(d.blocks, 1, DedupStart(b, fl)))
      ELSE d

CutAtDuplicate(b, fl) ==
  LET d == AfterPadding(b, fl)
  IN  IF IsDuplicate(b, fl)
      THEN Disk(SubSeq(d.file, 1, d.blocks[DedupStart(b, fl) + 1].offset),
                SubSeq(d.blocks, 1, NewFileStart(fl)))
      ELSE d

NothingCutOff(b, fl) ==
  LET d == AfterPadding(b, fl)
  IN  IF IsDuplicate(b, fl) THEN Disk(d.file, SubSeq(d.blocks, 1, NewFileStart(fl))) ELSE d

AfterDedup(b, fl) ==
  LET d    == AfterPadding(b, fl)
      keep == IF DedupStart(b, fl) + Count(b, fl) >= NewFileStart(fl)
              THEN DedupStart(b, fl) + Count(b, fl) ELSE NewFileStart(fl)
  IN  IF IsDuplicate(b, fl)
      THEN Disk(SubSeq(d.file, 1, NewStart(fl)), SubSeq(d.blocks, 1, keep))
      ELSE d

location(b, fl) ==
  CASE "LAST_BLOCK" \in fl /\ Count(b, fl) = 0 -> 0
    [] Dedups(b, fl) -> AfterPadding(b, fl).blocks[DedupStart(b, fl) + 1].offset
    [] OTHER -> Len(AfterAlign(fl).file)

BlocksWritten(b, fl) ==
  CASE "LAST_BLOCK" \in fl /\ ~(Dedups(b, fl) /\ ~IsDuplicate(b, fl)) ->
         Len(AfterDedup(b, fl).blocks)
    [] IsStored(b, fl) -> Len(AfterStore(b, fl).blocks)
    [] OTHER -> blocks_written

write_data_block(b, fl) ==
  /\ ~(Dedups(b, fl) /\ DedupFails(AfterPadding(b, fl), NewFileStart(fl), Count(b, fl)))
  /\ file' = AfterDedup(b, fl).file
  /\ blocks' = AfterDedup(b, fl).blocks
  /\ start' = NewStart(fl)
  /\ file_start' = NewFileStart(fl)
  /\ blocks_written' = BlocksWritten(b, fl)

(* The call fails where memory is allocated or the file is accessed, with   *)
(* what was done before.  Padding may get written, but not recorded.        *)
AlignFails(d) ==
  IF align_file(d) = d THEN {} ELSE {d, Disk(align_file(d).file, d.blocks)}

FailuresBeforeWrite(b, fl) ==
  (IF {"FIRST_BLOCK", "ALIGN"} \subseteq fl THEN AlignFails(Disk(file, blocks)) ELSE {})
    \cup (IF IsStored(b, fl) THEN {AfterAlign(fl), AfterStore(b, fl)} ELSE {})

(* Padding, reading a candidate back, or cutting off a duplicate. *)
FailuresAfterWrite(b, fl) ==
  LET d == AfterPadding(b, fl)
      reads == ~HashCompareOnly /\ \E i \in 0 .. NewFileStart(fl) - 1 :
                                     SameHashes(d, i, NewFileStart(fl), Count(b, fl))
  IN  (IF {"LAST_BLOCK", "ALIGN"} \subseteq fl THEN AlignFails(AfterWrite(b, fl)) ELSE {})
        \cup (IF Dedups(b, fl) /\ reads THEN {d} ELSE {})
        \cup (IF IsDuplicate(b, fl) THEN {Disk(d.file, AfterDedup(b, fl).blocks)} ELSE {})

write_data_block_fails(b, fl) ==
  /\ \/ /\ \E d \in FailuresBeforeWrite(b, fl) : file' = d.file /\ blocks' = d.blocks
        /\ UNCHANGED blocks_written
     \/ /\ \E d \in FailuresAfterWrite(b, fl) : file' = d.file /\ blocks' = d.blocks
        /\ blocks_written' = IF IsStored(b, fl) THEN Len(AfterStore(b, fl).blocks)
                             ELSE blocks_written
  /\ start' = NewStart(fl)
  /\ file_start' = NewFileStart(fl)
=============================================================================
