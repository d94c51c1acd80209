----------------------------- MODULE MCPacking -----------------------------
(***************************************************************************)
(* The parts that contents pass through when they are packed, each on its  *)
(* own: the front end, the serial processor with failing steps, and the    *)
(* block writer, which compares what it deduplicates or trusts the hashes. *)
(* One of them runs; the others stay where they start.                     *)
(***************************************************************************)
EXTENDS Integers, Sequences

CONSTANTS
  NoInode, HasFragTbl,
  Sizes, MaxFileSize, UserFlags, \* the front end's
  SerialInputs,                  \* what the serial processor is given
  DataStart, DevBlkSz, MaxFiles, \* the block writer's
  ComparedFiles, HashedFiles     \* what is written with and without comparing

VARIABLES
  part,
  begin_called, inode, blk_flags, blk_index, blk_current, filesize, rest, pc, queue, files, stopped, ret,
  blk, next, base, free_list, status,
  file, blocks, start, file_start, blocks_written, current, written, finished, count, failed

Front ==
  INSTANCE FrontEnd WITH NBlocks <- 1, MaxBlockSize <- 2, Inodes <- {1, 2}, Faults <- {"alloc", "queue"}
Serial ==
  INSTANCE SerialProcessor WITH NBlocks <- 6, MaxBlockSize <- 3, Inodes <- 1 .. 4,
    Inputs <- SerialInputs, Faults <- {"compress", "table", "chunk", "write", "inode"}
Comparing == INSTANCE MCBlockWriter WITH Files <- ComparedFiles, HashCompareOnly <- FALSE
Hashing == INSTANCE MCBlockWriter WITH Files <- HashedFiles, HashCompareOnly <- TRUE

(* What the inputs below are made with. *)
Split == INSTANCE BlockProcessor WITH NBlocks <- 6, MaxBlockSize <- 3, Inodes <- 1 .. 4
Given == INSTANCE MCBlockWriter WITH Files <- {}, HashCompareOnly <- FALSE

ASSUME PackingAssumption ==
  /\ Front!FrontEndAssumption /\ Serial!SerialAssumption
  /\ Comparing!WriterClientAssumption /\ Hashing!WriterClientAssumption

(* The tail ends of four files: the second and the third one share a block, *)
(* and the first one compresses.                                            *)
Tails(flags) ==
  Split!FileBlocks(1, {}, <<1, 1, 1>>) \o Split!FileBlocks(2, flags, <<3, 4>>)
    \o Split!FileBlocks(3, {}, <<5>>) \o Split!FileBlocks(4, {}, <<6, 0>>)

(* Files of more than one block, one of which starts with a hole. *)
WholeBlocks ==
  Split!FileBlocks(1, {}, <<7, 7, 7, 7>>) \o Split!FileBlocks(2, {}, <<0, 0, 0, 0, 0, 1>>)

(* A tail end that occurs twice, and a last block that is not one. *)
MixedFiles ==
  Split!FileBlocks(1, {}, <<1, 2>>) \o Split!FileBlocks(2, {}, <<3>>)
    \o Split!FileBlocks(3, {"DONT_FRAGMENT"}, <<7, 7>>) \o Split!FileBlocks(4, {}, <<1, 2>>)
    \o <<Split!NewBlock(NoInode, 0, {"MANUAL_SUBMISSION"}, <<9>>)>>

(* Single blocks follow the files. *)
Padded(input) ==
  [p \in Split!Ptr |-> IF p <= Len(input) THEN input[p]
                        ELSE Split!NewBlock(NoInode, 0, {"MANUAL_SUBMISSION"}, <<9, p>>)]

SomeInputs == {Padded(Tails({})), Padded(Tails({"DONT_COMPRESS"})), Padded(WholeBlocks),
               Padded(MixedFiles)}

DistinctFiles == Given!DistinctFiles
AllFiles == Given!Everything

Parts == {"front end", "serial", "comparing", "hashing"}
frontVars == <<begin_called, inode, blk_flags, blk_index, blk_current, filesize, rest, pc, queue,
               files, stopped, ret>>
serialVars == <<blk, next, base, free_list, status>>
writerVars == <<file, blocks, start, file_start, blocks_written, current, written, finished,
                count, failed>>
packingVars == <<part, frontVars, serialVars, writerVars>>

PackingInit ==
  /\ part \in Parts
  /\ Front!Init /\ Serial!Init /\ Comparing!Init
  /\ part # "serial" => blk = CHOOSE input \in SerialInputs : TRUE

(* Files and blocks come to an end with the bounds. *)
Stopped == part # "front end" /\ UNCHANGED packingVars

PackingNext ==
  /\ part' = part
  /\ \/ part = "front end" /\ Front!Next /\ UNCHANGED <<serialVars, writerVars>>
     \/ part = "serial" /\ Serial!Next /\ UNCHANGED <<frontVars, writerVars>>
     \/ part = "comparing" /\ Comparing!Next /\ UNCHANGED <<frontVars, serialVars>>
     \/ part = "hashing" /\ Hashing!Next /\ UNCHANGED <<frontVars, serialVars>>
     \/ Stopped

(* A call of append that was made runs. *)
PackingSpec ==
  PackingInit /\ [][PackingNext]_packingVars /\ WF_frontVars(part = "front end" /\ Front!AppendStep)

------------------------------------------------------------------------------

(* However a file is cut into calls of append, the work queue gets its      *)
(* blocks, each once and in order, and none is larger than a block (see     *)
(* FrontEnd).                                                               *)
SplitsFiles == Front!TypeOK /\ Front!SplitsFiles

(* The copy loop of append ends (see FrontEnd). *)
AppendEnds == Front!AppendEnds

(* Of every file that the writer has finished, the blocks can be read from  *)
(* the location write_data_block returned (see WriterClient).               *)
ReadBack == part = "comparing" => Comparing!ReadBack

(* Nothing is written twice and nothing is left behind: a file that was     *)
(* written before is found again by deduplicate_blocks, and what was        *)
(* written in vain is gone from the output file, the list of blocks and the *)
(* count alike (see WriterClient).                                          *)
NothingLeftBehind ==
  part = "comparing" => Comparing!TypeOK /\ Comparing!WrittenOnce /\ Comparing!CountMatchesFile

(* No call of write_data_block changes what was in the output file before   *)
(* the current file, even if hashes are trusted and collide (see            *)
(* WriterClient).                                                           *)
EarlierBytesKept == Comparing!EarlierBytesKept

(* Every block given to append_to_work_queue is released or held by the     *)
(* open fragment block, on every error path (see SerialProcessor).          *)
HeldOrFreed == Serial!HeldOrFreed
=============================================================================
