---------------------------- MODULE WriterClient ----------------------------
(***************************************************************************)
(* The block writer and its caller, the block processor, reduced to what   *)
(* the writer sees of it: the blocks of a file are written in one run, and *)
(* fragment blocks between files (FilesWrittenInOneRun of ThreadPool); the *)
(* caller stops after an error (ErrorIsFinal).                             *)
(***************************************************************************)
EXTENDS BlockWriter

CONSTANTS
  Files,     \* what may be written: the blocks of a file (or one fragment
             \* block), whether a sentinel follows them, and the flags
  MaxFiles   \* bound: how many of them are written

WriterClientAssumption ==
  /\ MaxFiles \in Nat
  /\ Files \subseteq
       [blocks : Seq([data : Seq(Nat), checksum : Nat, flags : SUBSET STRING]),
        sentinel : BOOLEAN, flags : SUBSET STRING]

VARIABLES
  current,   \* the member of Files being written, or NoFile
  written,   \* how many of its blocks have been passed to the writer
  finished,  \* history: the files written, and the location returned
  count,     \* how many have been started
  failed     \* did a call return an error?

vars == <<writer, current, written, finished, count, failed>>

NoFile == [blocks |-> <<>>, sentinel |-> FALSE, flags |-> {}]

Init ==
  /\ WriterInit
  /\ current = NoFile /\ written = 0
  /\ finished = {} /\ count = 0 /\ failed = FALSE

------------------------------------------------------------------------------
Sentinel == [data |-> <<>>, checksum |-> 0, flags |-> {}]

Calls(f) == Len(f.blocks) + (IF f.sentinel THEN 1 ELSE 0)

BlockAt(f, k) == IF k <= Len(f.blocks) THEN f.blocks[k] ELSE Sentinel

FlagsAt(f, k) ==
  BlockAt(f, k).flags \cup f.flags
    \cup (IF "FRAGMENT_BLOCK" \in f.flags THEN {}
          ELSE (IF k = 1 THEN {"FIRST_BLOCK"} ELSE {})
               \cup (IF k = Calls(f) THEN {"LAST_BLOCK"} ELSE {}))

(* The file the next block belongs to. *)
NextFile(f) ==
  IF current = NoFile THEN f \in Files /\ count < MaxFiles ELSE f = current

Advance(f, loc) ==
  IF written + 1 = Calls(f)
  THEN /\ current' = NoFile /\ written' = 0
       /\ finished' = finished \cup {[file |-> f, location |-> loc]}
  ELSE /\ current' = f /\ written' = written + 1
       /\ UNCHANGED finished

Counted == count' = IF current = NoFile THEN count + 1 ELSE count

Write(f) ==
  LET b  == BlockAt(f, written + 1)
      fl == FlagsAt(f, written + 1)
  IN  /\ ~failed /\ NextFile(f)
      /\ write_data_block(b, fl)
      /\ Advance(f, location(b, fl))
      /\ Counted
      /\ UNCHANGED failed

WriteFails(f) ==
  /\ ~failed /\ NextFile(f)
  /\ write_data_block_fails(BlockAt(f, written + 1), FlagsAt(f, written + 1))
  /\ Counted
  /\ failed' = TRUE
  /\ UNCHANGED <<current, written, finished>>

Next == \E f \in Files : Write(f) \/ WriteFails(f)

Spec == Init /\ [][Next]_vars

------------------------------------------------------------------------------
(* Properties. *)

(* The cells of a file that are in the data area, in order: sparse blocks   *)
(* and sentinels have none.                                                 *)
StoredData(f) ==
  FlattenSeq([k \in 1 .. Len(f.blocks) |->
                IF "IS_SPARSE" \in f.blocks[k].flags THEN <<>> ELSE f.blocks[k].data])

(* The type invariant: the current file starts inside the output file and   *)
(* its blocks start inside the block list.                                  *)
TypeOK ==
  /\ file \in Seq(Nat)
  /\ blocks_written \in Nat /\ count \in 0 .. MaxFiles
  /\ start \in 0 .. Len(file)
  /\ file_start \in 0 .. Len(blocks)
  /\ current \in Files \cup {NoFile}

(* block_writer.h: the call for the last block "returns the (new) location  *)
(* of the first block".  At every later time the blocks of the file can be  *)
(* read from that location on, one after the other: neither the truncation  *)
(* after a duplicate nor what is written then damages a finished file, also *)
(* if a call fails half way through.                                        *)
ReadBack ==
  \A e \in finished :
    LET data == StoredData(e.file)
    IN  data # <<>> => /\ Readable(file, e.location, Len(data))
                       /\ Bytes(file, e.location, Len(data)) = data

(* doc/parallelism.txt: "Entire files are deduplicated by trying to find a  *)
(* sequence of identical size/hash pairs in the already written blocks."  A *)
(* file that was written before, in whatever surroundings, is found again.  *)
WrittenOnce ==
  \A e1, e2 \in finished :
    /\ {"DONT_DEDUPLICATE", "FRAGMENT_BLOCK"} \cap (e1.file.flags \cup e2.file.flags) = {}
    /\ e1.file.blocks = e2.file.blocks
    => e1.location = e2.location

(* block_writer.h on get_block_count: "The number of blocks written,        *)
(* excluding deduplicated blocks."  Between two files the count, the list   *)
(* and the output file agree: the blocks of the list, one after the other,  *)
(* are the data area.  What was written and turned out to be a duplicate is *)
(* gone from all three.                                                     *)
CountMatchesFile ==
  current = NoFile /\ ~failed =>
    /\ blocks_written = Len(blocks)
    /\ \A k \in DOMAIN blocks :
         blocks[k].offset + SIZE_FROM_HASH(blocks[k].hash)
           = IF k = Len(blocks) THEN Len(file) ELSE blocks[k + 1].offset
    /\ blocks # <<>> => blocks[1].offset = DataStart

(* What was in the output file before the current file is never changed by  *)
(* a call, whether it succeeds or fails: truncation stops at the start of   *)
(* the current file.                                                        *)
EarlierBytesKept ==
  [][/\ start' <= Len(file')
     /\ start' <= Len(file)
     /\ \A k \in 1 .. start' : file'[k] = file[k]]_vars

(* block_writer.h: "If the flag SQFS_BLK_ALIGN is set in combination with   *)
(* the SQFS_BLK_FIRST_BLOCK, the file size is padded to a multiple of the   *)
(* device block size before writing."                                       *)
AlignedStart ==
  [][\A f \in Files :
       Write(f) /\ current = NoFile /\ "ALIGN" \in f.flags =>
         Len(AfterAlign(FlagsAt(f, 1)).file) % DevBlkSz = 0]_vars
=============================================================================
