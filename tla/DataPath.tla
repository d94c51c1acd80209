------------------------------ MODULE DataPath ------------------------------
(***************************************************************************)
(* The way of file contents through the library: the blocks of the front   *)
(* end go through the serial block processor (serial.c, common.c) and the  *)
(* block writer into the output file, and come back through the data       *)
(* reader.  ThreadPool shows that the thread pool makes the same calls of  *)
(* the block writer as the serial processor.                               *)
(*                                                                         *)
(* The inodes and the fragment table get from the writer to the reader     *)
(* unchanged.                                                              *)
(***************************************************************************)
EXTENDS BlockProcessor, BlockWriter

CONSTANTS
  Archives,    \* what may be packed: sequences of files, each with flags and data
  ReadFaults   \* see DataReader

VARIABLES
  archive,     \* the files being packed; file number i has inode i
  blk, next, base, \* as in SerialProcessor
  phase,       \* "write", "load" or "read"
  subject,     \* the file that the last call of the reader is about
  frag_tbl, data_block, current_block, frag_block, current_frag_index,
  pc, args, rd, buffer, ret

R == INSTANCE DataReader WITH image <- file

packing == <<archive, blk, next, base, writer>>
reader  == <<frag_tbl, data_block, current_block, frag_block, current_frag_index,
             pc, args, rd, buffer, ret>>
vars    == <<packing, phase, subject, reader>>

Init ==
  /\ archive \in Archives
  /\ blk = FlattenSeq([i \in DOMAIN archive |->
                         FileBlocks(i, archive[i].flags, archive[i].data)])
  /\ next = 0 /\ base = NewBase
  /\ WriterInit
  /\ phase = "write" /\ subject = 1
  /\ R!ReaderInit

------------------------------------------------------------------------------
(* process_completed_block with the real block writer. *)
WriteOut(heap, b, p) ==
  /\ write_data_block(heap[p], heap[p].flags \ {"MANUAL_SUBMISSION"})
  /\ base' = process_completed_block(heap, b, p,
                                     location(heap[p], heap[p].flags \ {"MANUAL_SUBMISSION"}))
  /\ blk' = heap

Processed(heap, p) == [heap EXCEPT ![p] = process_block(heap, p)]

(* append_to_work_queue of the serial processor. *)
Submit ==
  LET p    == next + 1
      heap == Processed(blk, p)
      r    == process_completed_fragment(heap, base, p, "none")
  IN  /\ phase = "write" /\ next < Len(blk)
      /\ next' = p
      /\ \/ "IS_FRAGMENT" \notin blk[p].flags /\ WriteOut(heap, base, p)
         \/ /\ "IS_FRAGMENT" \in blk[p].flags
            /\ \/ r.out = NULL /\ blk' = r.blk /\ base' = r.base /\ UNCHANGED writer
               \/ r.out # NULL /\ WriteOut(Processed(r.blk, r.out), r.base, r.out)
      /\ UNCHANGED <<archive, phase, subject, reader>>

Finish ==
  LET p    == base.frag_block
      heap == [blk EXCEPT ![p].flags = @ \cup {"MANUAL_SUBMISSION"}]
  IN  /\ phase = "write" /\ next = Len(blk)
      /\ phase' = "load"
      /\ \/ p = NULL /\ UNCHANGED <<blk, base, writer>>
         \/ p # NULL /\ WriteOut(Processed(heap, p), [base EXCEPT !.frag_block = NULL], p)
      /\ UNCHANGED <<archive, next, subject, reader>>

------------------------------------------------------------------------------
Inode(i) == base.inode[i]

FileSize(i) == Len(archive[i].data)

LoadTable ==
  /\ phase \in {"load", "read"}
  /\ R!load_fragment_table(base.frag_tbl)
  /\ phase' = "read"
  /\ UNCHANGED <<archive, blk, next, base, blocks, start, file_start, blocks_written, subject>>

Reading == phase = "read" /\ UNCHANGED <<archive, blk, next, base, blocks, start,
                                         file_start, blocks_written, phase>>

Call(i) ==
  /\ Reading /\ subject' = i
  /\ \/ \E offset \in 0 .. FileSize(i), size \in 1 .. MaxBlockSize + 1 :
          R!data_reader_read(Inode(i), FileSize(i), offset, size)
     \/ \E index \in 0 .. Len(Inode(i).extra) :
          R!data_reader_get_block(Inode(i), FileSize(i), index)
     \/ R!data_reader_get_fragment(Inode(i), FileSize(i))

ReadStep == Reading /\ (R!ReadBlock \/ R!ReadTail \/ R!ReadReturns) /\ UNCHANGED subject

Next == Submit \/ Finish \/ LoadTable \/ (\E i \in DOMAIN archive : Call(i)) \/ ReadStep

Spec == Init /\ [][Next]_vars

------------------------------------------------------------------------------
(* Properties. *)

Chunk(data, index) ==
  SubSeq(data, index * MaxBlockSize + 1,
         IF (index + 1) * MaxBlockSize < Len(data) THEN (index + 1) * MaxBlockSize ELSE Len(data))

(* What the last call should have put into the buffer. *)
Wanted ==
  LET data == archive[subject].data
      end  == IF args.offset + args.size < Len(data) THEN args.offset + args.size ELSE Len(data)
  IN  CASE args.call = "read"     -> SubSeq(data, args.offset + 1, end)
        [] args.call = "block"    -> Chunk(data, args.offset)
        [] args.call = "fragment" ->
             IF Len(args.inode.extra) * MaxBlockSize >= Len(data) THEN <<>>
             ELSE Chunk(data, Len(args.inode.extra))
        [] OTHER -> <<>>

(* What is read is what was packed: every read that succeeds returns the    *)
(* bytes of that part of the file, whatever was deduplicated, packed into   *)
(* fragments, left out as a hole or compressed on the way, and whatever the *)
(* two caches of the reader hold from earlier calls or failures.            *)
RoundTrip == phase = "read" /\ pc = "idle" /\ ret = "ok" => buffer = Wanted

(* And nothing in the image makes a read fail: the only calls that return   *)
(* an error are for a block that the file does not have.                    *)
NothingUnreadable ==
  phase = "read" /\ ret = "error" /\ pc = "idle" =>
    args.call = "block" /\ args.offset = Len(args.inode.extra)
=============================================================================
