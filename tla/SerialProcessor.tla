--------------------------- MODULE SerialProcessor ---------------------------
(***************************************************************************)
(* The serial reference implementation of the block processor:             *)
(* lib/sqfs/block_processor/serial.c, with the finish call of frontend.c.  *)
(* A submitted block is processed, packed or written before the call that  *)
(* submitted it returns.  doc/parallelism.txt makes this the specification *)
(* of the thread pool: see ThreadPool.                                     *)
(***************************************************************************)
EXTENDS BlockProcessor

CONSTANTS
  Inputs,   \* what the front end may hand over: functions from Ptr to blocks
  Faults    \* which steps may fail: "compress", "table", "chunk", "write", "inode"

(* Blocks are handed over without fragments: see NewBlock. *)
SerialAssumption ==
  \A input \in Inputs : input \in [Ptr -> Block] /\ \A p \in Ptr : input[p].frag_list = <<>>

VARIABLES
  blk,       \* the blocks; blk[p] for p > next is what will be submitted as p
  next,      \* how many blocks have been submitted
  base,      \* the base structure of BlockProcessor
  free_list, \* blocks that were released or freed
  status     \* 0, or the error that stopped the processor

vars == <<blk, next, base, free_list, status>>

SQFS_ERROR == -1

Init ==
  /\ blk \in Inputs
  /\ next = 0
  /\ base = NewBase
  /\ free_list = {}
  /\ status = 0

------------------------------------------------------------------------------
(* The last step for a block that goes to the block writer. *)
Complete(heap, b, p, fault) ==
  LET full == fault = "inode" /\ GrowsInode(heap[p])
  IN  [blk |-> heap, freed |-> release_old_block(heap, p),
       status |-> IF fault = "write" \/ full THEN SQFS_ERROR ELSE 0,
       base |-> CASE fault = "write" -> b
                  [] full -> unrecorded_block(heap, b, p)
                  [] OTHER -> process_completed_block(heap, b, p, Len(b.written))]

(* Mutant: the fragments of the block are not freed. *)
FailLeaks(heap, b, p) ==
  [blk |-> heap, base |-> b, status |-> SQFS_ERROR, freed |-> {p}]

(* The label "fail": the block and its fragments are freed. *)
Fail(heap, b, p) ==
  [blk |-> heap, base |-> b, status |-> SQFS_ERROR,
   freed |-> {p} \cup ToSet(heap[p].frag_list)]

(* Process a block that is not a fragment and write it. *)
ProcessAndWrite(heap, b, p, fault) ==
  IF fault = "compress" /\ MayFailToCompress(heap, p)
  THEN Fail([heap EXCEPT ![p] = Hashed(heap, p)], b, p)
  ELSE Complete([heap EXCEPT ![p] = process_block(heap, p)], b, p, fault)

(* append_to_work_queue for the block p, while status is 0. *)
append_to_work_queue(p, fault) ==
  LET heap == [blk EXCEPT ![p] = process_block(blk, p)]
      frag == process_completed_fragment(heap, base, p,
                IF fault \in FragmentFaults(heap, base, p) THEN fault ELSE "none")
      rest == ProcessAndWrite(frag.blk, frag.base, frag.out, fault)
  IN  CASE "IS_FRAGMENT" \notin blk[p].flags -> ProcessAndWrite(blk, base, p, fault)
        [] "IS_FRAGMENT" \in blk[p].flags /\ frag.out = NULL ->
             [blk |-> frag.blk, base |-> frag.base, freed |-> frag.freed,
              status |-> IF frag.ok THEN 0 ELSE SQFS_ERROR]
        [] OTHER -> [rest EXCEPT !.freed = @ \cup frag.freed]

(* The front end submits the next block. *)
Submit(fault) ==
  LET r == append_to_work_queue(next + 1, fault)
  IN  /\ next < NBlocks
      /\ status = 0
      /\ next' = next + 1
      /\ blk' = r.blk
      /\ base' = r.base
      /\ status' = r.status
      /\ free_list' = free_list \cup r.freed

(* After an error the block is freed and the error is returned again. *)
SubmitAfterError ==
  /\ next < NBlocks
  /\ status # 0
  /\ next' = next + 1
  /\ free_list' = free_list \cup {next + 1}
  /\ UNCHANGED <<blk, base, status>>

(* Mutant: the block that is flushed stays the current fragment block. *)
FinishKeepsFragBlock(fault) ==
  LET p == base.frag_block
      r == ProcessAndWrite(blk, base, p, fault)
  IN  /\ status = 0
      /\ p # NULL
      /\ UNCHANGED next
      /\ free_list' = free_list \cup r.freed
      /\ blk' = r.blk
      /\ base' = r.base
      /\ status' = r.status

(* sqfs_block_processor_finish: flush the current fragment block. *)
Finish(fault) ==
  LET p == base.frag_block
      heap == [blk EXCEPT ![p].flags = @ \cup {"MANUAL_SUBMISSION"}]
      r == ProcessAndWrite(heap, [base EXCEPT !.frag_block = NULL], p, fault)
  IN  /\ status = 0
      /\ p # NULL
      /\ UNCHANGED next
      /\ free_list' = free_list \cup r.freed
      /\ blk' = r.blk
      /\ base' = r.base
      /\ status' = r.status

Next ==
  \/ \E fault \in Faults \cup {"none"} : Submit(fault)
  \/ SubmitAfterError
  \/ \E fault \in Faults \cup {"none"} : Finish(fault)

Spec == Init /\ [][Next]_vars

------------------------------------------------------------------------------
(* Properties. *)

(* The open fragment block and the fragments that wait in it. *)
Open == IF base.frag_block = NULL THEN {}
        ELSE {base.frag_block} \cup ToSet(blk[base.frag_block].frag_list)

(* Every block that append_to_work_queue was given is either released or    *)
(* held by the open fragment block, never both and never neither, on every  *)
(* one of its exits: whichever step failed, what the fragment block already *)
(* held is neither leaked nor left behind after it was freed.               *)
HeldOrFreed == \A p \in 1 .. next : (p \in free_list) # (p \in Open)
=============================================================================
