------------------------ MODULE ThreadPoolRefinement ------------------------
(***************************************************************************)
(* The thread pool implements the serial processor.  A block counts as     *)
(* consumed by the serial processor when the main thread takes it off the  *)
(* done queue; its write counts as done when its I/O number is assigned.   *)
(***************************************************************************)
EXTENDS ThreadPool

(* The blocks that are submitted and not written or packed yet. *)
InFlight == ToSet(proc_queue) \cup ToSet(done) \cup ({block} \ {NULL})
              \cup {wblk[w] : w \in {v \in Workers : wblk[v] # NULL}}

FragBlocks == {p \in InFlight : "FRAGMENT_BLOCK" \in blk[p].flags}

Flushed == {p \in FragBlocks : "MANUAL_SUBMISSION" \in blk[p].flags}

Consumed == next - Cardinality(InFlight \ FragBlocks)

(* Fragment blocks that no worker has processed yet. *)
Unprocessed ==
  FragBlocks \cap (ToSet(proc_queue) \cup {block} \cup
                    {wblk[w] : w \in {v \in Workers : wpc[v] = "run"}})

SerialBlk == [p \in Ptr |-> CASE p > Consumed -> input[p]
                              [] p \in Unprocessed -> process_block(blk, p)
                              [] OTHER -> blk[p]]

(* The blocks whose place in the output is fixed and that are not written   *)
(* yet, in the order of their I/O numbers; the block flushed by finish is   *)
(* the last one.                                                            *)
PendingWrites ==
  LET numbered == ToSet(io_queue) \cup ToSet(io_list) \cup (FragBlocks \ Flushed)
  IN  SetToSortSeq(numbered, LAMBDA p, q : io_seq_num[p] < io_seq_num[q])
        \o SetToSeq(Flushed)

SerialBase ==
  FoldLeft(LAMBDA b, p : process_completed_block(SerialBlk, b, p, Len(b.written)),
           base, PendingWrites)

SerialFreeList ==
  (1 .. Consumed) \ (IF base.frag_block = NULL THEN {}
                     ELSE {base.frag_block} \cup ToSet(blk[base.frag_block].frag_list))

Serial == INSTANCE SerialProcessor
  WITH blk <- SerialBlk, next <- Consumed, base <- SerialBase,
       free_list <- SerialFreeList, status <- 0

(* doc/parallelism.txt: "Output MUST be byte-for-byte equivalent to the     *)
(* serial reference implementation."  Everything the block processor        *)
(* decides about the output (the order of the writes, the contents of the   *)
(* blocks, the packing of the fragments, the fragment table and the inodes) *)
(* is what the serial processor does with the same blocks.                  *)
ImplementsSerial == Serial!Spec
=============================================================================
