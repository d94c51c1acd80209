---------------------------- MODULE BlockProcessor ----------------------------
(***************************************************************************)
(* The part of the block processor that both of its implementations share: *)
(* lib/sqfs/block_processor/common.c.  It is a library of operators on the *)
(* blocks (sqfs_block_t) and on the base structure                         *)
(* (sqfs_block_processor_t); SerialProcessor and ThreadPool hold the state *)
(* and call them the way serial.c and winpthread.c do.                     *)
(*                                                                         *)
(* A block is named by a pointer: the number of its submission, 1..NBlocks.*)
(* heap[p] is what p points to.  Data is a sequence of cells; cell 0 is a  *)
(* zero byte.  The flag word is the set of the flag names that are on.     *)
(***************************************************************************)
EXTENDS Integers, Sequences, SequencesExt, FiniteSets

CONSTANTS
  NBlocks,      \* bound: how many blocks the front end hands over
  MaxBlockSize, \* max_block_size, in cells
  Inodes,       \* the files being packed, named by their inode
  NoInode,      \* a NULL inode pointer
  HasFragTbl    \* was a fragment table given to the processor?

ASSUME BlockProcessorAssumption ==
  /\ NBlocks \in Nat \ {0}
  /\ MaxBlockSize \in Nat \ {0}
  /\ NoInode \notin Inodes
  /\ HasFragTbl \in BOOLEAN

Ptr == 1 .. NBlocks

NULL == 0

(* sqfs_block_t; frag_list points to other blocks. *)
Block ==
  [inode : Inodes \cup {NoInode}, index : Nat, flags : SUBSET STRING, data : Seq(Nat),
   size : Nat, checksum : Nat, frag_list : Seq(Ptr)]

(* A block as get_new_block and the front end fill it. *)
NewBlock(ino, idx, flags, data) ==
  [inode |-> ino, index |-> idx, flags |-> flags, data |-> data,
   size |-> Len(data), checksum |-> 0, frag_list |-> <<>>]

(* What a file with the given user flags and contents is to be split into:  *)
(* full blocks, then the tail end as a fragment, or as a last block if it   *)
(* must not be one.  A file that has blocks, but whose last block is not    *)
(* known to be the last when it is submitted, gets an empty last block.     *)
(* FrontEnd checks that the calls of the API result in this.                *)
FileBlocks(ino, flags, data) ==
  LET full == Len(data) \div MaxBlockSize
      tail == SubSeq(data, full * MaxBlockSize + 1, Len(data))
      FirstFlag(k) == flags \cup (IF k = 0 THEN {"FIRST_BLOCK"} ELSE {})
      whole == [k \in 1 .. full |->
                  NewBlock(ino, k - 1, FirstFlag(k - 1),
                           SubSeq(data, (k - 1) * MaxBlockSize + 1, k * MaxBlockSize))]
      sentinel == IF full = 0 THEN <<>>
                  ELSE <<NewBlock(ino, 0, flags \cup {"LAST_BLOCK"}, <<>>)>>
  IN  whole \o
      CASE tail = <<>> -> sentinel
        [] tail # <<>> /\ "DONT_FRAGMENT" \in flags ->
             <<NewBlock(ino, full, FirstFlag(full) \cup {"LAST_BLOCK"}, tail)>>
        [] OTHER -> sentinel \o
             <<NewBlock(ino, full, FirstFlag(full) \cup {"IS_FRAGMENT"}, tail)>>

NoFrag == <<-1, -1>>

(* The inode made by begin_file: no blocks, no fragment. *)
NewInode == [extra |-> <<>>, start |-> 0, frag |-> NoFrag, sparse |-> 0]

(* The base structure after block_processor_init.  "written" stands for the *)
(* block writer: the blocks it was given, in order.                         *)
NewBase ==
  [frag_block |-> NULL, frag_ht |-> {}, frag_tbl |-> <<>>,
   inode |-> [i \in Inodes |-> NewInode], written |-> <<>>]

------------------------------------------------------------------------------
(* Growing and filling the block size list of an inode.  An entry that was  *)
(* skipped over is what realloc left there: -1.                             *)
set_block_size(ino, index, size) ==
  LET used == IF index + 1 > Len(ino.extra) THEN index + 1 ELSE Len(ino.extra)
  IN  [ino EXCEPT !.extra =
         [k \in 1 .. used |-> CASE k = index + 1          -> size
                                [] k # index + 1 /\ k <= Len(ino.extra) -> ino.extra[k]
                                [] OTHER                  -> -1]]

(* Apply one change to the inode a block belongs to, if it has one. *)
OnInode(base, b, Change(_)) ==
  IF b.inode = NoInode THEN base.inode
  ELSE [base.inode EXCEPT ![b.inode] = Change(@)]

(* The blocks that release_old_block puts on the free list. *)
release_old_block(heap, p) ==
  {p} \cup (IF "FRAGMENT_BLOCK" \in heap[p].flags
            THEN ToSet(heap[p].frag_list) ELSE {})

Uncompressed == 16777216   \* bit 24 of an on-disk block size

DiskSize(b) == b.size + (IF "IS_COMPRESSED" \in b.flags THEN 0 ELSE Uncompressed)

(* A finished block has been written at location: record where and how big. *)
(* Its caller then puts release_old_block(heap, p) on the free list.         *)
process_completed_block(heap, base, p, location) ==
  LET b == heap[p]
      sparse == "IS_SPARSE" \in b.flags
      frag   == "FRAGMENT_BLOCK" \in b.flags
      Sized(ino) ==
        CASE sparse -> set_block_size([ino EXCEPT !.sparse = @ + b.size], b.index, 0)
          [] ~sparse /\ b.size # 0 /\ ~frag -> set_block_size(ino, b.index, DiskSize(b))
          [] OTHER -> ino
      Placed(ino) == IF "LAST_BLOCK" \in b.flags
                     THEN [Sized(ino) EXCEPT !.start = location] ELSE Sized(ino)
  IN  [base EXCEPT
         !.written   = Append(@, p),
         !.inode     = OnInode(base, b, Placed),
         !.frag_tbl  = IF frag /\ ~sparse /\ b.size # 0 /\ HasFragTbl
                       THEN [@ EXCEPT ![b.index + 1] = <<location, DiskSize(b)>>]
                       ELSE @]

(* It can fail after the block has been written: the inode cannot grow.     *)
GrowsInode(b) ==
  /\ b.inode # NoInode
  /\ "IS_SPARSE" \in b.flags \/ (b.size # 0 /\ "FRAGMENT_BLOCK" \notin b.flags)

unrecorded_block(heap, base, p) ==
  LET b == heap[p]
      Sparse(ino) == IF "IS_SPARSE" \in b.flags
                     THEN [ino EXCEPT !.sparse = @ + b.size] ELSE ino
  IN  [base EXCEPT !.inode = OnInode(base, b, Sparse), !.written = Append(@, p)]

------------------------------------------------------------------------------
is_zero_block(data) == \A k \in 1 .. Len(data) : data[k] = 0

(* External: a checksum of the data that tells the payloads of a run apart. *)
xxh32(data) == FoldLeft(LAMBDA h, c : (31 * h + c) % 65521, 1, data)

(* External: a compressor that shrinks runs of one value to a single cell   *)
(* and reports everything else as incompressible (a result of length 0).    *)
do_block(data) ==
  IF Len(data) > 1 /\ \A k \in 1 .. Len(data) : data[k] = data[1]
  THEN <<100 * Len(data) + data[1]>> ELSE <<>>

(* Consolidating a fragment block: its own data, then the fragments of its  *)
(* list, which was built in reverse order.                                  *)
Consolidated(heap, p) ==
  LET b == heap[p]
      oldest_first == Reverse(b.frag_list)
  IN  IF "FRAGMENT_BLOCK" \notin b.flags THEN b
      ELSE [b EXCEPT
              !.data = @ \o FlattenSeq([k \in 1 .. Len(oldest_first) |->
                                          heap[oldest_first[k]].data]),
              !.flags = @ \cup UNION {heap[f].flags \cap {"DONT_COMPRESS"} :
                                        f \in ToSet(b.frag_list)}]

Compresses(b) ==
  /\ b.size # 0
  /\ "IGNORE_SPARSE" \in b.flags \/ ~is_zero_block(b.data)
  /\ b.flags \cap {"IS_FRAGMENT", "DONT_COMPRESS"} = {}

(* The block as it is when the compressor is called. *)
Hashed(heap, p) ==
  LET b == Consolidated(heap, p)
  IN  [b EXCEPT !.checksum = IF "DONT_HASH" \in b.flags THEN 0 ELSE xxh32(b.data)]

(* What a worker (or the serial processor) does with a block: the value it  *)
(* leaves in the block.                                                     *)
process_block(heap, p) ==
  LET b   == Consolidated(heap, p)
      out == do_block(b.data)
  IN  IF heap[p].size = 0 THEN heap[p]
      ELSE IF "IGNORE_SPARSE" \notin b.flags /\ is_zero_block(b.data)
           THEN [b EXCEPT !.flags = @ \cup {"IS_SPARSE"}]
      ELSE IF Compresses(b) /\ out # <<>>
           THEN [Hashed(heap, p) EXCEPT !.data = out, !.size = Len(out),
                                        !.flags = @ \cup {"IS_COMPRESSED"}]
      ELSE Hashed(heap, p)

(* May the call of the compressor fail for this block?  It then stays as    *)
(* Hashed describes it.                                                     *)
MayFailToCompress(heap, p) == Compresses(Consolidated(heap, p))

------------------------------------------------------------------------------
(* Completed fragments.  The result tells the new heap and base, the full   *)
(* fragment block that has to go through the processor (or NULL), which     *)
(* blocks went to the free list, and whether the call succeeded.            *)
SparseFragment(heap, base, p) ==
  LET b == heap[p]
      Hole(ino) == [set_block_size(ino, b.index, 0) EXCEPT !.sparse = @ + b.size]
  IN  [blk |-> heap, out |-> NULL, ok |-> TRUE, freed |-> {p},
       base |-> [base EXCEPT !.inode = OnInode(base, b, Hole)]]

SameChunk(base, b) ==
  {c \in base.frag_ht : c.hash = b.checksum /\ c.size = b.size}

DuplicateFragment(heap, base, p) ==
  LET b == heap[p]
      c == CHOOSE c \in SameChunk(base, b) : TRUE
      Share(ino) == [ino EXCEPT !.frag = <<c.index, c.offset>>]
  IN  [blk |-> heap, out |-> NULL, ok |-> TRUE, freed |-> {p},
       base |-> [base EXCEPT !.inode = OnInode(base, b, Share)]]

(* The current fragment block has no room for the fragment. *)
Overflows(heap, base, p) ==
  /\ base.frag_block # NULL
  /\ heap[base.frag_block].size + heap[p].size > MaxBlockSize

(* A fragment without a fragment block to go to becomes one itself. *)
BecomesBlock(heap, base, p) == base.frag_block = NULL \/ Overflows(heap, base, p)

FragmentHome(heap, base, p) ==
  IF BecomesBlock(heap, base, p)
  THEN <<IF HasFragTbl THEN Len(base.frag_tbl) ELSE 0, 0>>
  ELSE <<heap[base.frag_block].index, heap[base.frag_block].size>>

WithFragment(heap, base, p) ==
  LET cur == base.frag_block
  IN  IF BecomesBlock(heap, base, p)
      THEN [heap EXCEPT
              ![p].index = FragmentHome(heap, base, p)[1],
              ![p].flags = (@ \cap {"DONT_COMPRESS"}) \cup {"FRAGMENT_BLOCK"},
              ![p].frag_list = <<>>]
      ELSE [heap EXCEPT ![cur].frag_list = <<p>> \o @,
                        ![cur].size = @ + heap[p].size]

StoredFragment(heap, base, p) ==
  LET b    == heap[p]
      home == FragmentHome(heap, base, p)
      new  == BecomesBlock(heap, base, p)
      Locate(ino) == [ino EXCEPT !.frag = home]
  IN  [blk |-> WithFragment(heap, base, p), ok |-> TRUE, freed |-> {},
       out |-> IF Overflows(heap, base, p) THEN base.frag_block ELSE NULL,
       base |-> [base EXCEPT
                   !.frag_block = IF new THEN p ELSE @,
                   !.frag_tbl = IF new /\ HasFragTbl THEN Append(@, <<0, 0>>) ELSE @,
                   !.frag_ht = IF ~HasFragTbl THEN @
                               ELSE (@ \ SameChunk(base, b)) \cup
                                    {[hash |-> b.checksum, size |-> b.size,
                                      index |-> home[1], offset |-> home[2]]},
                   !.inode = OnInode(base, b, Locate)]]

(* Storing a fragment fails: the fragment table cannot grow ("table"), or   *)
(* there is no memory for the hash table entry ("chunk").  A full fragment  *)
(* block that was to be handed out is released instead.                     *)
LostOutBlock(heap, base, p) ==
  IF Overflows(heap, base, p) THEN release_old_block(heap, base.frag_block) ELSE {}

(* Mutant: the released fragment block is still the current one. *)
FailedFragmentKept(heap, base, p, fault) ==
  [blk |-> heap, out |-> NULL, ok |-> FALSE, base |-> base,
   freed |-> {p} \cup LostOutBlock(heap, base, p)]

FailedFragment(heap, base, p, fault) ==
  LET stored == StoredFragment(heap, base, p)
      lost   == LostOutBlock(heap, base, p)
  IN  IF fault = "table"
      THEN [blk |-> heap, out |-> NULL, ok |-> FALSE, freed |-> {p} \cup lost,
            base |-> [base EXCEPT !.frag_block = NULL]]
      ELSE [blk |-> stored.blk, out |-> NULL, ok |-> FALSE, freed |-> lost,
            base |-> [base EXCEPT !.frag_block = stored.base.frag_block,
                                  !.frag_tbl = stored.base.frag_tbl]]

(* Which of those failures the call can run into. *)
FragmentFaults(heap, base, p) ==
  IF \/ "IS_SPARSE" \in heap[p].flags
     \/ "DONT_DEDUPLICATE" \notin heap[p].flags /\ SameChunk(base, heap[p]) # {}
     \/ ~HasFragTbl
  THEN {} ELSE {"chunk"} \cup (IF BecomesBlock(heap, base, p) THEN {"table"} ELSE {})

process_completed_fragment(heap, base, p, fault) ==
  LET known == /\ "DONT_DEDUPLICATE" \notin heap[p].flags
               /\ SameChunk(base, heap[p]) # {}
  IN  IF fault # "none" THEN FailedFragment(heap, base, p, fault)
      ELSE IF "IS_SPARSE" \in heap[p].flags THEN SparseFragment(heap, base, p)
      ELSE IF known THEN DuplicateFragment(heap, base, p)
      ELSE StoredFragment(heap, base, p)
=============================================================================
