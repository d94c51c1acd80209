------------------------------ MODULE FrontEnd ------------------------------
(***************************************************************************)
(* The front end of the block processor, lib/sqfs/block_processor/         *)
(* frontend.c: a file is begun, its data is appended in pieces of any size *)
(* and it is ended; single blocks can be submitted between files.  The     *)
(* front end cuts the data into blocks and passes them to                  *)
(* append_to_work_queue, which SerialProcessor and ThreadPool model.       *)
(*                                                                         *)
(* A file's data is 1, 2, 3, ...: a cell names its position.  A call may   *)
(* come at any time; a caller repeats or goes on after an error as it      *)
(* likes.                                                                  *)
(***************************************************************************)
EXTENDS BlockProcessor

CONSTANTS
  Sizes,        \* the sizes of the pieces that are appended or submitted
  MaxFileSize,  \* bound: the bytes passed to append for one file
  UserFlags,    \* the flag sets a file is begun or a block is submitted with
  Faults        \* which steps may fail: "alloc", "queue"

FrontEndAssumption ==
  Sizes \subseteq Nat /\ MaxFileSize \in Nat

VARIABLES
  begin_called, inode, blk_flags, blk_index,
  blk_current,  \* the block being filled, or NoBlock
  filesize,     \* the sizes in the inodes
  rest,         \* what the running append call still has to copy
  pc,           \* "idle", or "append" inside of that call
  queue,        \* history: the blocks given to append_to_work_queue
  files,        \* history: the begun files and the submitted blocks, in order
  stopped,      \* has append_to_work_queue failed?
  ret           \* what the last call returned

handle == <<begin_called, inode, blk_flags, blk_index>>
vars   == <<handle, blk_current, filesize, rest, pc, queue, files, stopped, ret>>

NoBlock == NewBlock(NoInode, 0, {}, <<>>)

Init ==
  /\ begin_called = FALSE /\ inode = NoInode /\ blk_flags = {} /\ blk_index = 0
  /\ blk_current = NoBlock
  /\ filesize = [i \in Inodes |-> 0]
  /\ rest = <<>> /\ pc = "idle"
  /\ queue = <<>> /\ files = <<>> /\ stopped = FALSE /\ ret = "ok"

------------------------------------------------------------------------------
(* append_to_work_queue: external to this module.  It takes the block or    *)
(* frees it, and once it has failed it fails for ever.                      *)
Takes(blocks) ==
  /\ ~stopped
  /\ queue' = queue \o blocks
  /\ UNCHANGED stopped

Refuses ==
  /\ stopped \/ "queue" \in Faults
  /\ stopped' = TRUE
  /\ UNCHANGED queue

UserSettable ==
  {"DONT_COMPRESS", "ALIGN", "DONT_FRAGMENT", "DONT_DEDUPLICATE", "IGNORE_SPARSE",
   "DONT_HASH"}

(* SQFS_BLK_FLAGS_ALL: everything but the internal flags of the processor. *)
PublicFlags ==
  UserSettable \cup {"IS_SPARSE", "FIRST_BLOCK", "LAST_BLOCK", "IS_FRAGMENT",
                     "FRAGMENT_BLOCK", "IS_COMPRESSED"}

Begun == {k \in DOMAIN files : files[k].kind = "file"}

(* The history entry of the file being written is the last one. *)
This == files[Len(files)]

(* Bound: there are as many files and single blocks as inodes. *)
MoreFiles == Len(files) < Cardinality(Inodes)

begin_file(flags) ==
  /\ pc = "idle"
  /\ MoreFiles
  /\ \/ begin_called /\ ret' = "sequence" /\ UNCHANGED <<handle, files>>
     \/ /\ ~begin_called /\ ~(flags \subseteq UserSettable)
        /\ ret' = "unsupported" /\ UNCHANGED <<handle, files>>
     \/ /\ ~begin_called /\ flags \subseteq UserSettable /\ "alloc" \in Faults
        /\ ret' = "alloc" /\ UNCHANGED <<handle, files>>
     \/ /\ ~begin_called /\ flags \subseteq UserSettable
        /\ begin_called' = TRUE
        /\ inode' = CHOOSE i \in Inodes : \A k \in Begun : files[k].inode # i
        /\ blk_flags' = flags \cup {"FIRST_BLOCK"}
        /\ blk_index' = 0
        /\ files' = Append(files, [kind |-> "file", inode |-> inode', flags |-> flags,
                                   given |-> 0, copied |-> 0])
        /\ ret' = "ok"
  /\ UNCHANGED <<blk_current, filesize, rest, pc, queue, stopped>>

(* append: the size of the file grows first. *)
append(size) ==
  /\ pc = "idle"
  /\ IF ~begin_called
     THEN ret' = "sequence" /\ UNCHANGED <<filesize, rest, pc, files>>
     ELSE /\ This.given + size <= MaxFileSize
          /\ filesize' = [filesize EXCEPT ![inode] = @ + size]
          /\ rest' = [k \in 1 .. size |-> This.copied + k]
          /\ files' = [files EXCEPT ![Len(files)].given = @ + size]
          /\ pc' = "append"
          /\ UNCHANGED ret
  /\ UNCHANGED <<handle, blk_current, queue, stopped>>

(* Mutants: the next block is marked as the first one, too; a failed        *)
(* allocation is tried again and again.                                     *)
AppendFirstAgain ==
  /\ pc = "append" /\ rest # <<>> /\ blk_current = NoBlock
  /\ blk_current' = NewBlock(inode, blk_index, blk_flags, <<>>)
  /\ blk_index' = blk_index + 1
  /\ UNCHANGED <<begin_called, inode, blk_flags, filesize, rest, pc, queue, files,
                 stopped, ret>>

AppendRetries ==
  /\ pc = "append" /\ rest # <<>> /\ blk_current = NoBlock
  /\ \/ /\ "alloc" \in Faults
        /\ ret' = IF ret = "alloc" THEN "ok" ELSE "alloc"
        /\ UNCHANGED <<blk_current, blk_index, blk_flags>>
     \/ /\ blk_current' = NewBlock(inode, blk_index, blk_flags, <<>>)
        /\ blk_index' = blk_index + 1
        /\ blk_flags' = blk_flags \ {"FIRST_BLOCK"}
        /\ UNCHANGED ret
  /\ UNCHANGED <<begin_called, inode, filesize, rest, pc, queue, files, stopped>>

(* One round of the loop: get a block if there is none ... *)
AppendNewBlock ==
  /\ pc = "append" /\ rest # <<>> /\ blk_current = NoBlock
  /\ \/ /\ "alloc" \in Faults
        /\ ret' = "alloc" /\ pc' = "idle" /\ rest' = <<>>
        /\ UNCHANGED <<blk_current, blk_index, blk_flags>>
     \/ /\ blk_current' = NewBlock(inode, blk_index, blk_flags, <<>>)
        /\ blk_index' = blk_index + 1
        /\ blk_flags' = blk_flags \ {"FIRST_BLOCK"}
        /\ UNCHANGED <<ret, pc, rest>>
  /\ UNCHANGED <<begin_called, inode, filesize, queue, files, stopped>>

(* Mutant: what the block already holds is not taken into account. *)
CopyTooMuch ==
  LET diff == IF MaxBlockSize > Len(rest) THEN Len(rest) ELSE MaxBlockSize
  IN  /\ pc = "append" /\ rest # <<>> /\ blk_current # NoBlock
      /\ blk_current.size # MaxBlockSize
      /\ blk_current' = [blk_current EXCEPT !.data = @ \o SubSeq(rest, 1, diff),
                                            !.size = @ + diff]
      /\ rest' = SubSeq(rest, diff + 1, Len(rest))
      /\ files' = [files EXCEPT ![Len(files)].copied = @ + diff]
      /\ UNCHANGED <<handle, filesize, pc, queue, stopped, ret>>

(* ... and copy what fits into it. *)
AppendCopy ==
  LET room == MaxBlockSize - blk_current.size
      diff == IF room > Len(rest) THEN Len(rest) ELSE room
  IN  /\ pc = "append" /\ rest # <<>> /\ blk_current # NoBlock /\ room # 0
      /\ blk_current' = [blk_current EXCEPT !.data = @ \o SubSeq(rest, 1, diff),
                                            !.size = @ + diff]
      /\ rest' = SubSeq(rest, diff + 1, Len(rest))
      /\ files' = [files EXCEPT ![Len(files)].copied = @ + diff]
      /\ UNCHANGED <<handle, filesize, pc, queue, stopped, ret>>

(* A full block is flushed when more data follows, and at the end. *)
AppendFlush ==
  /\ pc = "append" /\ blk_current # NoBlock /\ blk_current.size = MaxBlockSize
  /\ blk_current' = NoBlock
  /\ \/ /\ Takes(<<blk_current>>)
        /\ IF rest = <<>> THEN pc' = "idle" /\ ret' = "ok" ELSE UNCHANGED <<pc, ret>>
        /\ UNCHANGED rest
     \/ Refuses /\ pc' = "idle" /\ ret' = "queue" /\ rest' = <<>>
  /\ UNCHANGED <<handle, filesize, files>>

AppendReturns ==
  /\ pc = "append" /\ rest = <<>>
  /\ blk_current = NoBlock \/ blk_current.size # MaxBlockSize
  /\ pc' = "idle" /\ ret' = "ok"
  /\ UNCHANGED <<handle, blk_current, filesize, rest, queue, files, stopped>>

------------------------------------------------------------------------------
(* end_file submits up to two blocks: a sentinel if the last block was not  *)
(* marked, then the block being filled.                                     *)
NeedsSentinel ==
  IF blk_current = NoBlock THEN "FIRST_BLOCK" \notin blk_flags
  ELSE /\ "DONT_FRAGMENT" \notin blk_flags
       /\ "FIRST_BLOCK" \notin blk_current.flags

SentinelBlock == NewBlock(inode, 0, blk_flags \cup {"LAST_BLOCK"}, <<>>)

TailBlock ==
  [blk_current EXCEPT !.flags = @ \cup (IF "DONT_FRAGMENT" \in blk_flags
                                        THEN {"LAST_BLOCK"} ELSE {"IS_FRAGMENT"})]

LastBlocks ==
  (IF NeedsSentinel THEN <<SentinelBlock>> ELSE <<>>)
    \o (IF blk_current = NoBlock THEN <<>> ELSE <<TailBlock>>)

end_file_rejected ==
  /\ pc = "idle" /\ ~begin_called
  /\ ret' = "sequence"
  /\ UNCHANGED <<handle, blk_current, filesize, rest, pc, queue, files, stopped>>

end_file ==
  /\ pc = "idle" /\ begin_called
  /\ IF LastBlocks = <<>> THEN UNCHANGED <<queue, stopped>> ELSE Takes(LastBlocks)
  /\ begin_called' = FALSE /\ inode' = NoInode /\ blk_flags' = {}
  /\ blk_current' = NoBlock
  /\ ret' = "ok"
  /\ UNCHANGED <<blk_index, filesize, rest, pc, files>>

(* It fails on the sentinel and leaves the tail for another try, or it      *)
(* fails on the tail, after the sentinel was taken or was not needed.       *)
end_file_fails ==
  /\ pc = "idle" /\ begin_called
  /\ \/ /\ NeedsSentinel
        /\ \/ "alloc" \in Faults /\ ret' = "alloc" /\ UNCHANGED <<queue, stopped>>
           \/ Refuses /\ ret' = "queue"
        /\ UNCHANGED blk_current
     \/ /\ blk_current # NoBlock
        /\ stopped => ~NeedsSentinel
        /\ stopped \/ "queue" \in Faults
        /\ stopped' = TRUE
        /\ queue' = IF NeedsSentinel THEN Append(queue, SentinelBlock) ELSE queue
        /\ blk_current' = NoBlock
        /\ ret' = "queue"
  /\ UNCHANGED <<handle, filesize, rest, pc, files>>

(* A single block that is not part of a file. *)
submit_block(size, flags) ==
  LET data == [k \in 1 .. size |-> k]
      b    == NewBlock(NoInode, 0, flags \cup {"MANUAL_SUBMISSION"}, data)
  IN  /\ pc = "idle"
      /\ \/ begin_called /\ ret' = "sequence" /\ UNCHANGED <<queue, files, stopped>>
         \/ /\ ~begin_called /\ size > MaxBlockSize
            /\ ret' = "overflow" /\ UNCHANGED <<queue, files, stopped>>
         \/ /\ ~begin_called /\ size <= MaxBlockSize /\ ~(flags \subseteq PublicFlags)
            /\ ret' = "unsupported" /\ UNCHANGED <<queue, files, stopped>>
         \/ /\ ~begin_called /\ size <= MaxBlockSize /\ flags \subseteq PublicFlags
            /\ MoreFiles
            /\ \/ /\ "alloc" \in Faults /\ ret' = "alloc"
                  /\ UNCHANGED <<queue, files, stopped>>
               \/ /\ Takes(<<b>>) /\ ret' = "ok"
                  /\ files' = Append(files, [kind |-> "block", flags |-> flags, data |-> data])
               \/ Refuses /\ ret' = "queue" /\ UNCHANGED files
      /\ UNCHANGED <<handle, blk_current, filesize, rest, pc>>

AppendStep == AppendNewBlock \/ AppendCopy \/ AppendFlush \/ AppendReturns

Next ==
  \/ \E flags \in UserFlags : begin_file(flags)
  \/ \E size \in Sizes : append(size)
  \/ \E size \in Sizes, flags \in UserFlags : submit_block(size, flags)
  \/ AppendStep
  \/ end_file \/ end_file_fails \/ end_file_rejected

(* A call that was made runs. *)
Spec == Init /\ [][Next]_vars /\ WF_vars(AppendStep)

------------------------------------------------------------------------------
(* Properties. *)

(* The type invariant: there is a block being filled only inside of a file, *)
(* and it never holds more than a block may.                                *)
TypeOK ==
  /\ begin_called \in BOOLEAN /\ stopped \in BOOLEAN
  /\ inode \in Inodes \cup {NoInode}
  /\ blk_flags \subseteq UserSettable \cup {"FIRST_BLOCK"}
  /\ blk_index \in Nat
  /\ filesize \in [Inodes -> 0 .. MaxFileSize]
  /\ pc \in {"idle", "append"}
  /\ ret \in {"ok", "sequence", "unsupported", "overflow", "alloc", "queue"}
  /\ blk_current # NoBlock => /\ begin_called /\ blk_current.inode = inode
                              /\ blk_current.size \in 0 .. MaxBlockSize
                              /\ blk_current.size = Len(blk_current.data)
  /\ rest # <<>> => pc = "append"

Expected(f) ==
  IF f.kind = "file" THEN FileBlocks(f.inode, f.flags, [k \in 1 .. f.copied |-> k])
  ELSE <<NewBlock(NoInode, 0, f.flags \cup {"MANUAL_SUBMISSION"}, f.data)>>

AllExpected == FlattenSeq([k \in DOMAIN files |-> Expected(files[k])])

(* Whatever the pieces a file is appended in, the work queue gets the       *)
(* blocks FileBlocks describes, each once and in order: a file is split the *)
(* same way for every sequence of calls, also if calls were rejected or ran *)
(* out of memory and were repeated in between.                              *)
SplitsFiles ==
  ~stopped => /\ IsPrefix(queue, AllExpected)
              /\ ~begin_called => queue = AllExpected

(* The copy loop of append ends, also for a full block at its start.        *)
AppendEnds == pc = "append" ~> pc = "idle"
=============================================================================
