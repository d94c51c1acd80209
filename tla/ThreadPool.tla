----------------------------- MODULE ThreadPool -----------------------------
(***************************************************************************)
(* The thread pool block processor: lib/sqfs/block_processor/winpthread.c, *)
(* with sync and finish of frontend.c.                                     *)
(*                                                                         *)
(* The main thread runs one API call at a time; the workers run worker_proc*)
(* Everything a worker does between LOCK and UNLOCK (or AWAIT) is one step.*)
(* The main thread holds the mutex exactly while pc = "loop", one step per *)
(* iteration of the loop in append_to_work_queue.  A thread that waits on a*)
(* condition variable is at "wait"; a broadcast, or a spurious wakeup,     *)
(* moves it to "woken", from where it has to take the mutex again.         *)
(*                                                                         *)
(* Blocks are named by pointers, see BlockProcessor.  The three queues are *)
(* the linked lists of the code, head first.                               *)
(***************************************************************************)
EXTENDS BlockProcessor

CONSTANTS
  Inputs,     \* what the front end may hand over: functions from Ptr to blocks
  Faults,     \* which steps may fail: "thread", "compress", "table", "chunk",
              \* "write", "inode"
  NumWorkers, \* num_workers, after create has raised a 0 to 1
  MaxBacklog, \* max_backlog
  IdMod       \* the sequence numbers are counted modulo this (2^32 in the code)

ASSUME ThreadPoolAssumption ==
  /\ Inputs \subseteq [Ptr -> Block]
  /\ NumWorkers \in Nat \ {0}
  /\ MaxBacklog \in Nat \ {0}
  /\ IdMod \in Nat \ {0}

Workers == 1 .. NumWorkers

VARIABLES
  input,        \* the blocks of this run as submitted (never changes)
  blk,          \* the blocks as they are now
  next,         \* how many blocks have been submitted
  base,         \* the base structure of BlockProcessor
  free_list,    \* blocks that were released or freed
  proc_queue, done, io_queue,
  backlog, status,
  proc_enq_id, proc_deq_id, io_enq_id, io_deq_id,
  proc_seq_num, io_seq_num,   \* the numbers stored in the blocks
  pc,           \* where the main thread is
  call,         \* the call it is in, or was in last
  ret,          \* what the last call returned
  block,        \* the parameter of append_to_work_queue
  io_list,      \* its local list of blocks to write
  wpc, wblk, wstatus  \* the workers: where they are, their blk and status

ids    == <<proc_enq_id, proc_deq_id, io_enq_id, io_deq_id, proc_seq_num, io_seq_num>>
mem    == <<blk, base, free_list>>
queues == <<proc_queue, done, io_queue, backlog>>
front  == <<input, next>>
main   == <<pc, call, ret, block, io_list>>
worker == <<wpc, wblk, wstatus>>
vars   == <<mem, queues, ids, front, main, worker, status>>

SQFS_ERROR == -1

Init ==
  /\ input \in Inputs
  /\ blk = input
  /\ next = 0
  /\ base = NewBase
  /\ free_list = {}
  /\ proc_queue = <<>> /\ done = <<>> /\ io_queue = <<>>
  /\ backlog = 0 /\ status = 0
  /\ proc_enq_id = 0 /\ proc_deq_id = 0 /\ io_enq_id = 0 /\ io_deq_id = 0
  /\ proc_seq_num = [p \in Ptr |-> 0] /\ io_seq_num = [p \in Ptr |-> 0]
  /\ pc = "create" /\ call = "create" /\ ret = 0
  /\ block = NULL /\ io_list = <<>>
  /\ wpc = [w \in Workers |-> "none"]
  /\ wblk = [w \in Workers |-> NULL]
  /\ wstatus = [w \in Workers |-> 0]

------------------------------------------------------------------------------
MutexFree == pc # "loop"

(* SIGNAL_ALL on the two condition variables. *)
WakeWorkers == [w \in Workers |-> IF wpc[w] = "wait" THEN "woken" ELSE wpc[w]]

WakeMain == IF pc = "wait" THEN "woken" ELSE pc

(* Insertion into a list that is sorted by num: before the first element    *)
(* whose number is not smaller.                                             *)
Insert(list, num, p) ==
  LET later == {k \in 1 .. Len(list) : num[list[k]] >= num[p]}
      at    == IF later = {} THEN Len(list) + 1
               ELSE CHOOSE k \in later : \A l \in later : k <= l
  IN  InsertAt(list, at, p)

------------------------------------------------------------------------------
(* Creation: the workers are started one after the other.  If that fails,   *)
(* the half-made processor is destroyed.                                    *)
CreateWorker(w) ==
  /\ pc = "create"
  /\ wpc[w] = "none"
  /\ \A v \in Workers : v < w => wpc[v] # "none"
  /\ wpc' = [wpc EXCEPT ![w] = "lock"]
  /\ pc' = IF w = NumWorkers THEN "idle" ELSE "create"
  /\ UNCHANGED <<mem, queues, ids, front, call, ret, block, io_list, wblk,
                 wstatus, status>>

(* Mutant: the workers are not woken. *)
DestroyUnsignalled ==
  /\ status' = SQFS_ERROR
  /\ pc' = "join"
  /\ call' = "destroy"
  /\ UNCHANGED <<mem, queues, ids, front, ret, block, io_list, worker>>

(* block_processor_destroy up to the joins. *)
BeginDestroy ==
  /\ status' = SQFS_ERROR
  /\ wpc' = WakeWorkers
  /\ pc' = "join"
  /\ call' = "destroy"
  /\ UNCHANGED <<mem, queues, ids, front, ret, block, io_list, wblk, wstatus>>

CreateFails == pc = "create" /\ "thread" \in Faults /\ BeginDestroy

Destroy == pc = "idle" /\ BeginDestroy

(* All workers have been joined: free what is left. *)
EndDestroy ==
  /\ pc = "join"
  /\ \A w \in Workers : wpc[w] \in {"none", "exit"}
  /\ pc' = "destroyed"
  /\ free_list' = free_list \cup ToSet(proc_queue) \cup ToSet(io_queue)
                    \cup ToSet(done)
                    \cup (IF base.frag_block = NULL THEN {}
                          ELSE release_old_block(blk, base.frag_block))
  /\ UNCHANGED <<blk, base, queues, ids, front, call, ret, block, io_list,
                 worker, status>>

------------------------------------------------------------------------------
(* The workers. *)
(* Mutant: the main thread is not woken. *)
StoreUnsignalled(w) ==
  /\ done' = Insert(done, proc_seq_num, wblk[w])
  /\ status' = IF wstatus[w] # 0 /\ status = 0 THEN wstatus[w] ELSE status
  /\ UNCHANGED pc

store_completed_block(w) ==
  /\ done' = Insert(done, proc_seq_num, wblk[w])
  /\ status' = IF wstatus[w] # 0 /\ status = 0 THEN wstatus[w] ELSE status
  /\ pc' = WakeMain

(* One round of get_next_work_item, with the value that status has by then. *)
get_next_work_item(w, st) ==
  \/ /\ proc_queue = <<>> /\ st = 0
     /\ wpc' = [wpc EXCEPT ![w] = "wait"]
     /\ wblk' = [wblk EXCEPT ![w] = NULL]
     /\ UNCHANGED proc_queue
  \/ /\ proc_queue # <<>> /\ st = 0
     /\ wpc' = [wpc EXCEPT ![w] = "run"]
     /\ wblk' = [wblk EXCEPT ![w] = Head(proc_queue)]
     /\ proc_queue' = Tail(proc_queue)
  \/ /\ st # 0
     /\ wpc' = [wpc EXCEPT ![w] = "exit"]
     /\ wblk' = [wblk EXCEPT ![w] = NULL]
     /\ UNCHANGED proc_queue

WorkerStarts(w) ==
  /\ wpc[w] = "lock" /\ wblk[w] = NULL /\ MutexFree
  /\ get_next_work_item(w, status)
  /\ UNCHANGED <<mem, ids, front, main, wstatus, status, done, io_queue, backlog>>

WorkerStores(w) ==
  /\ wpc[w] = "lock" /\ wblk[w] # NULL /\ MutexFree
  /\ store_completed_block(w)
  /\ get_next_work_item(w, status')
  /\ UNCHANGED <<mem, ids, front, call, ret, block, io_list, wstatus, io_queue,
                 backlog>>

WorkerWakes(w) ==
  /\ wpc[w] = "woken" /\ MutexFree
  /\ get_next_work_item(w, status)
  /\ UNCHANGED <<mem, ids, front, main, wstatus, status, done, io_queue, backlog>>

WorkerProcesses(w) ==
  /\ wpc[w] = "run"
  /\ \/ /\ blk' = [blk EXCEPT ![wblk[w]] = process_block(blk, wblk[w])]
        /\ wstatus' = [wstatus EXCEPT ![w] = 0]
     \/ /\ "compress" \in Faults /\ MayFailToCompress(blk, wblk[w])
        /\ blk' = [blk EXCEPT ![wblk[w]] = Hashed(blk, wblk[w])]
        /\ wstatus' = [wstatus EXCEPT ![w] = SQFS_ERROR]
  /\ wpc' = [wpc EXCEPT ![w] = "lock"]
  /\ UNCHANGED <<base, free_list, queues, ids, front, main, wblk, status>>

WorkerSpurious(w) ==
  /\ wpc[w] = "wait"
  /\ wpc' = [wpc EXCEPT ![w] = "woken"]
  /\ UNCHANGED <<mem, queues, ids, front, main, wblk, wstatus, status>>

------------------------------------------------------------------------------
(* The main thread.  A call locks the mutex and enters the loop. *)
Enter(c, b) ==
  /\ pc = "idle"
  /\ pc' = "loop"
  /\ call' = c
  /\ block' = b
  /\ UNCHANGED <<mem, queues, ids, input, ret, io_list, worker, status>>

SubmitBlock == next < NBlocks /\ Enter("append", next + 1) /\ next' = next + 1

Sync == Enter("sync", NULL) /\ UNCHANGED next

(* finish is for "after writing all files": not in the middle of one. *)
BetweenFiles ==
  next < NBlocks => input[next + 1].flags \cap {"FIRST_BLOCK", "MANUAL_SUBMISSION"} # {}

Finish == BetweenFiles /\ Enter("finish", NULL) /\ UNCHANGED next

Inc(id) == (id + 1) % IdMod

append_block(p) ==
  /\ proc_queue' = Append(proc_queue, p)
  /\ proc_seq_num' = [proc_seq_num EXCEPT ![p] = proc_enq_id]
  /\ proc_enq_id' = Inc(proc_enq_id)

(* The loop ends with an error: the block and the collected I/O blocks are  *)
(* freed, and the call returns.                                             *)
LeaveWithError ==
  /\ pc = "loop" /\ status # 0
  /\ pc' = "idle" /\ ret' = status
  /\ free_list' = free_list \cup ({block} \ {NULL}) \cup ToSet(io_list)
  /\ block' = NULL /\ io_list' = <<>>
  /\ wpc' = WakeWorkers
  /\ UNCHANGED <<blk, base, queues, ids, front, call, wblk, wstatus, status>>

(* Mutant: the blocks in the hands of workers are forgotten. *)
LeaveEarly ==
  /\ pc = "loop" /\ status = 0 /\ block = NULL
  /\ proc_queue = <<>> /\ done = <<>> /\ io_queue = <<>>
  /\ pc' = "io"
  /\ wpc' = WakeWorkers
  /\ UNCHANGED <<mem, queues, ids, front, call, ret, block, io_list, wblk,
                 wstatus, status>>

(* sync: nothing is in flight any more. *)
LeaveDrained ==
  /\ pc = "loop" /\ status = 0 /\ block = NULL /\ backlog = 0
  /\ pc' = "io"
  /\ wpc' = WakeWorkers
  /\ UNCHANGED <<mem, queues, ids, front, call, ret, block, io_list, wblk,
                 wstatus, status>>

(* Mutant: off by one. *)
LeaveOverfull ==
  /\ pc = "loop" /\ status = 0 /\ block # NULL /\ backlog <= MaxBacklog
  /\ append_block(block)
  /\ backlog' = backlog + 1
  /\ block' = NULL
  /\ pc' = "io"
  /\ wpc' = WakeWorkers
  /\ UNCHANGED <<mem, done, io_queue, proc_deq_id, io_enq_id, io_deq_id,
                 io_seq_num, front, call, ret, io_list, wblk, wstatus, status>>

(* There is room for the block. *)
LeaveEnqueued ==
  /\ pc = "loop" /\ status = 0 /\ block # NULL /\ backlog < MaxBacklog
  /\ append_block(block)
  /\ backlog' = backlog + 1
  /\ block' = NULL
  /\ pc' = "io"
  /\ wpc' = WakeWorkers
  /\ UNCHANGED <<mem, done, io_queue, proc_deq_id, io_enq_id, io_deq_id,
                 io_seq_num, front, call, ret, io_list, wblk, wstatus, status>>

(* None of the conditions to leave the loop holds. *)
Stays ==
  /\ pc = "loop" /\ status = 0
  /\ IF block = NULL THEN backlog # 0 ELSE backlog >= MaxBacklog

(* Mutants: the sequence numbers are not looked at. *)
AnyIo == io_queue # <<>>

AnyDone == done # <<>>

IoReady == io_queue # <<>> /\ io_seq_num[Head(io_queue)] = io_deq_id

DoneReady == done # <<>> /\ proc_seq_num[Head(done)] = proc_deq_id

try_dequeue_io ==
  /\ Stays /\ IoReady
  /\ io_list' = Append(io_list, Head(io_queue))
  /\ io_queue' = Tail(io_queue)
  /\ io_deq_id' = Inc(io_deq_id)
  /\ backlog' = backlog - 1
  /\ UNCHANGED <<mem, proc_queue, done, proc_enq_id, proc_deq_id, io_enq_id,
                 proc_seq_num, io_seq_num, front, pc, call, ret, block, worker,
                 status>>

try_dequeue_done ==
  /\ Stays /\ ~IoReady /\ DoneReady
  /\ done' = Tail(done)
  /\ proc_deq_id' = Inc(proc_deq_id)

(* A data block, a sentinel or a fragment block goes to the I/O queue.  A   *)
(* fragment block has its I/O number since it was filled, unless finish     *)
(* submitted it.  The backlog drops by one and grows by one.                *)
DequeueData ==
  LET p == Head(done)
      numbered == /\ "FRAGMENT_BLOCK" \in blk[p].flags
                  /\ "MANUAL_SUBMISSION" \notin blk[p].flags
  IN  /\ try_dequeue_done
      /\ "IS_FRAGMENT" \notin blk[p].flags
      /\ io_seq_num' = IF numbered THEN io_seq_num
                       ELSE [io_seq_num EXCEPT ![p] = io_enq_id]
      /\ io_enq_id' = IF numbered THEN io_enq_id ELSE Inc(io_enq_id)
      /\ io_queue' = Insert(io_queue, io_seq_num', p)
      /\ UNCHANGED <<mem, proc_queue, backlog, proc_enq_id, io_deq_id,
                     proc_seq_num, front, main, worker, status>>

(* A fragment is packed.  A fragment block that it did not fit into is put  *)
(* on the work queue, and its place in the output is fixed here.            *)
DequeueFragment(fault) ==
  LET p == Head(done)
      r == process_completed_fragment(blk, base, p, fault)
  IN  /\ try_dequeue_done
      /\ "IS_FRAGMENT" \in blk[p].flags
      /\ fault = "none" \/ fault \in FragmentFaults(blk, base, p)
      /\ blk' = r.blk
      /\ base' = r.base
      /\ free_list' = free_list \cup r.freed
      /\ status' = IF r.ok THEN 0 ELSE SQFS_ERROR
      /\ IF r.out = NULL
         THEN /\ backlog' = backlog - 1
              /\ UNCHANGED <<proc_queue, proc_seq_num, proc_enq_id, io_seq_num,
                             io_enq_id, wpc>>
         ELSE /\ io_seq_num' = [io_seq_num EXCEPT ![r.out] = io_enq_id]
              /\ io_enq_id' = Inc(io_enq_id)
              /\ append_block(r.out)
              /\ wpc' = WakeWorkers
              /\ UNCHANGED backlog
      /\ UNCHANGED <<io_queue, io_deq_id, front, main, wblk, wstatus>>

(* Nothing to do: wait for a worker. *)
AwaitDone ==
  /\ Stays /\ ~IoReady /\ ~DoneReady
  /\ pc' = "wait"
  /\ UNCHANGED <<mem, queues, ids, front, call, ret, block, io_list, worker, status>>

MainWakes ==
  /\ pc = "woken"
  /\ pc' = "loop"
  /\ UNCHANGED <<mem, queues, ids, front, call, ret, block, io_list, worker, status>>

MainSpurious ==
  /\ pc = "wait"
  /\ pc' = "woken"
  /\ UNCHANGED <<mem, queues, ids, front, call, ret, block, io_list, worker, status>>

------------------------------------------------------------------------------
(* handle_io_queue: the mutex is not held. *)
WriteBlock ==
  /\ pc = "io" /\ io_list # <<>>
  /\ base' = process_completed_block(blk, base, Head(io_list), Len(base.written))
  /\ free_list' = free_list \cup release_old_block(blk, Head(io_list))
  /\ io_list' = Tail(io_list)
  /\ UNCHANGED <<blk, queues, ids, front, pc, call, ret, block, worker, status>>

WriteFails ==
  /\ pc = "io" /\ io_list # <<>>
  /\ \/ "write" \in Faults /\ UNCHANGED base
     \/ /\ "inode" \in Faults /\ GrowsInode(blk[Head(io_list)])
        /\ base' = unrecorded_block(blk, base, Head(io_list))
  /\ free_list' = free_list \cup release_old_block(blk, Head(io_list))
  /\ io_list' = <<>>      \* the rest of the list is lost
  /\ pc' = "failed"
  /\ UNCHANGED <<blk, queues, ids, front, call, ret, block, worker, status>>

(* Mutant: the error is returned, but not kept. *)
ForgetFailure ==
  /\ pc = "failed"
  /\ wpc' = WakeWorkers
  /\ pc' = "idle" /\ ret' = SQFS_ERROR
  /\ UNCHANGED <<mem, queues, ids, front, call, block, io_list, wblk, wstatus, status>>

ReportFailure ==
  /\ pc = "failed"
  /\ status' = IF status = 0 THEN SQFS_ERROR ELSE status
  /\ wpc' = WakeWorkers
  /\ pc' = "idle" /\ ret' = SQFS_ERROR
  /\ UNCHANGED <<mem, queues, ids, front, call, block, io_list, wblk, wstatus>>

(* All collected blocks are written.  finish goes on with the last fragment *)
(* block and then waits for it.                                             *)
Flush ==
  /\ pc = "io" /\ io_list = <<>> /\ call = "finish" /\ base.frag_block # NULL
  /\ block' = base.frag_block
  /\ blk' = [blk EXCEPT ![base.frag_block].flags = @ \cup {"MANUAL_SUBMISSION"}]
  /\ base' = [base EXCEPT !.frag_block = NULL]
  /\ call' = "flush" /\ pc' = "loop"
  /\ UNCHANGED <<free_list, queues, ids, front, ret, io_list, worker, status>>

SyncFlushed ==
  /\ pc = "io" /\ io_list = <<>> /\ call = "flush"
  /\ call' = "flushed" /\ pc' = "loop"
  /\ UNCHANGED <<mem, queues, ids, front, ret, block, io_list, worker, status>>

Return ==
  /\ pc = "io" /\ io_list = <<>>
  /\ call # "flush" /\ ~(call = "finish" /\ base.frag_block # NULL)
  /\ pc' = "idle" /\ ret' = 0
  /\ UNCHANGED <<mem, queues, ids, front, call, block, io_list, worker, status>>

Terminated == pc = "destroyed" /\ UNCHANGED vars

------------------------------------------------------------------------------
WorkerStep(w) ==
  WorkerStarts(w) \/ WorkerStores(w) \/ WorkerWakes(w) \/ WorkerProcesses(w)

(* The steps of the main thread inside a call. *)
MainStep ==
  \/ LeaveWithError \/ LeaveDrained \/ LeaveEnqueued
  \/ try_dequeue_io \/ DequeueData
  \/ \E fault \in Faults \cup {"none"} : DequeueFragment(fault)
  \/ AwaitDone \/ MainWakes
  \/ WriteBlock \/ WriteFails \/ ReportFailure
  \/ Flush \/ SyncFlushed \/ Return \/ EndDestroy

Creation == CreateFails \/ \E w \in Workers : CreateWorker(w)

Next ==
  \/ Creation \/ SubmitBlock \/ Sync \/ Finish \/ Destroy
  \/ MainStep \/ MainSpurious
  \/ \E w \in Workers : WorkerStep(w) \/ WorkerSpurious(w)
  \/ Terminated

Spec == Init /\ [][Next]_vars

(* Threads that can run do run, and a thread that wants the mutex while it  *)
(* stays free gets it.  Spurious wakeups do not go on for ever: they would  *)
(* let the main thread take the mutex again and again.  Nothing forces the  *)
(* front end to make another call.                                          *)
Spurious == MainSpurious \/ \E w \in Workers : WorkerSpurious(w)

Fairness ==
  /\ WF_vars(MainStep)
  /\ \A w \in Workers : WF_vars(WorkerStep(w))
  /\ <>[][~Spurious]_vars

FairSpec == Spec /\ Fairness
------------------------------------------------------------------------------
(* Properties. *)

(* The type invariant: the queues hold blocks, the counters are numbers of  *)
(* their width, every thread is at one of its control points, and a thread  *)
(* holds a block exactly where worker_proc does.                            *)
TypeOK ==
  /\ next \in 0 .. NBlocks
  /\ base.frag_block \in Ptr \cup {NULL}
  /\ free_list \subseteq Ptr
  /\ proc_queue \in Seq(Ptr) /\ done \in Seq(Ptr)
  /\ io_queue \in Seq(Ptr) /\ io_list \in Seq(Ptr)
  /\ backlog \in Nat /\ status \in {0, SQFS_ERROR} /\ ret \in {0, SQFS_ERROR}
  /\ {proc_enq_id, proc_deq_id, io_enq_id, io_deq_id} \subseteq 0 .. IdMod - 1
  /\ proc_seq_num \in [Ptr -> 0 .. IdMod - 1]
  /\ io_seq_num \in [Ptr -> 0 .. IdMod - 1]
  /\ pc \in {"create", "idle", "loop", "wait", "woken", "io", "failed", "join",
             "destroyed"}
  /\ call \in {"create", "append", "sync", "finish", "flush", "flushed", "destroy"}
  /\ block \in Ptr \cup {NULL}
  /\ wpc \in [Workers -> {"none", "lock", "wait", "woken", "run", "exit"}]
  /\ wblk \in [Workers -> Ptr \cup {NULL}]
  /\ wstatus \in [Workers -> {0, SQFS_ERROR}]
  /\ \A w \in Workers : /\ wpc[w] = "run" => wblk[w] # NULL
                        /\ wpc[w] \notin {"run", "lock"} => wblk[w] = NULL

(* append_to_work_queue decides by the backlog counter whether there is     *)
(* room and whether sync is done.  The counter always equals the number of  *)
(* blocks that are queued or in the hands of a worker, although it is       *)
(* changed in five places and never by a worker, and it never exceeds       *)
(* max_backlog, not even when a full fragment block is put on the work      *)
(* queue from inside the loop.                                              *)
BacklogExact ==
  /\ backlog = Len(proc_queue) + Len(done) + Len(io_queue)
                 + Cardinality({w \in Workers : wblk[w] # NULL})
  /\ backlog <= MaxBacklog

Times(list, p) == Cardinality({k \in 1 .. Len(list) : list[k] = p})

One(b) == IF b THEN 1 ELSE 0

(* In how many places the block p is held. *)
Owners(p) ==
  Times(proc_queue, p) + Times(done, p) + Times(io_queue, p) + Times(io_list, p)
  + Cardinality({w \in Workers : wblk[w] = p})
  + One(block = p) + One(base.frag_block = p) + One(p \in free_list)
  + Cardinality({q \in Ptr \ free_list : p \in ToSet(blk[q].frag_list)})

(* Blocks are handed over by pointer between the front end, the queues, the *)
(* workers, the fragment block and the free list.  A submitted block is     *)
(* never in two of them (it would be processed, written or freed twice),    *)
(* and unless an error occurred it is in one of them (it is not lost).      *)
OneOwner ==
  pc # "destroyed" =>
    \A p \in 1 .. next : /\ Owners(p) <= 1
                         /\ status = 0 /\ pc # "failed" => Owners(p) = 1

(* doc/parallelism.txt: "Blocks the belong to a single file MUST be written *)
(* in the order that they were submitted."  And the block writer takes what *)
(* comes between the first and the last block of a file for a part of it:   *)
(* no fragment block and no block of another file is written in between,    *)
(* however the workers overtake each other.                                 *)
FilesWrittenInOneRun ==
  LET DataBlockOf(p, i) == input[p].inode = i /\ "IS_FRAGMENT" \notin input[p].flags
      w == base.written
  IN  \A i \in Inodes : \A a, c \in DOMAIN w :
        a < c /\ DataBlockOf(w[a], i) /\ DataBlockOf(w[c], i) =>
          \A b \in a + 1 .. c - 1 :
            DataBlockOf(w[b], i) /\ w[a] < w[b] /\ w[b] < w[c]

(* block_processor.h on sync: "Wait for the in-flight data blocks to        *)
(* finish", and on finish: "flushes the current fragment block [...] and    *)
(* waits for it to be completed as well".  When they return success, each   *)
(* block that was submitted is written, or packed into the fragment block   *)
(* that is still open, and after finish there is none and every fragment    *)
(* table entry has been filled in.                                          *)
SyncDrains ==
  pc = "idle" /\ ret = 0 /\ call \in {"sync", "finish", "flushed"} =>
    LET open == base.frag_block
        kept == IF open = NULL THEN {} ELSE {open} \cup ToSet(blk[open].frag_list)
    IN  /\ 1 .. next \subseteq free_list \cup kept
        /\ \A p \in 1 .. next :
             "IS_FRAGMENT" \notin input[p].flags => Times(base.written, p) = 1
        /\ call # "sync" => /\ open = NULL
                            /\ \A k \in DOMAIN base.frag_tbl : base.frag_tbl[k][2] # 0

(* An error is final: once a call has returned an error, every later call   *)
(* does, and no further block reaches the block writer, whatever the        *)
(* workers still store and whichever thread reported the error first.       *)
ErrorIsFinal ==
  [][ret # 0 => ret' # 0 /\ base'.written = base.written]_vars

(* Every call returns: the main thread is never left waiting on done_cond,  *)
(* and no worker that has to move waits on queue_cond.                      *)
CallsReturn == pc \notin {"create", "idle", "join", "destroyed"} ~> pc = "idle"

(* block_processor_destroy joins every worker, also from inside a failed    *)
(* creation and after any error.                                            *)
DestroyEnds == pc = "join" ~> pc = "destroyed"
=============================================================================
