--------------------------- MODULE ThreadPool_proofs ---------------------------
(* Proofs about ThreadPool, for every number of blocks and workers, every    *)
(* backlog limit and every combination of faults.                            *)
EXTENDS ThreadPool, BlockProcessor_proofs, FiniteSetTheorems

(* Inserting into a sorted list makes it one element longer. *)
LEMMA InsertType ==
  ASSUME NEW list \in Seq(Ptr), NEW num \in [Ptr -> Nat], NEW p \in Ptr
  PROVE  /\ Insert(list, num, p) \in Seq(Ptr)
         /\ Len(Insert(list, num, p)) = Len(list) + 1
<1> DEFINE later == {k \in 1 .. Len(list) : num[list[k]] >= num[p]}
           first == CHOOSE k \in later : \A l \in later : k <= l
           at == IF later = {} THEN Len(list) + 1 ELSE first
<1>1. Len(list) \in Nat /\ later \subseteq 1 .. Len(list)
  OBVIOUS
<1>2. at \in 1 .. Len(list) + 1
  <2>1. later # {} => first \in 1 .. Len(list)
    <3> HIDE DEF later
    <3> QED BY ZenonT(40), <1>1, FirstIn
  <2> HIDE DEF later, first
  <2> QED BY SMTT(40), <1>1, <2>1
<1>3. Insert(list, num, p) = InsertAt(list, at, p)
  BY Zenon DEF Insert
<1> HIDE DEF at
<1> QED BY SMTT(40), <1>2, <1>3, InsertAtType

(* The sequence counters wrap around. *)
LEMMA IncType ==
  ASSUME NEW id \in 0 .. IdMod - 1
  PROVE  Inc(id) \in 0 .. IdMod - 1
BY ThreadPoolAssumption DEF Inc

(* A broadcast moves waiting workers only. *)
LEMMA WakeWorkersType ==
  ASSUME TypeOK
  PROVE  /\ WakeWorkers \in [Workers -> {"none", "lock", "wait", "woken", "run", "exit"}]
         /\ \A w \in Workers : /\ WakeWorkers[w] = "run" => wpc[w] = "run"
                               /\ WakeWorkers[w] = "lock" <=> wpc[w] = "lock"
                               /\ wpc[w] = "run" => WakeWorkers[w] = "run"
BY SMTT(40) DEF TypeOK, WakeWorkers

(* The type invariant, made inductive: the fragment lists are followed when *)
(* a fragment block is released, so they have to hold blocks too.           *)
TypeInv == TypeOK /\ ListsOK(blk) /\ HasFragBlock(base)

(* The pool as create allocates it. *)
LEMMA TypeInit == Init => TypeInv
<1> SUFFICES ASSUME Init PROVE TypeInv
  OBVIOUS
<1>1. ListsOK(blk)
  BY ThreadPoolAssumption DEF Init, ListsOK, HasList, Block
<1>2. HasFragBlock(base) /\ base.frag_block = NULL
  BY DEF Init, NewBase, HasFragBlock
<1>3. TypeOK
  BY SMTT(40), <1>2, ThreadPoolAssumption, BlockProcessorAssumption
  DEF Init, TypeOK, NULL, SQFS_ERROR
<1> QED BY <1>1, <1>2, <1>3 DEF TypeInv

(* Starting the workers, or failing to. *)
LEMMA TypeCreate ==
  ASSUME TypeInv, Creation
  PROVE  TypeInv'
<1>1. CASE CreateFails
  BY ZenonT(40), <1>1, WakeWorkersType
  DEF TypeInv, TypeOK, CreateFails, BeginDestroy, mem, queues, ids, front
<1>2. ASSUME NEW w \in Workers, CreateWorker(w) PROVE TypeInv'
  BY SMTT(40), <1>2
  DEF TypeInv, TypeOK, CreateWorker, mem, queues, ids, front
<1> QED BY SMTT(40), <1>1, <1>2 DEF Creation

(* The steps of a worker. *)
LEMMA TypeGetNext ==
  ASSUME TypeInv, NEW w \in Workers, NEW st, get_next_work_item(w, st)
  PROVE  /\ proc_queue' \in Seq(Ptr)
         /\ wpc' \in [Workers -> {"none", "lock", "wait", "woken", "run", "exit"}]
         /\ wblk' \in [Workers -> Ptr \cup {NULL}]
         /\ \A v \in Workers : /\ wpc'[v] = "run" => wblk'[v] # NULL
                               /\ wpc'[v] \notin {"run", "lock"} => wblk'[v] = NULL
<1>1. NULL \notin Ptr
  BY DEF NULL, Ptr
<1>2. proc_queue # <<>> => Head(proc_queue) \in Ptr /\ Tail(proc_queue) \in Seq(Ptr)
  BY DEF TypeInv, TypeOK
<1> QED BY ZenonT(40), <1>1, <1>2 DEF TypeInv, TypeOK, get_next_work_item

(* Every step of worker_proc keeps the types. *)
LEMMA TypeWorker ==
  ASSUME TypeInv, NEW w \in Workers, WorkerStep(w) \/ WorkerSpurious(w)
  PROVE  TypeInv'
<1>1. CASE WorkerStarts(w)
  <2>1. get_next_work_item(w, status)
    BY <1>1 DEF WorkerStarts
  <2> DEFINE WPC == {"none", "lock", "wait", "woken", "run", "exit"}
  <2>2. /\ proc_queue' \in Seq(Ptr)
        /\ wpc' \in [Workers -> WPC]
        /\ wblk' \in [Workers -> Ptr \cup {NULL}]
        /\ \A v \in Workers : /\ wpc'[v] = "run" => wblk'[v] # NULL
                              /\ wpc'[v] \notin {"run", "lock"} => wblk'[v] = NULL
    BY SMTT(40), <2>1, TypeGetNext
  <2> QED BY SMTT(40), <1>1, <2>2
          DEF TypeInv, TypeOK, WorkerStarts, mem, ids, front, main
<1>2. CASE WorkerStores(w)
  <2>1. wblk[w] \in Ptr
    BY <1>2 DEF WorkerStores, TypeInv, TypeOK
  <2>2. proc_seq_num \in [Ptr -> Nat]
    BY ThreadPoolAssumption DEF TypeInv, TypeOK
  <2>3. done' \in Seq(Ptr)
    BY ZenonT(40), <1>2, <2>1, <2>2, InsertType
    DEF WorkerStores, store_completed_block, TypeInv, TypeOK
  <2>4. status' \in {0, SQFS_ERROR} /\ pc' \in {pc, "woken"}
    BY SMTT(40), <1>2 DEF WorkerStores, store_completed_block, TypeInv, TypeOK, WakeMain
  <2> QED BY ZenonT(40), <1>2, <2>3, <2>4, TypeGetNext
          DEF TypeInv, TypeOK, WorkerStores, mem, ids, front
<1>3. CASE WorkerWakes(w)
  <2>1. get_next_work_item(w, status)
    BY <1>3 DEF WorkerWakes
  <2> DEFINE WPC == {"none", "lock", "wait", "woken", "run", "exit"}
  <2>2. /\ proc_queue' \in Seq(Ptr)
        /\ wpc' \in [Workers -> WPC]
        /\ wblk' \in [Workers -> Ptr \cup {NULL}]
        /\ \A v \in Workers : /\ wpc'[v] = "run" => wblk'[v] # NULL
                              /\ wpc'[v] \notin {"run", "lock"} => wblk'[v] = NULL
    BY <2>1, TypeGetNext
  <2> QED BY SMTT(40), <1>3, <2>2
          DEF TypeInv, TypeOK, WorkerWakes, mem, ids, front, main
<1>4. CASE WorkerProcesses(w)
  <2>1. wblk[w] \in Ptr
    BY <1>4 DEF WorkerProcesses, TypeInv, TypeOK
  <2>2. \A b : HasList(b) => ListsOK([blk EXCEPT ![wblk[w]] = b])
    BY <2>1 DEF TypeInv, ListsOK
  <2>3. HasList(process_block(blk, wblk[w])) /\ HasList(Hashed(blk, wblk[w]))
    BY <2>1, ProcessKeepsList DEF TypeInv, ListsOK
  <2>4. ListsOK(blk')
    BY SMTT(40), <1>4, <2>2, <2>3 DEF WorkerProcesses
  <2>5. wstatus' \in [Workers -> {0, SQFS_ERROR}]
    BY ZenonT(40), <1>4 DEF WorkerProcesses, TypeInv, TypeOK
  <2> QED BY ZenonT(40), <1>4, <2>4, <2>5
          DEF TypeInv, TypeOK, WorkerProcesses, queues, ids, front, main
<1>5. CASE WorkerSpurious(w)
  BY SMTT(40), <1>5 DEF TypeInv, TypeOK, WorkerSpurious, mem, queues, ids, front, main
<1> QED BY SMTT(40), <1>1, <1>2, <1>3, <1>4, <1>5 DEF WorkerStep

(* The calls of the front end, and the ways out of the loop. *)
LEMMA TypeCalls ==
  ASSUME TypeInv, SubmitBlock \/ Sync \/ Finish \/ Destroy
  PROVE  TypeInv'
<1>1. CASE SubmitBlock
  <2>1. next \in 0 .. NBlocks /\ next < NBlocks /\ next' = next + 1
    BY <1>1 DEF SubmitBlock, TypeInv, TypeOK
  <2>2. next + 1 \in Ptr /\ next' \in 0 .. NBlocks
    BY SMTT(40), <2>1, BlockProcessorAssumption DEF Ptr
  <2> QED BY SMTT(40), <1>1, <2>2
          DEF TypeInv, TypeOK, SubmitBlock, Enter, mem, queues, ids, worker
<1>2. CASE Sync \/ Finish
  BY ZenonT(40), <1>2 DEF TypeInv, TypeOK, Sync, Finish, Enter, mem, queues, ids, worker
<1>3. CASE Destroy
  BY ZenonT(40), <1>3, WakeWorkersType
  DEF TypeInv, TypeOK, Destroy, BeginDestroy, mem, queues, ids, front
<1> QED BY <1>1, <1>2, <1>3

(* append_block makes the work queue one block longer. *)
LEMMA TypeAppend ==
  ASSUME TypeInv, NEW p \in Ptr, append_block(p)
  PROVE  /\ proc_queue' \in Seq(Ptr) /\ Len(proc_queue') = Len(proc_queue) + 1
         /\ proc_enq_id' \in 0 .. IdMod - 1
         /\ proc_seq_num' \in [Ptr -> 0 .. IdMod - 1]
BY SMTT(40), IncType DEF TypeInv, TypeOK, append_block

(* The three exits of the loop in append_to_work_queue. *)
LEMMA TypeLeave ==
  ASSUME TypeInv, LeaveWithError \/ LeaveDrained \/ LeaveEnqueued
  PROVE  TypeInv'
<1>1. CASE LeaveWithError
  <2>1. ToSet(io_list) \subseteq Ptr
    BY SMTT(40) DEF TypeInv, TypeOK, ToSet
  <2>2. free_list' \subseteq Ptr /\ io_list' \in Seq(Ptr)
    BY SMTT(40), <1>1, <2>1 DEF LeaveWithError, TypeInv, TypeOK
  <2> QED BY ZenonT(40), <1>1, <2>2, WakeWorkersType
          DEF TypeInv, TypeOK, LeaveWithError, queues, ids, front
<1>2. CASE LeaveDrained
  BY SMTT(40), <1>2, WakeWorkersType
  DEF TypeInv, TypeOK, LeaveDrained, mem, queues, ids, front
<1>3. CASE LeaveEnqueued
  <2>1. /\ proc_queue' \in Seq(Ptr)
        /\ proc_enq_id' \in 0 .. IdMod - 1
        /\ proc_seq_num' \in [Ptr -> 0 .. IdMod - 1]
    <3>1. block \in Ptr
      BY SMTT(40), <1>3 DEF LeaveEnqueued, TypeInv, TypeOK
    <3> QED BY SMTT(40), <1>3, <3>1, TypeAppend DEF LeaveEnqueued
  <2>2. backlog' \in Nat /\ block' = NULL /\ wpc' = WakeWorkers /\ wblk' = wblk
    BY SMTT(40), <1>3 DEF LeaveEnqueued, TypeInv, TypeOK
  <2>3. /\ wpc' \in [Workers -> {"none", "lock", "wait", "woken", "run", "exit"}]
        /\ \A w \in Workers : /\ wpc'[w] = "run" => wblk'[w] # NULL
                              /\ wpc'[w] \notin {"run", "lock"} => wblk'[w] = NULL
    BY SMTT(40), <2>2, WakeWorkersType DEF TypeInv, TypeOK
  <2> QED BY ZenonT(40), <1>3, <2>1, <2>2, <2>3
          DEF TypeInv, TypeOK, LeaveEnqueued, mem, front
<1> QED BY SMTT(40), <1>1, <1>2, <1>3

(* The main thread inside the loop. *)
LEMMA TypeDequeue ==
  ASSUME TypeInv, try_dequeue_io \/ DequeueData
  PROVE  TypeInv'
<1>1. CASE try_dequeue_io
  <2>1. Head(io_queue) \in Ptr /\ io_queue' \in Seq(Ptr) /\ io_list' \in Seq(Ptr)
    BY SMTT(40), <1>1 DEF try_dequeue_io, IoReady, TypeInv, TypeOK
  <2>2. io_deq_id' \in 0 .. IdMod - 1
    BY <1>1, IncType DEF try_dequeue_io, TypeInv, TypeOK
  <2>3. backlog' \in Nat
    BY SMTT(40), <1>1, ThreadPoolAssumption DEF try_dequeue_io, Stays, TypeInv, TypeOK
  <2> QED BY SMTT(90), <1>1, <2>1, <2>2, <2>3
          DEF TypeInv, TypeOK, try_dequeue_io, mem, front, worker
<1>2. CASE DequeueData
  <2>1. Head(done) \in Ptr /\ done' \in Seq(Ptr)
    BY SMTT(40), <1>2 DEF DequeueData, try_dequeue_done, DoneReady, TypeInv, TypeOK
  <2>2. /\ proc_deq_id' \in 0 .. IdMod - 1
        /\ io_enq_id' \in 0 .. IdMod - 1
        /\ io_seq_num' \in [Ptr -> 0 .. IdMod - 1]
    BY ZenonT(40), <1>2, <2>1, IncType DEF DequeueData, try_dequeue_done, TypeInv, TypeOK
  <2>3. io_queue' \in Seq(Ptr)
    <3>1. io_seq_num' \in [Ptr -> Nat]
      BY SMTT(40), <2>2, ThreadPoolAssumption
    <3>2. io_queue' = Insert(io_queue, io_seq_num', Head(done))
      BY SMTT(40), <1>2 DEF DequeueData
    <3>3. io_queue \in Seq(Ptr)
      BY SMTT(40) DEF TypeInv, TypeOK
    <3> QED BY SMTT(40), <2>1, <3>1, <3>2, <3>3, InsertType
  <2> QED BY ZenonT(40), <1>2, <2>1, <2>2, <2>3
          DEF TypeInv, TypeOK, DequeueData, try_dequeue_done, mem, front, main, worker
<1> QED BY <1>1, <1>2

(* Packing a fragment inside the loop, also if it fails. *)
LEMMA TypeFragment ==
  ASSUME TypeInv, NEW fault, DequeueFragment(fault)
  PROVE  TypeInv'
<1> DEFINE p == Head(done)
           r == process_completed_fragment(blk, base, p, fault)
<1>1. p \in Ptr /\ done' \in Seq(Ptr)
  BY DEF DequeueFragment, try_dequeue_done, DoneReady, TypeInv, TypeOK
<1>2. PackedOK(r)
  BY SMTT(40), <1>1, PackedType DEF TypeInv
<1>3. /\ blk' = r.blk /\ base' = r.base /\ free_list' = free_list \cup r.freed
      /\ status' = IF r.ok THEN 0 ELSE SQFS_ERROR
      /\ Stays /\ proc_deq_id' = Inc(proc_deq_id)
      /\ UNCHANGED <<io_queue, io_deq_id, front, main, wblk, wstatus>>
  BY SMTT(40) DEF DequeueFragment, try_dequeue_done
<1>4. \/ /\ r.out = NULL /\ backlog' = backlog - 1
         /\ UNCHANGED <<proc_queue, proc_seq_num, proc_enq_id, io_seq_num, io_enq_id, wpc>>
      \/ /\ r.out # NULL
         /\ io_seq_num' = [io_seq_num EXCEPT ![r.out] = io_enq_id]
         /\ io_enq_id' = Inc(io_enq_id)
         /\ append_block(r.out)
         /\ wpc' = WakeWorkers
         /\ UNCHANGED backlog
  BY SMTT(40) DEF DequeueFragment
<1> HIDE DEF p, r
<1>5. /\ ListsOK(blk') /\ HasFragBlock(base') /\ free_list' \subseteq Ptr
      /\ status' \in {0, SQFS_ERROR} /\ proc_deq_id' \in 0 .. IdMod - 1
  BY SMTT(40), <1>2, <1>3, IncType DEF PackedOK, TypeInv, TypeOK
<1>6. /\ proc_queue' \in Seq(Ptr) /\ backlog' \in Nat
      /\ proc_enq_id' \in 0 .. IdMod - 1 /\ io_enq_id' \in 0 .. IdMod - 1
      /\ proc_seq_num' \in [Ptr -> 0 .. IdMod - 1]
      /\ io_seq_num' \in [Ptr -> 0 .. IdMod - 1]
  <2>1. CASE r.out = NULL
    BY SMTT(40), <1>3, <1>4, <2>1, ThreadPoolAssumption DEF Stays, TypeInv, TypeOK
  <2>2. CASE r.out # NULL
    <3>1. r.out \in Ptr /\ append_block(r.out)
      BY SMTT(40), <1>2, <1>4, <2>2 DEF PackedOK
    <3>2. /\ proc_queue' \in Seq(Ptr) /\ proc_enq_id' \in 0 .. IdMod - 1
          /\ proc_seq_num' \in [Ptr -> 0 .. IdMod - 1]
      BY SMTT(40), <3>1, TypeAppend
    <3>3. /\ backlog' \in Nat /\ io_enq_id' \in 0 .. IdMod - 1
          /\ io_seq_num' \in [Ptr -> 0 .. IdMod - 1]
      BY ZenonT(40), <1>4, <2>2, <3>1, IncType DEF TypeInv, TypeOK
    <3> QED BY SMTT(40), <3>2, <3>3
  <2> QED BY SMTT(40), <2>1, <2>2
<1>7. /\ wpc' \in [Workers -> {"none", "lock", "wait", "woken", "run", "exit"}]
      /\ \A w \in Workers : /\ wpc'[w] = "run" => wblk'[w] # NULL
                            /\ wpc'[w] \notin {"run", "lock"} => wblk'[w] = NULL
  <2>1. wpc' = wpc \/ wpc' = WakeWorkers
    BY <1>4
  <2> QED BY ZenonT(40), <1>3, <2>1, WakeWorkersType DEF TypeInv, TypeOK
<1> QED BY ZenonT(40), <1>1, <1>3, <1>5, <1>6, <1>7
        DEF TypeInv, TypeOK, HasFragBlock, front, main

(* The main thread outside of the loop. *)
LEMMA TypeWaits ==
  ASSUME TypeInv, AwaitDone \/ MainWakes \/ MainSpurious
  PROVE  TypeInv'
BY ZenonT(40)
DEF TypeInv, TypeOK, AwaitDone, MainWakes, MainSpurious, mem, queues, ids, front, worker

(* handle_io_queue, with a write that fails. *)
LEMMA TypeIo ==
  ASSUME TypeInv, WriteBlock \/ WriteFails \/ ReportFailure
  PROVE  TypeInv'
<1>1. CASE WriteBlock \/ WriteFails
  <2>1. Head(io_list) \in Ptr /\ io_list' \in Seq(Ptr)
    <3>1. /\ io_list \in Seq(Ptr) /\ io_list # <<>>
          /\ io_list' = Tail(io_list) \/ io_list' = <<>>
      BY SMTT(40), <1>1 DEF WriteBlock, WriteFails, TypeInv, TypeOK
    <3>2. Head(io_list) \in Ptr /\ Tail(io_list) \in Seq(Ptr) /\ <<>> \in Seq(Ptr)
      BY SMTT(40), <3>1
    <3> QED BY ZenonT(40), <3>1, <3>2
  <2>2. free_list' \subseteq Ptr
    <3>1. release_old_block(blk, Head(io_list)) \subseteq Ptr
      BY SMTT(40), <2>1, ReleasedType DEF TypeInv
    <3> QED BY SMTT(40), <1>1, <3>1 DEF WriteBlock, WriteFails, TypeInv, TypeOK
  <2>3. HasFragBlock(base')
    <3>1. HasFragBlock(base)
      BY DEF TypeInv
    <3>2. HasFragBlock(process_completed_block(blk, base, Head(io_list), Len(base.written)))
      BY SMTT(40), <3>1, CompletedBlock
    <3>3. HasFragBlock(unrecorded_block(blk, base, Head(io_list)))
      BY SMTT(40), <3>1, CompletedBlock
    <3> QED BY SMTT(40), <1>1, <3>1, <3>2, <3>3 DEF WriteBlock, WriteFails
  <2>4. /\ pc' \in {pc, "failed"}
        /\ UNCHANGED <<blk, queues, ids, front, call, ret, block, worker, status>>
    BY SMTT(40), <1>1 DEF WriteBlock, WriteFails
  <2> QED BY ZenonT(40), <2>1, <2>2, <2>3, <2>4
          DEF TypeInv, TypeOK, HasFragBlock, queues, ids, front, worker
<1>2. CASE ReportFailure
  <2>1. status' \in {0, SQFS_ERROR} /\ ret' \in {0, SQFS_ERROR}
    BY ZenonT(40), <1>2 DEF ReportFailure, TypeInv, TypeOK
  <2> QED BY ZenonT(40), <1>2, <2>1, WakeWorkersType
          DEF TypeInv, TypeOK, ReportFailure, mem, queues, ids, front
<1> QED BY <1>1, <1>2

(* The rest of finish, and the end of destroy. *)
LEMMA TypeReturn ==
  ASSUME TypeInv, Flush \/ SyncFlushed \/ Return \/ EndDestroy
  PROVE  TypeInv'
<1>1. CASE Flush
  <2>1. base.frag_block \in Ptr
    BY SMTT(40), <1>1 DEF Flush, TypeInv, TypeOK
  <2>2. ListsOK(blk')
    BY SMTT(40), <1>1, <2>1 DEF Flush, TypeInv, ListsOK, HasList
  <2>3. HasFragBlock(base')
    BY SMTT(40), <1>1 DEF Flush, TypeInv, HasFragBlock
  <2> QED BY SMTT(40), <1>1, <2>1, <2>2, <2>3
          DEF TypeInv, TypeOK, HasFragBlock, Flush, queues, ids, front, worker
<1>2. CASE SyncFlushed \/ Return
  BY SMTT(40), <1>2 DEF TypeInv, TypeOK, SyncFlushed, Return, mem, queues, ids, front, worker
<1>3. CASE EndDestroy
  <2>1. /\ ToSet(proc_queue) \subseteq Ptr /\ ToSet(io_queue) \subseteq Ptr
        /\ ToSet(done) \subseteq Ptr
    BY SMTT(40) DEF TypeInv, TypeOK, ToSet
  <2>2. base.frag_block # NULL => release_old_block(blk, base.frag_block) \subseteq Ptr
    BY SMTT(40), ReleasedType DEF TypeInv, HasFragBlock
  <2>3. free_list' \subseteq Ptr
    <3>1. free_list \subseteq Ptr
      BY DEF TypeInv, TypeOK
    <3>2. free_list' = free_list \cup ToSet(proc_queue) \cup ToSet(io_queue)
                         \cup ToSet(done)
                         \cup (IF base.frag_block = NULL THEN {}
                               ELSE release_old_block(blk, base.frag_block))
      BY ZenonT(40), <1>3, ZenonT(40) DEF EndDestroy
    <3> QED BY ZenonT(40), <2>1, <2>2, <3>1, <3>2, ZenonT(40)
  <2> QED BY ZenonT(40), <1>3, <2>3
          DEF TypeInv, TypeOK, EndDestroy, queues, ids, front, worker
<1> QED BY <1>1, <1>2, <1>3

(* Steps that change nothing. *)
LEMMA TypeStutter ==
  ASSUME TypeInv, UNCHANGED vars
  PROVE  TypeInv'
BY SMTT(40) DEF TypeInv, TypeOK, vars, mem, queues, ids, front, main, worker

(* No step of any thread breaks the type invariant. *)
LEMMA TypeStep == TypeInv /\ [Next]_vars => TypeInv'
BY TypeCreate, TypeCalls, TypeWorker, TypeLeave, TypeDequeue, TypeFragment,
   TypeWaits, TypeIo, TypeReturn, TypeStutter
DEF Next, MainStep, Terminated

(* The inductive type invariant holds in every reachable state. *)
LEMMA TypeInvariant == Spec => []TypeInv
BY TypeInit, TypeStep, PTL DEF Spec

(* The queues of the thread pool hold blocks, its counters keep their       *)
(* width and its threads hold a block where worker_proc and                 *)
(* append_to_work_queue do, whatever is submitted and whatever fails.       *)
THEOREM TypeCorrect == Spec => []TypeOK
<1>1. TypeInv => TypeOK
  BY DEF TypeInv
<1> QED BY <1>1, TypeInvariant, PTL

--------------------------------------------------------------------------------
(* The backlog.  Which workers hold a block, if f tells what they hold. *)
Busy(f) == {w \in Workers : f[w] # NULL}

(* How many workers other than w hold a block. *)
Others(f, w) == Cardinality({v \in Workers : v # w /\ f[v] # NULL})

(* The workers with a block: the worker w, and the others. *)
LEMMA BusyCount ==
  ASSUME NEW f, NEW w \in Workers
  PROVE  /\ Others(f, w) \in Nat
         /\ Cardinality(Busy(f)) = Others(f, w) + (IF f[w] # NULL THEN 1 ELSE 0)
<1> DEFINE S == {v \in Workers : v # w /\ f[v] # NULL}
<1>1. IsFiniteSet(Workers)
  BY SMTT(40), FS_Interval, ThreadPoolAssumption DEF Workers
<1>2. S \subseteq Workers /\ w \notin S
  OBVIOUS
<1>3. IsFiniteSet(S) /\ Cardinality(S) \in Nat
  BY SMTT(40), <1>1, <1>2, FS_Subset, FS_CardinalityType
<1>4. Busy(f) = IF f[w] # NULL THEN S \cup {w} ELSE S
  BY DEF Busy
<1> HIDE DEF S
<1>5. Cardinality(S \cup {w}) = Cardinality(S) + 1
  BY ZenonT(40), <1>2, <1>3, FS_AddElement
<1>6. Others(f, w) = Cardinality(S)
  BY DEF Others, S
<1> QED BY SMTT(40), <1>3, <1>4, <1>5, <1>6

(* Taking the next block moves it from the work queue to the worker. *)
LEMMA GetNextCount ==
  ASSUME TypeInv, NEW w \in Workers, NEW st, get_next_work_item(w, st)
  PROVE  /\ Len(proc_queue') \in Nat /\ Cardinality(Busy(wblk')) \in Nat
         /\ Len(proc_queue') + Cardinality(Busy(wblk')) = Len(proc_queue) + Others(wblk, w)
<1>1. Others(wblk', w) = Others(wblk, w)
  <2>1. \A v \in Workers : v # w => wblk'[v] = wblk[v]
    BY DEF get_next_work_item, TypeInv, TypeOK
  <2>2. {v \in Workers : v # w /\ wblk'[v] # NULL} = {v \in Workers : v # w /\ wblk[v] # NULL}
    BY SMTT(40), <2>1
  <2> QED BY SMTT(40), <2>2 DEF Others
<1>2. /\ Others(wblk', w) \in Nat
      /\ Cardinality(Busy(wblk')) = Others(wblk', w) + (IF wblk'[w] # NULL THEN 1 ELSE 0)
  BY SMTT(40), BusyCount
<1>3. proc_queue \in Seq(Ptr) /\ wblk \in [Workers -> Ptr \cup {NULL}] /\ NULL \notin Ptr
  BY DEF TypeInv, TypeOK, Ptr, NULL
<1>4. \/ proc_queue' = proc_queue /\ wblk'[w] = NULL
      \/ /\ proc_queue # <<>> /\ proc_queue' = Tail(proc_queue)
         /\ wblk'[w] = Head(proc_queue)
  BY SMTT(40), <1>3 DEF get_next_work_item
<1>5. CASE proc_queue' = proc_queue /\ wblk'[w] = NULL
  BY SMTT(40), <1>1, <1>2, <1>3, <1>5
<1>6. CASE proc_queue # <<>> /\ proc_queue' = Tail(proc_queue) /\ wblk'[w] = Head(proc_queue)
  <2>1. Head(proc_queue) \in Ptr /\ Len(Tail(proc_queue)) = Len(proc_queue) - 1
        /\ Len(proc_queue) \in Nat
    BY SMTT(40), <1>3, <1>6
  <2> QED BY SMTT(40), <1>1, <1>2, <1>3, <1>6, <2>1
<1> QED BY SMTT(40), <1>4, <1>5, <1>6

(* A new pool has no backlog. *)
LEMMA BacklogInit == Init => BacklogExact
<1> SUFFICES ASSUME Init PROVE BacklogExact
  OBVIOUS
<1>1. {w \in Workers : wblk[w] # NULL} = {}
  BY DEF Init
<1>2. Cardinality({w \in Workers : wblk[w] # NULL}) = 0
  BY SMTT(40), <1>1, FS_EmptySet
<1> QED BY SMTT(40), <1>2, ThreadPoolAssumption DEF Init, BacklogExact

(* Steps that move no block between the queues and the workers. *)
LEMMA BacklogKept ==
  ASSUME BacklogExact, UNCHANGED <<queues, wblk>>
  PROVE  BacklogExact'
BY SMTT(40) DEF BacklogExact, queues

(* What is counted. *)
LEMMA BacklogSizes ==
  ASSUME TypeInv
  PROVE  /\ Len(proc_queue) \in Nat /\ Len(done) \in Nat /\ Len(io_queue) \in Nat
         /\ backlog \in Nat /\ MaxBacklog \in Nat
         /\ Cardinality(Busy(wblk)) \in Nat
<1>1. Cardinality(Busy(wblk)) \in Nat
  <2>1. PICK w : w \in Workers
    BY SMTT(40), ThreadPoolAssumption DEF Workers
  <2> QED BY SMTT(40), <2>1, BusyCount
<1> QED BY SMTT(40), <1>1, ThreadPoolAssumption DEF TypeInv, TypeOK

(* The numbers that the two queues are sorted by are natural numbers. *)
LEMMA SeqNumType ==
  ASSUME TypeInv
  PROVE  proc_seq_num \in [Ptr -> Nat] /\ io_seq_num \in [Ptr -> Nat]
<1>1. /\ proc_seq_num \in [Ptr -> 0 .. IdMod - 1]
      /\ io_seq_num \in [Ptr -> 0 .. IdMod - 1]
  BY SMTT(40) DEF TypeInv, TypeOK
<1>2. 0 .. IdMod - 1 \subseteq Nat
  BY ThreadPoolAssumption
<1> QED BY SMTT(40), <1>1, <1>2

(* The head of the done queue is a block, and without it the queue is one   *)
(* block shorter.                                                           *)
LEMMA DoneHead ==
  ASSUME TypeInv, try_dequeue_done
  PROVE  Head(done) \in Ptr /\ Len(done') = Len(done) - 1
<1>1. done \in Seq(Ptr)
  BY DEF TypeInv, TypeOK
<1>2. done # <<>> /\ done' = Tail(done)
  BY DEF try_dequeue_done, DoneReady
<1> QED BY SMTT(40), <1>1, <1>2

(* A worker moves a block between places that are counted. *)
LEMMA BacklogWorker ==
  ASSUME TypeInv, BacklogExact, NEW w \in Workers, WorkerStep(w) \/ WorkerSpurious(w)
  PROVE  BacklogExact'
<1>1. CASE WorkerStarts(w) \/ WorkerWakes(w)
  <2>1. get_next_work_item(w, status) /\ UNCHANGED <<done, io_queue, backlog>>
    BY SMTT(40), <1>1 DEF WorkerStarts, WorkerWakes
  <2>2. wblk[w] = NULL
    BY ZenonT(40), <1>1 DEF WorkerStarts, WorkerWakes, TypeInv, TypeOK
  <2>3. Len(proc_queue') + Cardinality(Busy(wblk')) = Len(proc_queue) + Cardinality(Busy(wblk))
    BY SMTT(40), <2>1, <2>2, GetNextCount, BusyCount
  <2>4. /\ backlog = Len(proc_queue) + Len(done) + Len(io_queue) + Cardinality(Busy(wblk))
        /\ backlog <= MaxBacklog
    BY SMTT(40) DEF BacklogExact, Busy
  <2>5. /\ backlog' = Len(proc_queue') + Len(done') + Len(io_queue') + Cardinality(Busy(wblk'))
        /\ backlog' <= MaxBacklog
    BY SMTT(40), <2>1, <2>3, <2>4, BacklogSizes, GetNextCount
  <2> QED BY SMTT(40), <2>5 DEF BacklogExact, Busy
<1>2. CASE WorkerStores(w)
  <2>1. /\ get_next_work_item(w, status') /\ UNCHANGED <<io_queue, backlog>>
        /\ wblk[w] # NULL /\ done' = Insert(done, proc_seq_num, wblk[w])
    BY ZenonT(40), <1>2 DEF WorkerStores, store_completed_block
  <2>2. Len(done') = Len(done) + 1
    <3>1. done \in Seq(Ptr) /\ wblk \in [Workers -> Ptr \cup {NULL}]
      BY DEF TypeInv, TypeOK
    <3>2. wblk[w] \in Ptr
      BY SMTT(40), <2>1, <3>1
    <3> QED BY ZenonT(40), <2>1, <3>1, <3>2, SeqNumType, InsertType
  <2>3. /\ Len(proc_queue') \in Nat /\ Cardinality(Busy(wblk')) \in Nat
        /\ Len(proc_queue') + Cardinality(Busy(wblk')) = Len(proc_queue) + Cardinality(Busy(wblk)) - 1
    <3>1. /\ Len(proc_queue') \in Nat /\ Cardinality(Busy(wblk')) \in Nat
          /\ Len(proc_queue') + Cardinality(Busy(wblk')) = Len(proc_queue) + Others(wblk, w)
      BY SMTT(40), <2>1, GetNextCount
    <3>2. Others(wblk, w) \in Nat /\ Cardinality(Busy(wblk)) = Others(wblk, w) + 1
      BY SMTT(40), <2>1, BusyCount
    <3> QED BY SMTT(40), <3>1, <3>2, BacklogSizes
  <2>4. /\ backlog = Len(proc_queue) + Len(done) + Len(io_queue) + Cardinality(Busy(wblk))
        /\ backlog <= MaxBacklog
    BY DEF BacklogExact, Busy
  <2>5. /\ backlog' = Len(proc_queue') + Len(done') + Len(io_queue') + Cardinality(Busy(wblk'))
        /\ backlog' <= MaxBacklog
    BY SMTT(40), <2>1, <2>2, <2>3, <2>4, BacklogSizes
  <2> QED BY <2>5 DEF BacklogExact, Busy
<1>3. CASE WorkerProcesses(w) \/ WorkerSpurious(w)
  BY SMTT(40), <1>3, BacklogKept DEF WorkerProcesses, WorkerSpurious
<1> QED BY SMTT(40), <1>1, <1>2, <1>3 DEF WorkerStep

(* The main thread counts what it enqueues and dequeues. *)
LEMMA BacklogDequeue ==
  ASSUME TypeInv, BacklogExact, LeaveEnqueued \/ try_dequeue_io \/ DequeueData
  PROVE  BacklogExact'
<1>1. CASE LeaveEnqueued
  <2>1. Len(proc_queue') = Len(proc_queue) + 1
    <3>1. block \in Ptr /\ append_block(block)
      BY SMTT(40), <1>1 DEF LeaveEnqueued, TypeInv, TypeOK
    <3> QED BY SMTT(40), <3>1, TypeAppend
  <2> QED BY SMTT(40), <1>1, <2>1, BacklogSizes DEF LeaveEnqueued, BacklogExact, Busy
<1>2. CASE try_dequeue_io
  <2>1. Len(io_queue') = Len(io_queue) - 1
    BY SMTT(40), <1>2 DEF try_dequeue_io, IoReady, TypeInv, TypeOK
  <2>2. UNCHANGED <<proc_queue, done, wblk>> /\ backlog' = backlog - 1
    BY SMTT(40), <1>2 DEF try_dequeue_io, worker
  <2> QED BY SMTT(40), <2>1, <2>2, BacklogSizes DEF BacklogExact, Busy
<1>3. CASE DequeueData
  <2>1. /\ Head(done) \in Ptr /\ Len(done') = Len(done) - 1
        /\ io_queue \in Seq(Ptr)
    BY ZenonT(40), <1>3, DoneHead DEF DequeueData, TypeInv, TypeOK
  <2>2. Len(io_queue') = Len(io_queue) + 1
    <3>1. io_seq_num' \in [Ptr -> Nat]
      <4>1. TypeInv'
        BY SMTT(40), <1>3, TypeDequeue
      <4> QED BY SMTT(40), <4>1, ThreadPoolAssumption DEF TypeInv, TypeOK
    <3>2. io_queue' = Insert(io_queue, io_seq_num', Head(done))
      BY SMTT(40), <1>3 DEF DequeueData
    <3> QED BY SMTT(40), <2>1, <3>1, <3>2, InsertType
  <2>3. UNCHANGED <<proc_queue, backlog, wblk>>
    BY <1>3 DEF DequeueData, worker
  <2> QED BY SMTT(40), <2>1, <2>2, <2>3, BacklogSizes DEF BacklogExact, Busy
<1> QED BY SMTT(40), <1>1, <1>2, <1>3

(* A fragment leaves, or a full fragment block takes its place. *)
LEMMA BacklogFragment ==
  ASSUME TypeInv, BacklogExact, NEW fault, DequeueFragment(fault)
  PROVE  BacklogExact'
<1> DEFINE p == Head(done)
           r == process_completed_fragment(blk, base, p, fault)
<1>1. p \in Ptr /\ Len(done') = Len(done) - 1
  BY SMTT(40), DoneHead DEF DequeueFragment
<1>2. r.out \in Ptr \cup {NULL}
  BY SMTT(40), <1>1, PackedType DEF TypeInv, PackedOK
<1>3. UNCHANGED <<io_queue, wblk>>
  BY SMTT(40) DEF DequeueFragment
<1>4. \/ r.out = NULL /\ backlog' = backlog - 1 /\ UNCHANGED proc_queue
      \/ r.out # NULL /\ append_block(r.out) /\ UNCHANGED backlog
  BY SMTT(40) DEF DequeueFragment
<1> HIDE DEF p, r
<1>5. CASE r.out = NULL
  BY SMTT(40), <1>1, <1>3, <1>4, <1>5, BacklogSizes DEF BacklogExact, Busy
<1>6. CASE r.out # NULL
  <2>1. Len(proc_queue') = Len(proc_queue) + 1
    BY SMTT(40), <1>2, <1>4, <1>6, TypeAppend
  <2> QED BY SMTT(40), <1>1, <1>3, <1>4, <1>6, <2>1, BacklogSizes DEF BacklogExact, Busy
<1> QED BY SMTT(40), <1>5, <1>6

(* No step of any thread makes the backlog counter wrong. *)
LEMMA BacklogStep == TypeInv /\ BacklogExact /\ [Next]_vars => BacklogExact'
<1> SUFFICES ASSUME TypeInv, BacklogExact, [Next]_vars PROVE BacklogExact'
  BY SMTT(40)
<1>1. CASE Creation \/ SubmitBlock \/ Sync \/ Finish \/ Destroy
  BY SMTT(40), <1>1, BacklogKept
  DEF Creation, CreateFails, CreateWorker, BeginDestroy, SubmitBlock, Sync, Finish,
      Destroy, Enter, worker
<1>2. CASE LeaveWithError \/ LeaveDrained \/ AwaitDone \/ MainWakes \/ MainSpurious
  BY SMTT(40), <1>2, BacklogKept
  DEF LeaveWithError, LeaveDrained, AwaitDone, MainWakes, MainSpurious, worker
<1>3. CASE WriteBlock \/ WriteFails \/ ReportFailure
  BY SMTT(40), <1>3, BacklogKept DEF WriteBlock, WriteFails, ReportFailure, worker
<1>4. CASE Flush \/ SyncFlushed \/ Return \/ EndDestroy
  BY SMTT(40), <1>4, BacklogKept DEF Flush, SyncFlushed, Return, EndDestroy, worker
<1>5. CASE UNCHANGED vars
  BY SMTT(40), <1>5, BacklogKept DEF vars, worker
<1> QED BY SMTT(40), <1>1, <1>2, <1>3, <1>4, <1>5, BacklogDequeue, BacklogFragment, BacklogWorker
        DEF Next, MainStep, Terminated

(* The backlog counter of winpthread.c, by which append_to_work_queue and   *)
(* sync decide, is exact and stays within max_backlog.                      *)
THEOREM BacklogCorrect == Spec => []BacklogExact
BY BacklogInit, BacklogStep, TypeInvariant, PTL DEF Spec

--------------------------------------------------------------------------------
(* Errors.  When a call has returned an error, the status says so, and the  *)
(* main thread is in no place from where it would write a block or return   *)
(* success.                                                                 *)
ErrorInv == ret # 0 => status # 0 /\ pc \in {"idle", "loop", "join", "destroyed"}

(* No step of any thread takes an error back or writes after it. *)
LEMMA ErrorStep ==
  ASSUME TypeInv, ErrorInv, [Next]_vars
  PROVE  ErrorInv' /\ (ret # 0 => ret' # 0 /\ base'.written = base.written)
<1>1. CASE Creation \/ SubmitBlock \/ Sync \/ Finish \/ Destroy
  BY SMTT(40), <1>1
  DEF ErrorInv, Creation, CreateFails, CreateWorker, BeginDestroy, SubmitBlock, Sync,
      Finish, Destroy, Enter, mem, SQFS_ERROR
<1>2. CASE LeaveWithError \/ LeaveDrained \/ AwaitDone \/ MainWakes \/ MainSpurious
  BY SMTT(40), <1>2
  DEF ErrorInv, LeaveWithError, LeaveDrained, AwaitDone, MainWakes, MainSpurious, mem, Stays
<1>3. CASE LeaveEnqueued \/ try_dequeue_io \/ DequeueData
  BY SMTT(40), <1>3
  DEF ErrorInv, LeaveEnqueued, try_dequeue_io, DequeueData, try_dequeue_done, Stays, mem, main
<1>4. ASSUME NEW fault, DequeueFragment(fault)
      PROVE  ErrorInv' /\ (ret # 0 => ret' # 0 /\ base'.written = base.written)
  BY ZenonT(40), <1>4 DEF ErrorInv, DequeueFragment, try_dequeue_done, Stays, main
<1>5. CASE WriteBlock \/ WriteFails \/ ReportFailure
  BY SMTT(40), <1>5 DEF ErrorInv, WriteBlock, WriteFails, ReportFailure, mem, SQFS_ERROR
<1>6. CASE Flush \/ SyncFlushed \/ Return \/ EndDestroy
  BY SMTT(40), <1>6 DEF ErrorInv, Flush, SyncFlushed, Return, EndDestroy, mem
<1>7. ASSUME NEW w \in Workers, WorkerStep(w) \/ WorkerSpurious(w)
      PROVE  ErrorInv' /\ (ret # 0 => ret' # 0 /\ base'.written = base.written)
  <2>1. CASE WorkerStores(w)
    <3>1. /\ ret' = ret /\ base' = base /\ pc' = WakeMain
          /\ status' = IF wstatus[w] # 0 /\ status = 0 THEN wstatus[w] ELSE status
      BY ZenonT(40), <2>1 DEF WorkerStores, store_completed_block, mem
    <3> QED BY SMTT(40), <3>1 DEF ErrorInv, WakeMain
  <2>2. CASE WorkerStarts(w) \/ WorkerWakes(w) \/ WorkerProcesses(w) \/ WorkerSpurious(w)
    <3>1. UNCHANGED <<base, main, status>>
      BY ZenonT(40), <2>2 DEF WorkerStarts, WorkerWakes, WorkerProcesses, WorkerSpurious, mem
    <3> QED BY ZenonT(40), <3>1 DEF ErrorInv, main
  <2> QED BY ZenonT(40), <1>7, <2>1, <2>2 DEF WorkerStep
<1>8. CASE UNCHANGED vars
  BY SMTT(40), <1>8 DEF ErrorInv, vars, mem, main
<1> QED BY SMTT(40), <1>1, <1>2, <1>3, <1>4, <1>5, <1>6, <1>7, <1>8
        DEF Next, MainStep, Terminated

(* Once a call has returned an error, every later call does, and no block   *)
(* reaches the block writer any more: the status that LeaveWithError,       *)
(* ReportFailure and the workers set is never reset.                        *)
THEOREM ErrorsAreFinal == Spec => ErrorIsFinal
<1>1. Init => ErrorInv
  BY SMTT(40) DEF Init, ErrorInv
<1>2. TypeInv /\ ErrorInv /\ [Next]_vars =>
        ErrorInv' /\ [ret # 0 => ret' # 0 /\ base'.written = base.written]_vars
  BY ErrorStep
<1> QED BY <1>1, <1>2, TypeInvariant, PTL DEF Spec, ErrorIsFinal
===============================================================================
