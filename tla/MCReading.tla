----------------------------- MODULE MCReading -----------------------------
(***************************************************************************)
(* Contents are packed and read back: many archives where no call fails,   *)
(* and a few where the reader runs into failing reads and allocations at   *)
(* any point.                                                              *)
(***************************************************************************)
EXTENDS DataPath

File(flags, data) == [flags |-> flags, data |-> data]

(* Blocks are two cells long.  No file has a block twice. *)
SomeFiles ==
  {File({}, <<1>>), File({}, <<0>>), File({}, <<1, 2, 1>>),
   File({}, <<0, 0, 3>>), File({}, <<1, 2, 0, 0, 5, 5>>), File({"DONT_FRAGMENT"}, <<1, 2, 3>>),
   File({"DONT_COMPRESS"}, <<1, 1, 3>>)}

(* Two fragments fill a fragment block; the next one is a zero byte that is *)
(* not to be taken for a hole.                                              *)
ZeroTail == <<File({}, <<1>>), File({}, <<2>>), File({"IGNORE_SPARSE"}, <<0>>)>>

ZeroArchives == {ZeroTail}

(* Short enough to read it all with failures in between. *)
FewArchives ==
  {<<File({}, <<1, 2, 1>>), File({}, <<3, 4, 2>>), File({}, <<0, 0, 5, 5, 1>>)>>,
   <<File({}, <<1, 1, 1>>), File({}, <<1, 1>>), File({"DONT_FRAGMENT"}, <<0>>)>>}

MCArchives == {<<a, b, c>> : a, b, c \in SomeFiles}

------------------------------------------------------------------------------

VARIABLE faulty  \* do calls of the reader fail?

Faulty == INSTANCE DataPath WITH Archives <- FewArchives, ReadFaults <- {"io", "alloc"}

ReadingInit == \/ faulty = FALSE /\ Init
               \/ faulty = TRUE /\ Faulty!Init

ReadingNext ==
  /\ faulty' = faulty
  /\ \/ ~faulty /\ Next
     \/ faulty /\ Faulty!Next

ReadingSpec == ReadingInit /\ [][ReadingNext]_<<vars, faulty>>

(* Nothing in an image makes a read fail (see DataPath); a failing disk     *)
(* does.                                                                    *)
ReadableUnlessFaulty == ~faulty => NothingUnreadable
=============================================================================
