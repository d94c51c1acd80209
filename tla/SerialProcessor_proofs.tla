------------------------ MODULE SerialProcessor_proofs ------------------------
(***************************************************************************)
(* Every block that the serial processor was given is released once or     *)
(* held by the open fragment block, whatever is submitted and whichever    *)
(* step fails.                                                             *)
(***************************************************************************)
EXTENDS SerialProcessor, BlockProcessor_proofs

(* Two stages of a block: its fragments are the same, no flag is lost. *)
Later(b, c) ==
  /\ DOMAIN c = DOMAIN b
  /\ c.frag_list = b.frag_list
  /\ b.flags \subseteq c.flags

(* The fields of a block that this is about. *)
IsBlock(b) == {"frag_list", "flags"} \subseteq DOMAIN b /\ b.frag_list \in Seq(Ptr)
IsHeap(heap) == DOMAIN heap = Ptr /\ \A p \in Ptr : IsBlock(heap[p])

(* What a fragment block that is built from the base holds. *)
Held(heap, b) ==
  IF b.frag_block = NULL THEN {}
  ELSE {b.frag_block} \cup ToSet(heap[b.frag_block].frag_list)

(* Processing a block keeps its fragments, also if the compressor fails. *)
LEMMA ProcessedIsLater ==
  ASSUME NEW heap, NEW p, IsBlock(heap[p])
  PROVE  Later(heap[p], process_block(heap, p)) /\ Later(heap[p], Hashed(heap, p))
<1> DEFINE c == Consolidated(heap, p)
           h == Hashed(heap, p)
           r == process_block(heap, p)
<1>1. Later(heap[p], c) /\ IsBlock(c)
  <2>1. \/ c = heap[p]
        \/ \E u, v : c = [heap[p] EXCEPT !.data = u, !.flags = @ \cup v]
    BY Zenon DEF Consolidated
  <2> HIDE DEF c
  <2>2. ASSUME NEW u, NEW v, c = [heap[p] EXCEPT !.data = u, !.flags = @ \cup v]
        PROVE  Later(heap[p], c)
    BY <2>2 DEF Later, IsBlock
  <2>3. ASSUME c = heap[p] PROVE Later(heap[p], c)
    BY <2>3 DEF Later
  <2>4. Later(heap[p], c)
    BY <2>1, <2>2, <2>3
  <2> QED BY <2>4 DEF Later, IsBlock
<1>2. Later(heap[p], h) /\ IsBlock(h)
  <2>1. \E u : h = [c EXCEPT !.checksum = u]
    BY Zenon DEF Hashed
  <2> HIDE DEF c, h
  <2> QED BY <1>1, <2>1 DEF Later, IsBlock
<1>3. Later(heap[p], r)
  <2>1. \/ r = heap[p]
        \/ \E w : r = [c EXCEPT !.flags = @ \cup w]
        \/ \E u, v, w : r = [h EXCEPT !.data = u, !.size = v, !.flags = @ \cup w]
        \/ r = h
    BY Zenon DEF process_block
  <2> HIDE DEF c, h, r
  <2>2. ASSUME r = heap[p] PROVE Later(heap[p], r)
    BY <2>2 DEF Later
  <2>3. ASSUME NEW w, r = [c EXCEPT !.flags = @ \cup w] PROVE Later(heap[p], r)
    BY <1>1, <2>3 DEF Later, IsBlock
  <2>4. ASSUME NEW u, NEW v, NEW w, r = [h EXCEPT !.data = u, !.size = v, !.flags = @ \cup w]
        PROVE  Later(heap[p], r)
    BY <1>2, <2>4 DEF Later, IsBlock
  <2> QED BY <1>2, <2>1, <2>2, <2>3, <2>4
<1> QED BY <1>2, <1>3

------------------------------------------------------------------------------
(* A heap in which one block has gone through a stage. *)
LEMMA LaterHeap ==
  ASSUME NEW heap, IsHeap(heap), NEW p \in Ptr, NEW c, Later(heap[p], c)
  PROVE  LET new == [heap EXCEPT ![p] = c]
         IN  /\ IsHeap(new)
             /\ \A q \in Ptr : new[q].frag_list = heap[q].frag_list /\ heap[q].flags \subseteq new[q].flags
             /\ \A q \in Ptr \ {p} : new[q] = heap[q]
BY DEF IsHeap, IsBlock, Later

(* A block that is written, or fails to be, is released together with the   *)
(* fragments it is made of.                                                 *)
LEMMA WriteReleases ==
  ASSUME NEW heap, IsHeap(heap), NEW b, HasFragBlock(b), NEW p \in Ptr, NEW fault,
         "FRAGMENT_BLOCK" \in heap[p].flags \/ heap[p].frag_list = <<>>
  PROVE  LET r == ProcessAndWrite(heap, b, p, fault)
         IN  /\ r.freed = {p} \cup ToSet(heap[p].frag_list)
             /\ IsHeap(r.blk)
             /\ \A q \in Ptr : /\ r.blk[q].frag_list = heap[q].frag_list
                               /\ heap[q].flags \subseteq r.blk[q].flags
             /\ HasFragBlock(r.base) /\ r.base.frag_block = b.frag_block
<1> DEFINE r == ProcessAndWrite(heap, b, p, fault)
           h1 == [heap EXCEPT ![p] = Hashed(heap, p)]
           h2 == [heap EXCEPT ![p] = process_block(heap, p)]
<1>1. IsBlock(heap[p])
  BY DEF IsHeap
<1>2. /\ IsHeap(h1)
      /\ \A q \in Ptr : h1[q].frag_list = heap[q].frag_list /\ heap[q].flags \subseteq h1[q].flags
  BY <1>1, ProcessedIsLater, LaterHeap
<1>3. /\ IsHeap(h2)
      /\ \A q \in Ptr : h2[q].frag_list = heap[q].frag_list /\ heap[q].flags \subseteq h2[q].flags
  BY <1>1, ProcessedIsLater, LaterHeap
<1>4. r = Fail(h1, b, p) \/ r = Complete(h2, b, p, fault)
  BY Zenon DEF ProcessAndWrite
<1> HIDE DEF r, h1, h2
<1>5. ASSUME r = Fail(h1, b, p)
      PROVE  r.freed = {p} \cup ToSet(heap[p].frag_list) /\ r.blk = h1 /\ r.base = b
  BY <1>2, <1>5 DEF Fail
<1>6. ASSUME r = Complete(h2, b, p, fault)
      PROVE  /\ r.freed = {p} \cup ToSet(heap[p].frag_list) /\ r.blk = h2
             /\ HasFragBlock(r.base) /\ r.base.frag_block = b.frag_block
  <2>1. /\ r.blk = h2 /\ r.freed = release_old_block(h2, p)
        /\ r.base \in {b, unrecorded_block(h2, b, p),
                       process_completed_block(h2, b, p, Len(b.written))}
    BY <1>6, Zenon DEF Complete
  <2>2. release_old_block(h2, p) = {p} \cup ToSet(heap[p].frag_list)
    <3>1. CASE "FRAGMENT_BLOCK" \in heap[p].flags
      BY <1>3, <3>1 DEF release_old_block
    <3>2. CASE heap[p].frag_list = <<>>
      <4>1. ToSet(<<>>) = {}
        BY DEF ToSet
      <4> QED BY <1>3, <3>2, <4>1 DEF release_old_block
    <3> QED BY <3>1, <3>2
  <2>3. \A s \in {unrecorded_block(h2, b, p), process_completed_block(h2, b, p, Len(b.written))} :
          HasFragBlock(s) /\ s.frag_block = b.frag_block
    <3>1. \E x, y : unrecorded_block(h2, b, p) = [b EXCEPT !.inode = x, !.written = y]
      BY Zenon DEF unrecorded_block
    <3>2. \E u, v, w : process_completed_block(h2, b, p, Len(b.written))
                         = [b EXCEPT !.written = u, !.inode = v, !.frag_tbl = w]
      BY Zenon DEF process_completed_block
    <3>3. ASSUME NEW s, NEW x, NEW y, s = [b EXCEPT !.inode = x, !.written = y]
          PROVE  HasFragBlock(s) /\ s.frag_block = b.frag_block
      BY <3>3 DEF HasFragBlock
    <3>4. ASSUME NEW s, NEW u, NEW v, NEW w, s = [b EXCEPT !.written = u, !.inode = v, !.frag_tbl = w]
          PROVE  HasFragBlock(s) /\ s.frag_block = b.frag_block
      BY <3>4 DEF HasFragBlock
    <3> QED BY <3>1, <3>2, <3>3, <3>4
  <2> QED BY <2>1, <2>2, <2>3
<1> QED BY <1>2, <1>3, <1>4, <1>5, <1>6 DEF r

------------------------------------------------------------------------------
(* The blocks 1 .. n have been submitted: the open fragment block and its   *)
(* fragments are among them, it is marked as one, and the blocks to come    *)
(* have no fragments.                                                       *)
Consistent(heap, b, n) ==
  /\ IsHeap(heap)
  /\ HasFragBlock(b)
  /\ Held(heap, b) \subseteq 1 .. n
  /\ b.frag_block # NULL => "FRAGMENT_BLOCK" \in heap[b.frag_block].flags
  /\ \A q \in Ptr : q > n => heap[q].frag_list = <<>>

(* What process_completed_fragment does with the block p: unless it hands   *)
(* out a block, what was held and p are now held or released; if it does,   *)
(* that is the fragment block that was open, untouched, and p is the new    *)
(* one.                                                                     *)
Passes(heap, b, p, r) ==
  /\ Consistent(r.blk, r.base, p)
  /\ r.out = NULL => /\ r.freed \cup Held(r.blk, r.base) = Held(heap, b) \cup {p}
                     /\ r.freed \cap Held(r.blk, r.base) = {}
  /\ r.out # NULL => /\ r.out = b.frag_block
                     /\ r.freed = {}
                     /\ r.base.frag_block = p /\ r.blk[p].frag_list = <<>>
                     /\ r.blk[r.out].frag_list = heap[r.out].frag_list
                     /\ "FRAGMENT_BLOCK" \in r.blk[r.out].flags

(* The set of a list with a new head. *)
LEMMA HeadSet ==
  ASSUME NEW l \in Seq(Ptr), NEW p \in Ptr
  PROVE  ToSet(<<p>> \o l) = {p} \cup ToSet(l)
<1>1. ToSet(<<p>> \o l) \subseteq {p} \cup ToSet(l)
  BY DEF ToSet
<1>2. p \in ToSet(<<p>> \o l)
  <2>1. 1 \in DOMAIN (<<p>> \o l) /\ (<<p>> \o l)[1] = p
    OBVIOUS
  <2> QED BY <2>1 DEF ToSet
<1>3. ASSUME NEW i \in DOMAIN l
      PROVE  l[i] \in ToSet(<<p>> \o l)
  <2>1. i + 1 \in DOMAIN (<<p>> \o l) /\ (<<p>> \o l)[i + 1] = l[i]
    OBVIOUS
  <2> QED BY <2>1 DEF ToSet
<1> QED BY <1>1, <1>2, <1>3 DEF ToSet

(* A fragment that is full of zeros or already stored is released. *)
LEMMA DroppedPasses ==
  ASSUME NEW heap, NEW b, NEW n \in Nat, Consistent(heap, b, n), n + 1 \in Ptr,
         NEW r, r.blk = heap, r.out = NULL, r.freed = {n + 1},
         NEW v, r.base = [b EXCEPT !.inode = v]
  PROVE  Passes(heap, b, n + 1, r)
<1>1. HasFragBlock(r.base) /\ r.base.frag_block = b.frag_block
  BY DEF Consistent, HasFragBlock
<1>2. Held(r.blk, r.base) = Held(heap, b)
  BY <1>1 DEF Held
<1>3. Held(heap, b) \subseteq 1 .. n
  BY DEF Consistent
<1>4. n + 1 \notin Held(heap, b) /\ Held(heap, b) \subseteq 1 .. n + 1
  BY <1>3
<1>5. \A q \in Ptr : q > n + 1 => q > n
  BY DEF Ptr
<1>6. Consistent(r.blk, r.base, n + 1)
  BY <1>1, <1>2, <1>4, <1>5 DEF Consistent
<1> QED BY <1>2, <1>4, <1>6 DEF Passes

(* Where the fragment p = n + 1 is stored: it becomes the open fragment     *)
(* block or the first in its list.                                          *)
LEMMA WithFragmentHolds ==
  ASSUME NEW heap, NEW b, NEW n \in Nat, Consistent(heap, b, n), n + 1 \in Ptr,
         NEW c, HasFragBlock(c),
         c.frag_block = IF BecomesBlock(heap, b, n + 1) THEN n + 1 ELSE b.frag_block
  PROVE  LET new == WithFragment(heap, b, n + 1)
         IN  /\ Consistent(new, c, n + 1)
             /\ Held(new, c) = IF BecomesBlock(heap, b, n + 1) THEN {n + 1}
                               ELSE Held(heap, b) \cup {n + 1}
             /\ BecomesBlock(heap, b, n + 1) =>
                  new[n + 1].frag_list = <<>> /\ \A q \in Ptr \ {n + 1} : new[q] = heap[q]
<1> DEFINE p == n + 1
           new == WithFragment(heap, b, p)
           cur == b.frag_block
<1>1. IsHeap(heap) /\ HasFragBlock(b) /\ Held(heap, b) \subseteq 1 .. n
  BY DEF Consistent
<1>2. n + 1 \in Nat /\ n + 1 # NULL /\ \A q \in Ptr : q > n + 1 => q > n
  BY DEF Ptr, NULL
<1>3. CASE BecomesBlock(heap, b, p)
  <2>1. PICK i, f : new = [heap EXCEPT ![p].index = i, ![p].flags = f \cup {"FRAGMENT_BLOCK"},
                                       ![p].frag_list = <<>>]
    BY <1>3, Zenon DEF WithFragment
  <2> HIDE DEF new
  <2>2. /\ IsHeap(new)
        /\ new[p].frag_list = <<>>
        /\ "FRAGMENT_BLOCK" \in new[p].flags
        /\ \A q \in Ptr \ {p} : new[q] = heap[q]
    BY <1>1, <2>1 DEF IsHeap, IsBlock
  <2>3. Held(new, c) = {p}
    <3>1. ToSet(new[p].frag_list) = {}
      BY <2>2 DEF ToSet
    <3>2. c.frag_block = p /\ c.frag_block # NULL
      BY <1>2, <1>3
    <3> QED BY <3>1, <3>2 DEF Held
  <2>4. {p} \subseteq 1 .. p
    BY <1>2
  <2>5. \A q \in Ptr : q > p => q # p /\ heap[q].frag_list = <<>>
    BY <1>2 DEF Consistent, Ptr
  <2>6. Consistent(new, c, p)
    BY <1>3, <2>2, <2>3, <2>4, <2>5 DEF Consistent
  <2> QED BY <1>3, <2>2, <2>3, <2>6 DEF new
<1>4. CASE ~BecomesBlock(heap, b, p)
  <2>1. cur \in Ptr /\ cur # NULL /\ cur \in 1 .. n
    <3>1. cur \in Ptr /\ cur # NULL
      BY <1>1, <1>4 DEF BecomesBlock, HasFragBlock
    <3>2. cur \in Held(heap, b)
      BY <3>1 DEF Held
    <3> QED BY <1>1, <3>1, <3>2
  <2>2. PICK m : new = [heap EXCEPT ![cur].frag_list = <<p>> \o @, ![cur].size = m]
    BY <1>4, Zenon DEF WithFragment
  <2> HIDE DEF new
  <2>3. heap[cur].frag_list \in Seq(Ptr)
    BY <1>1, <2>1 DEF IsHeap, IsBlock
  <2>4. /\ IsHeap(new)
        /\ new[cur].frag_list = <<p>> \o heap[cur].frag_list
        /\ new[cur].flags = heap[cur].flags
        /\ \A q \in Ptr \ {cur} : new[q] = heap[q]
    <3>1. <<p>> \o heap[cur].frag_list \in Seq(Ptr)
      BY <2>3
    <3> QED BY <1>1, <2>1, <2>2, <3>1 DEF IsHeap, IsBlock
  <2>5. Held(new, c) = Held(heap, b) \cup {p}
    <3>1. ToSet(new[cur].frag_list) = {p} \cup ToSet(heap[cur].frag_list)
      BY <2>3, <2>4, HeadSet
    <3>2. c.frag_block = cur /\ cur # NULL
      BY <1>4, <2>1
    <3> QED BY <3>1, <3>2 DEF Held
  <2>6. Held(heap, b) \cup {p} \subseteq 1 .. p
    BY <1>1, <1>2
  <2>7. \A q \in Ptr : q > p => q # cur /\ heap[q].frag_list = <<>>
    BY <1>2, <2>1 DEF Consistent, Ptr
  <2>8. Consistent(new, c, p)
    BY <1>4, <2>1, <2>4, <2>5, <2>6, <2>7 DEF Consistent
  <2> QED BY <1>4, <2>5, <2>8 DEF new
<1> QED BY <1>3, <1>4

(* The open fragment block and its fragments are what release_old_block     *)
(* releases.                                                                *)
LEMMA HeldReleased ==
  ASSUME NEW heap, NEW b, NEW n, Consistent(heap, b, n), b.frag_block # NULL
  PROVE  release_old_block(heap, b.frag_block) = Held(heap, b)
BY DEF Consistent, release_old_block, Held

(* A fragment that is stored. *)
LEMMA StoredPasses ==
  ASSUME NEW heap, NEW b, NEW n \in Nat, Consistent(heap, b, n), n + 1 \in Ptr
  PROVE  Passes(heap, b, n + 1, StoredFragment(heap, b, n + 1))
<1> DEFINE p == n + 1
           r == StoredFragment(heap, b, p)
<1>1. /\ r.blk = WithFragment(heap, b, p)
      /\ r.freed = {}
      /\ r.out = IF Overflows(heap, b, p) THEN b.frag_block ELSE NULL
  BY Zenon DEF StoredFragment
<1>2. PICK u, v, w :
        r.base = [b EXCEPT !.frag_block = IF BecomesBlock(heap, b, p) THEN p ELSE @,
                           !.frag_tbl = u, !.frag_ht = v, !.inode = w]
  BY Zenon DEF StoredFragment
<1> HIDE DEF r
<1>3. /\ HasFragBlock(r.base)
      /\ r.base.frag_block = IF BecomesBlock(heap, b, p) THEN p ELSE b.frag_block
  BY <1>2 DEF HasFragBlock, Consistent
<1>4. /\ Consistent(r.blk, r.base, p)
      /\ Held(r.blk, r.base) = IF BecomesBlock(heap, b, p) THEN {p} ELSE Held(heap, b) \cup {p}
      /\ BecomesBlock(heap, b, p) =>
           r.blk[p].frag_list = <<>> /\ \A q \in Ptr \ {p} : r.blk[q] = heap[q]
  <2> DEFINE c == r.base
  <2>1. HasFragBlock(c) /\ c.frag_block = IF BecomesBlock(heap, b, p) THEN p ELSE b.frag_block
    BY <1>3
  <2> HIDE DEF c
  <2>2. /\ Consistent(WithFragment(heap, b, p), c, p)
        /\ Held(WithFragment(heap, b, p), c)
             = IF BecomesBlock(heap, b, p) THEN {p} ELSE Held(heap, b) \cup {p}
        /\ BecomesBlock(heap, b, p) =>
             /\ WithFragment(heap, b, p)[p].frag_list = <<>>
             /\ \A q \in Ptr \ {p} : WithFragment(heap, b, p)[q] = heap[q]
    BY <2>1, WithFragmentHolds, Zenon
  <2> QED BY <1>1, <2>2, Zenon DEF c
<1>5. ASSUME Overflows(heap, b, p) PROVE Passes(heap, b, p, r)
  <2>1. BecomesBlock(heap, b, p) /\ b.frag_block # NULL /\ r.out = b.frag_block
    BY <1>1, <1>5 DEF BecomesBlock, Overflows
  <2>2. b.frag_block \in Ptr /\ b.frag_block \in 1 .. n
    <3>1. b.frag_block \in Held(heap, b)
      BY <2>1 DEF Held
    <3> QED BY <2>1, <3>1 DEF Consistent, HasFragBlock
  <2>3. b.frag_block # p
    BY <2>2
  <2>4. r.blk[r.out] = heap[r.out] /\ "FRAGMENT_BLOCK" \in heap[r.out].flags
    BY <1>4, <2>1, <2>2, <2>3 DEF Consistent
  <2> QED BY <1>1, <1>3, <1>4, <2>1, <2>4 DEF Passes
<1>6. ASSUME ~Overflows(heap, b, p) PROVE Passes(heap, b, p, r)
  <2>1. r.out = NULL
    BY <1>1, <1>6
  <2>2. BecomesBlock(heap, b, p) => Held(heap, b) = {}
    BY <1>6 DEF BecomesBlock, Held
  <2> QED BY <1>1, <1>4, <2>1, <2>2 DEF Passes
<1> QED BY <1>5, <1>6 DEF r

(* A fragment that cannot be stored: the fragment block that it was to      *)
(* replace is released, whichever allocation failed.                        *)
LEMMA FailedPasses ==
  ASSUME NEW heap, NEW b, NEW n \in Nat, Consistent(heap, b, n), n + 1 \in Ptr,
         NEW fault \in FragmentFaults(heap, b, n + 1)
  PROVE  Passes(heap, b, n + 1, FailedFragment(heap, b, n + 1, fault))
<1> DEFINE p == n + 1
           r == FailedFragment(heap, b, p, fault)
           s == StoredFragment(heap, b, p)
           lost == LostOutBlock(heap, b, p)
<1>1. Held(heap, b) \subseteq 1 .. n /\ p \notin 1 .. n
  BY DEF Consistent
<1>2. lost = IF Overflows(heap, b, p) THEN Held(heap, b) ELSE {}
  BY HeldReleased DEF LostOutBlock, Overflows
<1>3. CASE fault = "table"
  <2>1. /\ r.blk = heap /\ r.out = NULL /\ r.freed = {p} \cup lost
        /\ r.base = [b EXCEPT !.frag_block = NULL]
    BY <1>3, Zenon DEF FailedFragment
  <2>2. BecomesBlock(heap, b, p)
    BY <1>3 DEF FragmentFaults
  <2>3. lost = Held(heap, b)
    BY <1>2, <2>2 DEF BecomesBlock, Held
  <2> HIDE DEF r, lost
  <2>4. HasFragBlock(r.base) /\ r.base.frag_block = NULL
    BY <2>1 DEF HasFragBlock, Consistent
  <2>5. Held(r.blk, r.base) = {}
    BY <2>4 DEF Held
  <2>6. \A q \in Ptr : q > p => heap[q].frag_list = <<>>
    BY DEF Consistent, Ptr
  <2>7. Consistent(r.blk, r.base, p)
    BY <2>1, <2>4, <2>5, <2>6 DEF Consistent
  <2> QED BY <2>1, <2>3, <2>5, <2>7 DEF Passes, r
<1>4. CASE fault # "table"
  <2>1. /\ r.blk = s.blk /\ r.out = NULL /\ r.freed = lost
        /\ r.base = [b EXCEPT !.frag_block = s.base.frag_block, !.frag_tbl = s.base.frag_tbl]
    BY <1>4, Zenon DEF FailedFragment
  <2>2. Passes(heap, b, p, s)
    BY StoredPasses
  <2>3. s.freed = {} /\ s.out = IF Overflows(heap, b, p) THEN b.frag_block ELSE NULL
    BY Zenon DEF StoredFragment
  <2> HIDE DEF r, s, lost
  <2>4. HasFragBlock(r.base) /\ r.base.frag_block = s.base.frag_block
    BY <2>1, <2>2 DEF HasFragBlock, Consistent, Passes
  <2>5. Held(r.blk, r.base) = Held(s.blk, s.base)
    BY <2>1, <2>4 DEF Held
  <2>6. Consistent(r.blk, r.base, p)
    BY <2>1, <2>2, <2>4, <2>5 DEF Consistent, Passes
  <2>7. CASE Overflows(heap, b, p)
    <3>1. s.out # NULL /\ s.base.frag_block = p /\ s.blk[p].frag_list = <<>>
      BY <2>2, <2>3, <2>7 DEF Passes, Overflows
    <3>2. p # NULL /\ ToSet(<<>>) = {}
      BY DEF NULL, ToSet
    <3>3. Held(s.blk, s.base) = {p}
      BY <3>1, <3>2 DEF Held
    <3> QED BY <1>1, <1>2, <2>1, <2>5, <2>6, <2>7, <3>3 DEF Passes, r
  <2>8. CASE ~Overflows(heap, b, p)
    <3>1. Held(s.blk, s.base) = Held(heap, b) \cup {p}
      BY <2>2, <2>3, <2>8 DEF Passes
    <3> QED BY <1>2, <2>1, <2>5, <2>6, <2>8, <3>1 DEF Passes, r
  <2> QED BY <2>7, <2>8
<1> QED BY <1>3, <1>4

(* Every way in which process_completed_fragment ends. *)
LEMMA PackedPasses ==
  ASSUME NEW heap, NEW b, NEW n \in Nat, Consistent(heap, b, n), n + 1 \in Ptr,
         NEW fault \in FragmentFaults(heap, b, n + 1) \cup {"none"}
  PROVE  Passes(heap, b, n + 1, process_completed_fragment(heap, b, n + 1, fault))
<1> DEFINE p == n + 1
<1>1. Passes(heap, b, p, SparseFragment(heap, b, p))
  <2> DEFINE r == SparseFragment(heap, b, p)
  <2>1. /\ r.blk = heap /\ r.out = NULL /\ r.freed = {p}
        /\ \E v : r.base = [b EXCEPT !.inode = v]
    BY Zenon DEF SparseFragment
  <2> HIDE DEF r
  <2> QED BY <2>1, DroppedPasses DEF r
<1>2. Passes(heap, b, p, DuplicateFragment(heap, b, p))
  <2> DEFINE r == DuplicateFragment(heap, b, p)
  <2>1. /\ r.blk = heap /\ r.out = NULL /\ r.freed = {p}
        /\ \E v : r.base = [b EXCEPT !.inode = v]
    BY Zenon DEF DuplicateFragment
  <2> HIDE DEF r
  <2> QED BY <2>1, DroppedPasses DEF r
<1>3. CASE fault = "none"
  <2>1. process_completed_fragment(heap, b, p, fault) \in
          {SparseFragment(heap, b, p), DuplicateFragment(heap, b, p), StoredFragment(heap, b, p)}
    BY <1>3, Zenon DEF process_completed_fragment
  <2> QED BY <1>1, <1>2, <2>1, StoredPasses
<1>4. CASE fault # "none"
  <2>1. process_completed_fragment(heap, b, p, fault) = FailedFragment(heap, b, p, fault)
    BY <1>4, Zenon DEF process_completed_fragment
  <2> QED BY <1>4, <2>1, FailedPasses
<1> QED BY <1>3, <1>4

------------------------------------------------------------------------------
(* Blocks that went through a stage hold what they held. *)
LEMMA LaterConsistent ==
  ASSUME NEW heap, NEW b, NEW n \in Nat, Consistent(heap, b, n),
         NEW new, IsHeap(new), NEW c, HasFragBlock(c), c.frag_block = b.frag_block,
         \A q \in Ptr : /\ new[q].frag_list = heap[q].frag_list
                        /\ heap[q].flags \subseteq new[q].flags
  PROVE  Consistent(new, c, n) /\ Held(new, c) = Held(heap, b)
<1>1. b.frag_block # NULL => b.frag_block \in Ptr
  BY DEF Consistent, HasFragBlock
<1>2. Held(new, c) = Held(heap, b)
  BY <1>1 DEF Held
<1> QED BY <1>1, <1>2 DEF Consistent

(* One more block counts as submitted. *)
LEMMA OneMore ==
  ASSUME NEW heap, NEW b, NEW n \in Nat, Consistent(heap, b, n)
  PROVE  Consistent(heap, b, n + 1)
<1>1. Held(heap, b) \subseteq 1 .. n + 1
  BY DEF Consistent
<1>2. \A q \in Ptr : q > n + 1 => q > n
  BY DEF Ptr
<1> QED BY <1>1, <1>2 DEF Consistent

(* What append_to_work_queue does: of the blocks that were held and the new *)
(* one, each is held or released.                                           *)
LEMMA AppendPasses ==
  ASSUME NEW n \in Nat, Consistent(blk, base, n), n + 1 \in Ptr, NEW fault
  PROVE  LET r == append_to_work_queue(n + 1, fault)
         IN  /\ Consistent(r.blk, r.base, n + 1)
             /\ r.freed \cup Held(r.blk, r.base) = Held(blk, base) \cup {n + 1}
             /\ r.freed \cap Held(r.blk, r.base) = {}
<1> DEFINE p == n + 1
           heap == [blk EXCEPT ![p] = process_block(blk, p)]
           given == IF fault \in FragmentFaults(heap, base, p) THEN fault ELSE "none"
           frag == process_completed_fragment(heap, base, p, given)
           rest == ProcessAndWrite(frag.blk, frag.base, frag.out, fault)
           r == append_to_work_queue(p, fault)
<1>1. /\ IsHeap(blk) /\ HasFragBlock(base) /\ Held(blk, base) \subseteq 1 .. n
      /\ blk[p].frag_list = <<>>
  BY DEF Consistent, Ptr
<1>2. ToSet(<<>>) = {} /\ p \notin 1 .. n /\ p # NULL
  BY DEF ToSet, NULL
<1>3. CASE "IS_FRAGMENT" \notin blk[p].flags
  <2> DEFINE w == ProcessAndWrite(blk, base, p, fault)
  <2>1. r = w
    BY <1>3, Zenon DEF append_to_work_queue
  <2>2. /\ w.freed = {p} \cup ToSet(blk[p].frag_list)
        /\ IsHeap(w.blk)
        /\ \A q \in Ptr : /\ w.blk[q].frag_list = blk[q].frag_list
                          /\ blk[q].flags \subseteq w.blk[q].flags
        /\ HasFragBlock(w.base) /\ w.base.frag_block = base.frag_block
    BY <1>1, WriteReleases
  <2> HIDE DEF w, r
  <2>3. Consistent(w.blk, w.base, n) /\ Held(w.blk, w.base) = Held(blk, base)
    BY <2>2, LaterConsistent
  <2>4. w.freed = {p}
    BY <1>1, <1>2, <2>2
  <2> QED BY <1>1, <1>2, <2>1, <2>3, <2>4, OneMore DEF r
<1>4. Consistent(heap, base, n) /\ Held(heap, base) = Held(blk, base)
  <2>1. Later(blk[p], process_block(blk, p))
    BY <1>1, ProcessedIsLater DEF IsHeap
  <2>2. /\ IsHeap(heap)
        /\ \A q \in Ptr : heap[q].frag_list = blk[q].frag_list /\ blk[q].flags \subseteq heap[q].flags
    BY <1>1, <2>1, LaterHeap
  <2> HIDE DEF heap
  <2> QED BY <1>1, <2>2, LaterConsistent
<1> HIDE DEF heap
<1>5. Passes(heap, base, p, frag)
  <2>1. given \in FragmentFaults(heap, base, p) \cup {"none"}
    OBVIOUS
  <2> HIDE DEF given
  <2> QED BY <1>4, <2>1, PackedPasses
<1>6. ASSUME "IS_FRAGMENT" \in blk[p].flags, frag.out = NULL
      PROVE  r.blk = frag.blk /\ r.base = frag.base /\ r.freed = frag.freed
  BY <1>6, Zenon DEF append_to_work_queue, heap
<1>7. ASSUME "IS_FRAGMENT" \in blk[p].flags, frag.out # NULL
      PROVE  r = [rest EXCEPT !.freed = @ \cup frag.freed]
  BY <1>7, Zenon DEF append_to_work_queue, heap
<1>8. {"blk", "base", "freed"} \subseteq DOMAIN rest
  BY DEF ProcessAndWrite, Fail, Complete
<1> HIDE DEF given, frag, r
<1>9. CASE "IS_FRAGMENT" \in blk[p].flags /\ frag.out = NULL
  BY <1>4, <1>5, <1>6, <1>9 DEF Passes, r
<1>10. CASE "IS_FRAGMENT" \in blk[p].flags /\ frag.out # NULL
  <2>1. /\ Consistent(frag.blk, frag.base, p)
        /\ frag.out = base.frag_block /\ frag.freed = {}
        /\ frag.base.frag_block = p /\ frag.blk[p].frag_list = <<>>
        /\ frag.blk[frag.out].frag_list = heap[frag.out].frag_list
        /\ "FRAGMENT_BLOCK" \in frag.blk[frag.out].flags
    BY <1>5, <1>10 DEF Passes
  <2>2. frag.out \in Ptr
    BY <1>1, <1>10, <2>1 DEF HasFragBlock
  <2>3. /\ rest.freed = {frag.out} \cup ToSet(frag.blk[frag.out].frag_list)
        /\ IsHeap(rest.blk)
        /\ \A q \in Ptr : /\ rest.blk[q].frag_list = frag.blk[q].frag_list
                          /\ frag.blk[q].flags \subseteq rest.blk[q].flags
        /\ HasFragBlock(rest.base) /\ rest.base.frag_block = frag.base.frag_block
    BY <2>1, <2>2, WriteReleases DEF Consistent
  <2> HIDE DEF rest
  <2>4. r.blk = rest.blk /\ r.base = rest.base /\ r.freed = rest.freed
    BY <1>7, <1>8, <1>10, <2>1
  <2>5. p \in Nat
    OBVIOUS
  <2>6. Consistent(rest.blk, rest.base, p) /\ Held(rest.blk, rest.base) = Held(frag.blk, frag.base)
    BY <2>1, <2>3, <2>5, LaterConsistent
  <2>7. Held(frag.blk, frag.base) = {p}
    BY <1>2, <2>1 DEF Held
  <2>8. rest.freed = Held(heap, base)
    BY <1>10, <2>1, <2>3 DEF Held
  <2> QED BY <1>1, <1>2, <1>4, <2>4, <2>6, <2>7, <2>8 DEF r
<1> QED BY <1>3, <1>9, <1>10

------------------------------------------------------------------------------
(* The inductive invariant: HeldOrFreed, that nothing is held or released   *)
(* before it was submitted, and that the open fragment block can be         *)
(* recognised by its flag, without which release_old_block would leave its  *)
(* fragments behind.                                                        *)
IInv ==
  /\ next \in 0 .. NBlocks
  /\ Consistent(blk, base, next)
  /\ free_list = (1 .. next) \ Held(blk, base)

(* A new processor holds nothing. *)
LEMMA InitHolds == SerialAssumption /\ Init => IInv
<1> SUFFICES ASSUME SerialAssumption, Init PROVE IInv
  OBVIOUS
<1>1. blk \in [Ptr -> Block] /\ \A p \in Ptr : blk[p].frag_list = <<>>
  BY DEF SerialAssumption, Init
<1>2. IsHeap(blk)
  BY <1>1 DEF IsHeap, IsBlock, Block
<1>3. base.frag_block = NULL /\ "frag_block" \in DOMAIN base
  BY DEF Init, NewBase
<1>4. HasFragBlock(base) /\ Held(blk, base) = {}
  BY <1>3 DEF HasFragBlock, Held
<1>5. next = 0 /\ free_list = {} /\ NBlocks \in Nat
  BY BlockProcessorAssumption DEF Init
<1> QED BY <1>1, <1>2, <1>3, <1>4, <1>5 DEF IInv, Consistent

(* Submitting a block. *)
LEMMA SubmitHolds ==
  ASSUME IInv, NEW fault, Submit(fault)
  PROVE  IInv'
<1> DEFINE r == append_to_work_queue(next + 1, fault)
<1>1. next \in Nat /\ next < NBlocks /\ NBlocks \in Nat /\ next + 1 \in Ptr
  BY BlockProcessorAssumption DEF IInv, Submit, Ptr
<1>2. /\ Consistent(r.blk, r.base, next + 1)
      /\ r.freed \cup Held(r.blk, r.base) = Held(blk, base) \cup {next + 1}
      /\ r.freed \cap Held(r.blk, r.base) = {}
  BY <1>1, AppendPasses DEF IInv
<1>3. /\ next' = next + 1 /\ blk' = r.blk /\ base' = r.base
      /\ free_list' = free_list \cup r.freed
  BY DEF Submit
<1> HIDE DEF r
<1>4. free_list' = (1 .. next + 1) \ Held(r.blk, r.base)
  <2>1. free_list = (1 .. next) \ Held(blk, base) /\ Held(blk, base) \subseteq 1 .. next
    BY DEF IInv, Consistent
  <2>2. 1 .. next + 1 = (1 .. next) \cup {next + 1} /\ next + 1 \notin 1 .. next
    BY <1>1
  <2> QED BY <1>2, <1>3, <2>1, <2>2
<1>5. Consistent(blk', base', next') /\ Held(blk', base') = Held(r.blk, r.base)
  BY <1>2, <1>3
<1>6. next' \in 0 .. NBlocks
  BY <1>1, <1>3
<1> QED BY <1>3, <1>4, <1>5, <1>6 DEF IInv

(* Submitting a block after an error. *)
LEMMA AfterErrorHolds ==
  ASSUME IInv, SubmitAfterError
  PROVE  IInv'
<1>1. next \in Nat /\ next < NBlocks /\ NBlocks \in Nat
  BY BlockProcessorAssumption DEF IInv, SubmitAfterError
<1>2. /\ next' = next + 1 /\ blk' = blk /\ base' = base
      /\ free_list' = free_list \cup {next + 1}
  BY DEF SubmitAfterError
<1>3. Consistent(blk, base, next + 1)
  BY <1>1, OneMore DEF IInv
<1>4. free_list' = (1 .. next + 1) \ Held(blk, base)
  <2>1. free_list = (1 .. next) \ Held(blk, base) /\ Held(blk, base) \subseteq 1 .. next
    BY DEF IInv, Consistent
  <2>2. 1 .. next + 1 = (1 .. next) \cup {next + 1} /\ next + 1 \notin 1 .. next
    BY <1>1
  <2> QED BY <1>2, <2>1, <2>2
<1>5. Consistent(blk', base', next') /\ Held(blk', base') = Held(blk, base)
  BY <1>2, <1>3
<1>6. next' \in 0 .. NBlocks
  BY <1>1, <1>2
<1> QED BY <1>2, <1>4, <1>5, <1>6 DEF IInv

(* Flushing the open fragment block. *)
LEMMA FinishHolds ==
  ASSUME IInv, NEW fault, Finish(fault)
  PROVE  IInv'
<1> DEFINE p == base.frag_block
           heap == [blk EXCEPT ![p].flags = @ \cup {"MANUAL_SUBMISSION"}]
           b == [base EXCEPT !.frag_block = NULL]
           r == ProcessAndWrite(heap, b, p, fault)
<1>1. next \in Nat /\ Consistent(blk, base, next)
  BY BlockProcessorAssumption DEF IInv
<1>2. p \in Ptr /\ p # NULL
  BY <1>1 DEF Finish, Consistent, HasFragBlock
<1>3. /\ IsHeap(heap)
      /\ \A q \in Ptr : heap[q].frag_list = blk[q].frag_list /\ blk[q].flags \subseteq heap[q].flags
  BY <1>1, <1>2 DEF Consistent, IsHeap, IsBlock
<1>4. HasFragBlock(b) /\ b.frag_block = NULL
  BY <1>1 DEF Consistent, HasFragBlock
<1>5. "FRAGMENT_BLOCK" \in heap[p].flags
  BY <1>1, <1>2, <1>3 DEF Consistent
<1>6. /\ UNCHANGED next /\ blk' = r.blk /\ base' = r.base
      /\ free_list' = free_list \cup r.freed
  BY DEF Finish
<1> HIDE DEF heap, b
<1>7. /\ r.freed = {p} \cup ToSet(heap[p].frag_list)
      /\ IsHeap(r.blk)
      /\ \A q \in Ptr : /\ r.blk[q].frag_list = heap[q].frag_list
                        /\ heap[q].flags \subseteq r.blk[q].flags
      /\ HasFragBlock(r.base) /\ r.base.frag_block = b.frag_block
  BY <1>2, <1>3, <1>4, <1>5, WriteReleases
<1> HIDE DEF r
<1>8. r.freed = Held(blk, base) /\ Held(r.blk, r.base) = {}
  BY <1>2, <1>3, <1>4, <1>7 DEF Held
<1>9. Consistent(r.blk, r.base, next)
  BY <1>1, <1>3, <1>4, <1>7, <1>8 DEF Consistent
<1>10. free_list' = (1 .. next) \ {}
  BY <1>1, <1>6, <1>8 DEF IInv, Consistent
<1>11. Consistent(blk', base', next') /\ Held(blk', base') = {}
  BY <1>6, <1>8, <1>9
<1> QED BY <1>6, <1>10, <1>11 DEF IInv

(* Every block that append_to_work_queue was given is released or held by   *)
(* the open fragment block, never both and never neither, for any blocks,   *)
(* block size and failures: neither an error of the compressor, the writer, *)
(* the fragment table or the hash table nor a full fragment block leaks a   *)
(* block or leaves one behind that was freed.                               *)
THEOREM BlocksHeldOrFreed ==
  ASSUME SerialAssumption
  PROVE  Spec => []HeldOrFreed
<1>1. Init => IInv
  BY InitHolds
<1>2. IInv /\ [Next]_vars => IInv'
  <2> SUFFICES ASSUME IInv, [Next]_vars PROVE IInv'
    OBVIOUS
  <2>1. ASSUME NEW fault, Submit(fault) PROVE IInv'
    BY <2>1, SubmitHolds
  <2>2. CASE SubmitAfterError
    BY <2>2, AfterErrorHolds
  <2>3. ASSUME NEW fault, Finish(fault) PROVE IInv'
    BY <2>3, FinishHolds
  <2>4. CASE UNCHANGED vars
    BY <2>4 DEF vars, IInv, Consistent, Held
  <2> QED BY <2>1, <2>2, <2>3, <2>4 DEF Next
<1>3. IInv => HeldOrFreed
  <2>1. Open = Held(blk, base)
    BY DEF Open, Held
  <2> QED BY <2>1 DEF IInv, HeldOrFreed
<1> QED BY <1>1, <1>2, <1>3, PTL DEF Spec
===============================================================================
