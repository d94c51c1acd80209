------------------------- MODULE BlockProcessor_proofs -------------------------
(* What the operators of BlockProcessor return: the facts that the proofs    *)
(* about the implementations of the block processor rest on, after a few     *)
(* facts about sequences and sets of numbers.                                *)
EXTENDS BlockProcessor, SequencesExt, WellFoundedInduction, TLAPS

(* A set of natural numbers has a smallest element. *)
LEMMA MinExists ==
  ASSUME NEW S, S \subseteq Nat, S # {}
  PROVE  \E x \in S : \A y \in S : x <= y
<1> DEFINE R == {ss \in Nat \X Nat : ss[1] < ss[2]}
<1>1. IsWellFoundedOn(R, Nat)
  BY NatLessThanWellFounded, Zenon DEF OpToRel
<1>2. PICK x \in S : \A y \in S : ~(<<y, x>> \in R)
  <2> HIDE DEF R
  <2> QED BY <1>1, WFMin
<1>3. \A y \in S : ~(y < x)
  BY <1>2
<1> QED BY <1>3

(* The smallest element of a set of positions is one of them. *)
LEMMA FirstIn ==
  ASSUME NEW n \in Nat, NEW S, S \subseteq 1 .. n, S # {}
  PROVE  (CHOOSE k \in S : \A l \in S : k <= l) \in 1 .. n
<1>1. S \subseteq Nat
  OBVIOUS
<1>2. \E k \in S : \A l \in S : k <= l
  BY <1>1, MinExists
<1> QED BY <1>2

(* Concatenation keeps the element type and adds the lengths. *)
LEMMA ConcatType ==
  ASSUME NEW S, NEW s \in Seq(S), NEW t \in Seq(S)
  PROVE  s \o t \in Seq(S) /\ Len(s \o t) = Len(s) + Len(t)
OBVIOUS

(* Inserting an element makes a sequence one longer. *)
LEMMA InsertAtType ==
  ASSUME NEW S, NEW list \in Seq(S), NEW at \in 1 .. Len(list) + 1, NEW p \in S
  PROVE  /\ InsertAt(list, at, p) \in Seq(S)
         /\ Len(InsertAt(list, at, p)) = Len(list) + 1
<1> DEFINE front == SubSeq(list, 1, at - 1)
           back  == SubSeq(list, at, Len(list))
           fp    == front \o <<p>>
<1>1. InsertAt(list, at, p) = fp \o back
  BY Zenon DEF InsertAt
<1>2. /\ front \in Seq(S) /\ Len(front) = at - 1
      /\ back \in Seq(S) /\ Len(back) = Len(list) - at + 1
      /\ Len(list) \in Nat
  OBVIOUS
<1>3. <<p>> \in Seq(S) /\ Len(<<p>>) = 1
  OBVIOUS
<1> HIDE DEF front, back
<1>4. fp \in Seq(S) /\ Len(fp) = at
  BY <1>2, <1>3, ConcatType
<1> HIDE DEF fp
<1>5. fp \o back \in Seq(S) /\ Len(fp \o back) = Len(fp) + Len(back)
  BY <1>2, <1>4, ConcatType
<1> QED BY <1>1, <1>2, <1>4, <1>5

--------------------------------------------------------------------------------

(* The field of a block that the queues depend on. *)
HasList(b) == "frag_list" \in DOMAIN b /\ b.frag_list \in Seq(Ptr)

ListsOK(heap) == DOMAIN heap = Ptr /\ \A p \in Ptr : HasList(heap[p])

(* Processing a block leaves its list of fragments alone. *)
LEMMA ProcessKeepsList ==
  ASSUME NEW heap, NEW p, HasList(heap[p])
  PROVE  HasList(process_block(heap, p)) /\ HasList(Hashed(heap, p))
<1> DEFINE c == Consolidated(heap, p)
<1>1. HasList(c)
  <2>1. \/ c = heap[p]
        \/ \E u, v : c = [heap[p] EXCEPT !.data = u, !.flags = v]
    BY Zenon DEF Consolidated
  <2>2. \A u, v : HasList([heap[p] EXCEPT !.data = u, !.flags = v])
    BY DEF HasList
  <2> HIDE DEF c
  <2>3. CASE c = heap[p]
    BY <2>3
  <2>4. ASSUME NEW u, NEW v, c = [heap[p] EXCEPT !.data = u, !.flags = v]
        PROVE  HasList(c)
    BY <2>2, <2>4
  <2> QED BY <2>1, <2>3, <2>4
<1>2. HasList(Hashed(heap, p))
  <2> HIDE DEF c
  <2>1. \A v : HasList([c EXCEPT !.checksum = v])
    BY <1>1 DEF HasList
  <2> QED BY <2>1 DEF Hashed, c
<1>3. HasList(process_block(heap, p))
  <2> DEFINE h == Hashed(heap, p)
  <2> HIDE DEF c, h
  <2>1. \A u, v, w : HasList([h EXCEPT !.data = u, !.size = v, !.flags = w])
    BY <1>2 DEF HasList, h
  <2>2. \A w : HasList([c EXCEPT !.flags = w])
    BY <1>1 DEF HasList
  <2>3. \/ process_block(heap, p) = heap[p]
        \/ \E w : process_block(heap, p) = [c EXCEPT !.flags = w]
        \/ \E u, v, w : process_block(heap, p) = [h EXCEPT !.data = u, !.size = v, !.flags = w]
        \/ process_block(heap, p) = h
    BY Zenon DEF process_block, c, h
  <2> DEFINE b == process_block(heap, p)
  <2> HIDE DEF b
  <2>4. ASSUME b = heap[p] PROVE HasList(b)
    BY <2>4
  <2>5. ASSUME NEW w, b = [c EXCEPT !.flags = w] PROVE HasList(b)
    BY <2>2, <2>5
  <2>6. ASSUME NEW u, NEW v, NEW w, b = [h EXCEPT !.data = u, !.size = v, !.flags = w]
        PROVE  HasList(b)
    BY <2>1, <2>6
  <2>7. ASSUME b = h PROVE HasList(b)
    BY <2>7, <1>2 DEF h
  <2> QED BY <2>3, <2>4, <2>5, <2>6, <2>7 DEF b
<1> QED BY <1>2, <1>3

(* What a completed block changes: not the current fragment block. *)
HasFragBlock(b) == "frag_block" \in DOMAIN b /\ b.frag_block \in Ptr \cup {NULL}

(* Completing a block does not touch the current fragment block. *)
LEMMA CompletedBlock ==
  ASSUME NEW heap, NEW b, NEW p, NEW loc, HasFragBlock(b)
  PROVE  /\ HasFragBlock(process_completed_block(heap, b, p, loc))
         /\ HasFragBlock(unrecorded_block(heap, b, p))
<1> DEFINE r == process_completed_block(heap, b, p, loc)
           s == unrecorded_block(heap, b, p)
<1>1. PICK u, v, w : r = [b EXCEPT !.written = u, !.inode = v, !.frag_tbl = w]
  BY Zenon DEF process_completed_block
<1>2. PICK x, y : s = [b EXCEPT !.inode = x, !.written = y]
  BY Zenon DEF unrecorded_block
<1> HIDE DEF r, s
<1>3. HasFragBlock(r)
  BY <1>1 DEF HasFragBlock
<1>4. HasFragBlock(s)
  BY <1>2 DEF HasFragBlock
<1> QED BY <1>3, <1>4 DEF r, s

(* A released block and its fragments are blocks. *)
LEMMA ReleasedType ==
  ASSUME NEW heap, ListsOK(heap), NEW p \in Ptr
  PROVE  release_old_block(heap, p) \subseteq Ptr
<1>1. ToSet(heap[p].frag_list) \subseteq Ptr
  BY DEF ListsOK, HasList, ToSet
<1> QED BY <1>1 DEF release_old_block

(* What packing a fragment results in. *)
PackedOK(r) ==
  /\ ListsOK(r.blk)
  /\ HasFragBlock(r.base)
  /\ r.freed \subseteq Ptr
  /\ r.out \in Ptr \cup {NULL}

(* Packing a fragment extends the list of the open block by a block. *)
LEMMA WithFragmentType ==
  ASSUME NEW heap, ListsOK(heap), NEW b, HasFragBlock(b), NEW p \in Ptr
  PROVE  ListsOK(WithFragment(heap, b, p))
<1>1. ASSUME NEW i, NEW f
      PROVE  ListsOK([heap EXCEPT ![p].index = i, ![p].flags = f, ![p].frag_list = <<>>])
  BY DEF ListsOK, HasList
<1>2. ASSUME NEW q \in Ptr, NEW n
      PROVE  ListsOK([heap EXCEPT ![q].frag_list = <<p>> \o @, ![q].size = n])
  BY DEF ListsOK, HasList
<1>3. CASE BecomesBlock(heap, b, p)
  BY <1>1, <1>3 DEF WithFragment
<1>4. CASE ~BecomesBlock(heap, b, p)
  <2>1. b.frag_block \in Ptr
    BY <1>4 DEF BecomesBlock, HasFragBlock, NULL
  <2> QED BY <1>2, <1>4, <2>1 DEF WithFragment
<1> QED BY <1>3, <1>4

(* Storing a fragment keeps the types. *)
LEMMA StoredType ==
  ASSUME NEW heap, ListsOK(heap), NEW b, HasFragBlock(b), NEW p \in Ptr
  PROVE  PackedOK(StoredFragment(heap, b, p))
<1> DEFINE r == StoredFragment(heap, b, p)
<1>1. /\ r.blk = WithFragment(heap, b, p)
      /\ r.freed = {}
      /\ r.out = IF Overflows(heap, b, p) THEN b.frag_block ELSE NULL
  BY Zenon DEF StoredFragment
<1>2. PICK u, v, w :
        r.base = [b EXCEPT !.frag_block = IF BecomesBlock(heap, b, p) THEN p ELSE @,
                           !.frag_tbl = u, !.frag_ht = v, !.inode = w]
  BY Zenon DEF StoredFragment
<1> HIDE DEF r
<1>3. HasFragBlock(r.base)
  BY <1>2 DEF HasFragBlock
<1>4. r.out \in Ptr \cup {NULL}
  BY <1>1 DEF HasFragBlock
<1> QED BY <1>1, <1>3, <1>4, WithFragmentType DEF PackedOK, r

(* So does a failure half way through. *)
LEMMA FailedType ==
  ASSUME NEW heap, ListsOK(heap), NEW b, HasFragBlock(b), NEW p \in Ptr, NEW fault
  PROVE  PackedOK(FailedFragment(heap, b, p, fault))
<1> DEFINE r == FailedFragment(heap, b, p, fault)
           s == StoredFragment(heap, b, p)
           lost == LostOutBlock(heap, b, p)
<1>1. lost \subseteq Ptr
  <2>1. CASE Overflows(heap, b, p)
    <3>1. b.frag_block \in Ptr
      BY <2>1 DEF Overflows, HasFragBlock
    <3> QED BY <2>1, <3>1, ReleasedType DEF LostOutBlock
  <2>2. CASE ~Overflows(heap, b, p)
    BY <2>2 DEF LostOutBlock
  <2> QED BY <2>1, <2>2
<1>2. PackedOK(s)
  BY StoredType
<1>3. CASE fault = "table"
  <2>1. /\ r.blk = heap /\ r.out = NULL /\ r.freed = {p} \cup lost
        /\ r.base = [b EXCEPT !.frag_block = NULL]
    BY <1>3, Zenon DEF FailedFragment
  <2> HIDE DEF r, lost
  <2>2. HasFragBlock(r.base)
    BY <2>1 DEF HasFragBlock
  <2> QED BY <1>1, <2>1, <2>2 DEF PackedOK, r
<1>4. CASE fault # "table"
  <2>1. /\ r.blk = s.blk /\ r.out = NULL /\ r.freed = lost
        /\ r.base = [b EXCEPT !.frag_block = s.base.frag_block, !.frag_tbl = s.base.frag_tbl]
    BY <1>4, Zenon DEF FailedFragment
  <2> HIDE DEF r, s, lost
  <2>2. HasFragBlock(r.base)
    BY <1>2, <2>1 DEF HasFragBlock, PackedOK
  <2> QED BY <1>1, <1>2, <2>1, <2>2 DEF PackedOK, r
<1> QED BY <1>3, <1>4

(* Packing a fragment hands out the current fragment block or nothing, and   *)
(* keeps the types.                                                          *)
LEMMA PackedType ==
  ASSUME NEW heap, ListsOK(heap), NEW b, HasFragBlock(b), NEW p \in Ptr, NEW fault
  PROVE  PackedOK(process_completed_fragment(heap, b, p, fault))
<1>1. ASSUME NEW r, r.blk = heap, r.out = NULL, r.freed = {p},
             NEW v, r.base = [b EXCEPT !.inode = v]
      PROVE  PackedOK(r)
  BY <1>1 DEF PackedOK, HasFragBlock
<1>2. PackedOK(SparseFragment(heap, b, p))
  <2> DEFINE r == SparseFragment(heap, b, p)
  <2>1. /\ r.blk = heap /\ r.out = NULL /\ r.freed = {p}
        /\ \E v : r.base = [b EXCEPT !.inode = v]
    BY Zenon DEF SparseFragment
  <2> HIDE DEF r
  <2> QED BY <1>1, <2>1 DEF r
<1>3. PackedOK(DuplicateFragment(heap, b, p))
  <2> DEFINE r == DuplicateFragment(heap, b, p)
  <2>1. /\ r.blk = heap /\ r.out = NULL /\ r.freed = {p}
        /\ \E v : r.base = [b EXCEPT !.inode = v]
    BY Zenon DEF DuplicateFragment
  <2> HIDE DEF r
  <2> QED BY <1>1, <2>1 DEF r
<1>4. process_completed_fragment(heap, b, p, fault) \in
        {FailedFragment(heap, b, p, fault), SparseFragment(heap, b, p),
         DuplicateFragment(heap, b, p), StoredFragment(heap, b, p)}
  BY Zenon DEF process_completed_fragment
<1> QED BY <1>2, <1>3, <1>4, FailedType, StoredType
===============================================================================
