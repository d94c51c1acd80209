----------------------------- MODULE Containers -----------------------------
(***************************************************************************)
(* The two lookup structures of libutil: the open-addressing hash table    *)
(* (lib/util/hash_table.c), in which the block processor finds a fragment  *)
(* it has already stored, and the left-leaning red-black tree              *)
(* (lib/util/rbtree.c), in which the tar tools find the node that an inode *)
(* number was seen at first.  Nothing is ever removed from either one, so  *)
(* the deleted marker of the hash table does not occur.                    *)
(***************************************************************************)
EXTENDS Integers, Sequences, FiniteSets, FiniteSetsExt, SequencesExt

CONSTANTS
    Keys,       \* records [hash, id]: keys with one hash may differ
    Numbers,    \* the keys of the tree
    MaxInserts, \* bound: insertions into either structure
    MaxFails    \* bound: failing allocations of a larger table

VARIABLES
    ht,         \* the hash table
    want,       \* what each key was stored with, <<>> if it never was
    full,       \* an insertion was refused while a slot was free
    tree,       \* the root of the tree
    numbers,    \* what was inserted into the tree
    inserts,
    fails

vars == <<ht, want, full, tree, numbers, inserts, fails>>

-----------------------------------------------------------------------------
(* The hash table. *)

\* A table without primes: the second hash need not visit every slot.
EvenSizes == <<[max_entries |-> 2, size |-> 4, rehash |-> 3],
               [max_entries |-> 4, size |-> 6, rehash |-> 5],
               [max_entries |-> 8, size |-> 12, rehash |-> 11]>>

\* The first rows of the table of sizes: each is a prime and the prime two
\* below it.
hash_sizes == <<[max_entries |-> 2, size |-> 5, rehash |-> 3],
                [max_entries |-> 4, size |-> 7, rehash |-> 5],
                [max_entries |-> 8, size |-> 13, rehash |-> 11]>>

Free == [hash |-> -1, key |-> [hash |-> -1, id |-> -1], data |-> -1]

hash_table_init ==
    [size_index |-> 1, entries |-> 0,
     table |-> [a \in 0 .. hash_sizes[1].size - 1 |-> Free]]

\* The slots a hash leads to, in the order of the probes: the loop ends where
\* it comes back to its start.
Address(h, hash, i) ==
    LET row == hash_sizes[h.size_index]
    IN  ((hash % row.size) + i * (1 + (hash % row.rehash))) % row.size

Probes(h, hash) ==
    LET n == Min({i \in 1 .. hash_sizes[h.size_index].size :
                     Address(h, hash, i) = Address(h, hash, 0)})
    IN  [i \in 1 .. n |-> Address(h, hash, i - 1)]

Holds(entry, hash, key) == entry # Free /\ entry.hash = hash /\ entry.key = key

\* The first probed slot that is free or holds the key; -1 when there is none.
StopAt(h, hash, key) ==
    LET p == Probes(h, hash)
        stops == {i \in DOMAIN p : \/ h.table[p[i]] = Free
                                   \/ Holds(h.table[p[i]], hash, key)}
    IN  IF stops = {} THEN -1 ELSE p[Min(stops)]

hash_table_search(h, hash, key) ==
    LET a == StopAt(h, hash, key)
    IN  IF a = -1 \/ h.table[a] = Free THEN <<>> ELSE <<h.table[a].data>>

\* Moving one entry to a larger table: the first free slot takes it.
hash_table_insert_rehash(h, entry) ==
    LET p == Probes(h, entry.hash)
        i == Min({j \in DOMAIN p : h.table[p[j]] = Free})
    IN  [h EXCEPT !.table[p[i]] = entry]

\* Growing without moving what is there.
RehashDrops(h, new_size_index, failed) ==
    IF failed \/ new_size_index > Len(hash_sizes) THEN h
    ELSE [h EXCEPT !.size_index = new_size_index,
                   !.table = [a \in 0 .. hash_sizes[new_size_index].size - 1 |->
                                 IF a \in DOMAIN @ THEN @[a] ELSE Free]]

\* The next size, or the old table where the sizes end or memory does.
hash_table_rehash(h, new_size_index, failed) ==
    LET old == SelectSeq([a \in 1 .. Cardinality(DOMAIN h.table) |->
                             h.table[a - 1]],
                         LAMBDA e : e # Free)
        new == [size_index |-> new_size_index, entries |-> h.entries,
                table |-> [a \in 0 .. hash_sizes[new_size_index].size - 1 |->
                              Free]]
    IN  IF failed \/ new_size_index > Len(hash_sizes)
        THEN h
        ELSE FoldLeft(hash_table_insert_rehash, new, old)

\* The table after an insertion: grown first where it is due, then the value
\* of the key replaced or the first free slot taken.  Without one, nothing.
hash_table_insert(h, key, data, failed) ==
    LET g == IF h.entries >= hash_sizes[h.size_index].max_entries
             THEN hash_table_rehash(h, h.size_index + 1, failed)
             ELSE h
        a == StopAt(g, key.hash, key)
        entry == [hash |-> key.hash, key |-> key, data |-> data]
    IN  IF a = -1 THEN [ht |-> g, stored |-> FALSE]
        ELSE [ht |-> [g EXCEPT !.table[a] = entry,
                               !.entries = @ + (IF g.table[a] = Free
                                                THEN 1 ELSE 0)],
              stored |-> TRUE]

\* hash_table_foreach: what the owner frees, slot by slot.
hash_table_next_entry(h) ==
    SelectSeq([a \in 1 .. hash_sizes[h.size_index].size |-> h.table[a - 1]],
              LAMBDA e : e # Free)

-----------------------------------------------------------------------------
(* The tree: <<>>, or a record with two subtrees. *)

Red(n) == n # <<>> /\ n[1].is_red

Node(key, is_red, left, right) ==
    <<[key |-> key, is_red |-> is_red, left |-> left, right |-> right]>>

mknode(key) == Node(key, TRUE, <<>>, <<>>)

Painted(n, is_red) == <<[n[1] EXCEPT !.is_red = is_red]>>

flip_colors(n) ==
    Node(n[1].key, ~n[1].is_red, Painted(n[1].left, ~n[1].left[1].is_red),
         Painted(n[1].right, ~n[1].right[1].is_red))

rotate_right(n) ==
    LET x == n[1].left[1]
    IN  Node(x.key, n[1].is_red, x.left,
             Node(n[1].key, TRUE, x.right, n[1].right))

rotate_left(n) ==
    LET x == n[1].right[1]
    IN  Node(x.key, n[1].is_red,
             Node(n[1].key, TRUE, n[1].left, x.left), x.right)

\* Balancing that tests the children it started with after the first turn.
BalanceStale(n) ==
    LET a == IF Red(n[1].right) /\ ~Red(n[1].left) THEN rotate_left(n) ELSE n
        b == IF Red(n[1].left) /\ Red(n[1].left[1].left)
             THEN rotate_right(a) ELSE a
    IN  IF Red(n[1].left) /\ Red(n[1].right) THEN flip_colors(b) ELSE b

subtree_balance(n) ==
    LET a == IF Red(n[1].right) /\ ~Red(n[1].left) THEN rotate_left(n) ELSE n
        b == IF Red(a[1].left) /\ Red(a[1].left[1].left)
             THEN rotate_right(a) ELSE a
    IN  IF Red(b[1].left) /\ Red(b[1].right) THEN flip_colors(b) ELSE b

RECURSIVE subtree_insert(_, _)
subtree_insert(root, key) ==
    IF root = <<>> THEN mknode(key)
    ELSE subtree_balance(
             IF key < root[1].key
             THEN <<[root[1] EXCEPT !.left = subtree_insert(@, key)]>>
             ELSE <<[root[1] EXCEPT !.right = subtree_insert(@, key)]>>)

rbtree_insert(root, key) == Painted(subtree_insert(root, key), FALSE)

RECURSIVE rbtree_lookup(_, _)
rbtree_lookup(node, key) ==
    IF node = <<>> \/ node[1].key = key THEN node
    ELSE rbtree_lookup(IF key < node[1].key THEN node[1].left
                       ELSE node[1].right, key)

-----------------------------------------------------------------------------

Init == /\ ht = hash_table_init
        /\ want = [k \in Keys |-> <<>>]
        /\ full = FALSE
        /\ tree = <<>>
        /\ numbers = {}
        /\ inserts = 0
        /\ fails = 0

\* Storing under a key, the allocation of a larger table failing or not; a
\* key stored again gets another value.
InsertPreHashed ==
    /\ inserts < MaxInserts
    /\ numbers = {}
    /\ \E key \in Keys, failed \in BOOLEAN :
          /\ failed => /\ fails < MaxFails
                       /\ ht.entries >= hash_sizes[ht.size_index].max_entries
          /\ LET data == IF want[key] = <<>> THEN 1 ELSE 2
                 r == hash_table_insert(ht, key, data, failed)
             IN  /\ ht' = r.ht
                 /\ want' = [want EXCEPT ![key] =
                                IF r.stored THEN <<data>> ELSE @]
                 /\ full' = (~r.stored /\ \E a \in DOMAIN r.ht.table :
                                              r.ht.table[a] = Free)
          /\ fails' = fails + (IF failed THEN 1 ELSE 0)
    /\ inserts' = inserts + 1
    /\ UNCHANGED <<tree, numbers>>

\* map_nodes looks an inode number up and inserts it only when it is not there.
MapNode ==
    /\ inserts < MaxInserts
    /\ ht = hash_table_init
    /\ \E n \in Numbers :
          /\ rbtree_lookup(tree, n) = <<>>
          /\ tree' = rbtree_insert(tree, n)
          /\ numbers' = numbers \cup {n}
    /\ inserts' = inserts + 1
    /\ UNCHANGED <<ht, want, full, fails>>

Next == InsertPreHashed \/ MapNode

Spec == Init /\ [][Next]_vars

-----------------------------------------------------------------------------

RECURSIVE InOrder(_)
InOrder(n) == IF n = <<>> THEN <<>>
              ELSE InOrder(n[1].left) \o <<n[1].key>> \o InOrder(n[1].right)

\* The number of black nodes on every path down, or -1 where paths differ,
\* a right child is red or a red node has a red child.
RECURSIVE BlackHeight(_)
BlackHeight(n) ==
    IF n = <<>> THEN 0
    ELSE LET l == BlackHeight(n[1].left)
             r == BlackHeight(n[1].right)
         IN  IF \/ l = -1 \/ l # r \/ Red(n[1].right)
                \/ Red(n) /\ Red(n[1].left)
             THEN -1
             ELSE l + (IF n[1].is_red THEN 0 ELSE 1)

\* Whatever was stored in the hash table is found, with the value it was
\* stored with last, after every growth of the table and every growth that
\* failed; nothing else is found, and the owner's walk over the table
\* (hash_table_foreach) meets every entry once.
StoredIsFound ==
    /\ \A k \in Keys : hash_table_search(ht, k.hash, k) = want[k]
    /\ LET walk == hash_table_next_entry(ht)
       IN  /\ Len(walk) = ht.entries
           /\ {e.key : e \in {walk[i] : i \in DOMAIN walk}} =
                 {k \in Keys : want[k] # <<>>}

\* An insertion is refused only when the table could not grow and every slot
\* is taken: the second hash reaches all of them.
RefusedOnlyWhenFull == ~full

\* After any order of insertions the red-black tree finds exactly the inode
\* numbers inserted, holds them in order, and is balanced: no two red nodes in
\* a row, no red right child, as many black nodes on every path.
TreeRight ==
    /\ \A n \in Numbers : (rbtree_lookup(tree, n) # <<>>) <=> (n \in numbers)
    /\ InOrder(tree) = SetToSortSeq(numbers, <)
    /\ BlackHeight(tree) # -1
=============================================================================
