-------------------------------- MODULE Xattr --------------------------------
(***************************************************************************)
(* Extended attributes: lib/sqfs/xattr.  The writer collects the key-value *)
(* pairs of one inode after the other and gives equal sets one index; the  *)
(* flush stores the pairs, the descriptors and the list of their blocks    *)
(* behind the other tables; the reader finds them again.                   *)
(*                                                                         *)
(* A key is [prefix, name]; names and values are sequences of characters.  *)
(***************************************************************************)
EXTENDS Tables, TLC

CONSTANTS
  HashMod,    \* 2^32: the hash is a sqfs_u32
  NumBuckets  \* buckets of a table

ASSUME StrTableAssumption == HashMod \in Nat \ {0} /\ NumBuckets \in Nat \ {0}

------------------------------------------------------------------------------
(* lib/util/str_table.c: strings with a number and a reference count each.  *)
(* The strings are found through hash buckets, each a list with the newest  *)
(* string first.                                                            *)

HashStep(a, c) == ((a + c * 16 + c \div 16) * 11) % HashMod

(* R5, for characters below 128. *)
strhash(s) == FoldLeft(HashStep, 0, s)

BucketOf(s) == strhash(s) % NumBuckets

str_table_init == [bucket |-> [b \in 0 .. NumBuckets - 1 |-> <<>>], strings |-> <<>>]

(* The first in the list that holds, or 0. *)
FirstOf(list, holds) == IF holds = {} THEN 0 ELSE CHOOSE i \in holds : \A j \in holds : i <= j

(* Mutant: the first string of the bucket is taken for the one looked for. *)
GetIndexFirst(t, str) ==
  LET b == BucketOf(str)
  IN  IF t.bucket[b] # <<>> THEN [t |-> t, index |-> t.bucket[b][1].index]
      ELSE [t |-> [bucket |-> [t.bucket EXCEPT ![b] = <<[str |-> str, index |-> Len(t.strings),
                                                         refs |-> 0]>>],
                   strings |-> Append(t.strings, str)],
            index |-> Len(t.strings)]

(* strings_grow and the copies of the string may fail, see the callers. *)
str_table_get_index(t, str) ==
  LET b == BucketOf(str)
      list == t.bucket[b]
      k == FirstOf(list, {i \in DOMAIN list : list[i].str = str})
      new == [str |-> str, index |-> Len(t.strings), refs |-> 0]
  IN  IF k # 0 THEN [t |-> t, index |-> list[k].index]
      ELSE [t |-> [bucket |-> [t.bucket EXCEPT ![b] = <<new>> \o @],
                   strings |-> Append(t.strings, str)],
            index |-> new.index]

str_table_get_string(t, index) == t.strings[index + 1]

bucket_by_index(t, index) ==
  LET b == BucketOf(t.strings[index + 1])
  IN  [bucket |-> b,
       at |-> FirstOf(t.bucket[b], {i \in DOMAIN t.bucket[b] : t.bucket[b][i].index = index})]

str_table_add_ref(t, index) ==
  LET n == bucket_by_index(t, index)
  IN  [t EXCEPT !.bucket[n.bucket][n.at].refs = @ + 1]

str_table_del_ref(t, index) ==
  LET n == bucket_by_index(t, index)
  IN  [t EXCEPT !.bucket[n.bucket][n.at].refs = IF @ > 0 THEN @ - 1 ELSE @]

str_table_get_ref_count(t, index) ==
  LET n == bucket_by_index(t, index) IN t.bucket[n.bucket][n.at].refs

------------------------------------------------------------------------------
(* The kinds of attributes. *)

(* xattr_types *)
XattrTypes == <<"user", "trusted", "security">>

sqfs_get_xattr_prefix_id(key) ==
  IF key.name = <<>> \/ \A i \in DOMAIN XattrTypes : XattrTypes[i] # key.prefix THEN -1
  ELSE (CHOOSE i \in DOMAIN XattrTypes : XattrTypes[i] = key.prefix) - 1

sqfs_get_xattr_prefix(id) == XattrTypes[id + 1]

(* The string a key is in the table of keys. *)
KeyString(key) == <<sqfs_get_xattr_prefix_id(key)>> \o key.name

------------------------------------------------------------------------------
(* xattr_writer.c and xattr_writer_record.c; all counts start at 0. *)

xattr_writer_create ==
  [keys |-> str_table_init, values |-> str_table_init, kv_pairs |-> <<>>, kv_start |-> 0,
   kv_blocks |-> <<>>]

xattr_writer_begin(x) == [x EXCEPT !.kv_start = Len(x.kv_pairs)]

(* fault: the allocation that fails, "key", "value" or "pairs", or "none". *)
xattr_writer_add(x, key, value, fault) ==
  LET k    == str_table_get_index(x.keys, KeyString(key))
      v    == str_table_get_index(x.values, value)
      pair == [key |-> k.index, value |-> v.index]
  IN  With([x EXCEPT !.keys = k.t, !.values = str_table_add_ref(v.t, v.index)], LAMBDA y :
        LET same == {i \in y.kv_start + 1 .. Len(y.kv_pairs) : y.kv_pairs[i].key = k.index}
            i    == CHOOSE j \in same : TRUE
        IN  IF sqfs_get_xattr_prefix_id(key) < 0 THEN [ret |-> "unsupported", x |-> x]
            ELSE IF fault = "key" THEN [ret |-> "error", x |-> x]
            ELSE IF fault = "value" THEN [ret |-> "error", x |-> [x EXCEPT !.keys = k.t]]
            ELSE IF same = {}
                 THEN IF fault = "pairs" THEN [ret |-> "error", x |-> y]
                      ELSE [ret |-> "ok", x |-> [y EXCEPT !.kv_pairs = Append(@, pair)]]
            ELSE IF y.kv_pairs[i] = pair THEN [ret |-> "ok", x |-> y]
            ELSE [ret |-> "ok",
                  x |-> [y EXCEPT !.kv_pairs[i] = pair,
                                  !.values = str_table_del_ref(@, y.kv_pairs[i].value)]])

PairLess(a, b) == a.key < b.key \/ (a.key = b.key /\ a.value < b.value)

BlockPairs(x, blk) == SubSeq(x.kv_pairs, blk.start + 1, blk.start + blk.count)

(* The pairs are sorted; a block that is there already is used again. *)
xattr_writer_end(x, fault) ==
  LET count == Len(x.kv_pairs) - x.kv_start
      mine  == SortSeq(SubSeq(x.kv_pairs, x.kv_start + 1, Len(x.kv_pairs)), PairLess)
      y     == [x EXCEPT !.kv_pairs = SubSeq(@, 1, x.kv_start) \o mine]
      at    == FirstOf(y.kv_blocks, {i \in DOMAIN y.kv_blocks : BlockPairs(y, y.kv_blocks[i]) = mine})
      blk   == [start |-> y.kv_start, count |-> count]
  IN  IF count = 0 THEN [ret |-> "ok", x |-> x, index |-> NoIndex]
      ELSE IF at # 0 THEN [ret |-> "ok", index |-> at - 1,
                           x |-> [y EXCEPT !.kv_pairs = SubSeq(@, 1, y.kv_start)]]
      ELSE IF fault # "none" THEN [ret |-> "error", x |-> y, index |-> 0]
      ELSE [ret |-> "ok", index |-> Len(y.kv_blocks), x |-> [y EXCEPT !.kv_blocks = Append(@, blk)]]

------------------------------------------------------------------------------
(* xattr_writer_flush.c.  A value is kept as a string of hexadecimal digits *)
(* in the table and turned back when it is written: to_base32 and           *)
(* from_base32 cancel each other and are left out.                          *)

XattrIdCells == 2  \* sqfs_xattr_id_t
XattrTableCells == 1  \* sqfs_xattr_id_table_t
RefCells == 1  \* a reference to a value stored elsewhere

(* A flush in progress: the meta data writer s, where values were stored    *)
(* that may be referred to, and what was learned of the block.              *)
write_key(f, key, ool) ==
  LET ent == [xtype |-> Head(key), ool |-> ool, xsize |-> Len(key) - 1]
  IN  [f EXCEPT !.s = meta_writer_append(@, Pack(ent, 1) \o NameCells(Tail(key))),
                !.size = @ + Len(key)]

write_value(f, value) ==
  [f EXCEPT !.s = meta_writer_append(@, Pack([vsize |-> Len(value)], 1) \o NameCells(value)),
            !.size = @ + 1 + Len(value)]

write_value_ool(f, location) ==
  [f EXCEPT !.s = meta_writer_append(@, Pack([vsize |-> RefCells], 1)
                                        \o Pack([vref |-> location], RefCells)),
            !.size = @ + 1 + RefCells]

should_store_ool(value, refcount) == refcount >= 2 /\ Len(value) > RefCells

(* One pair: its value, or where the value was stored before. *)
WritePair(x, f, pair) ==
  LET key   == str_table_get_string(x.keys, pair.key)
      value == str_table_get_string(x.values, pair.value)
      k     == write_key(f, key, pair.value \in DOMAIN f.ool)
      ref   == get_position(k.s.m)
      kept  == should_store_ool(value, str_table_get_ref_count(x.values, pair.value))
  IN  IF f.s.ret # "ok" THEN f
      ELSE IF k.s.ret # "ok" THEN k
      ELSE IF pair.value \in DOMAIN f.ool THEN write_value_ool(k, f.ool[pair.value])
      ELSE [write_value(k, value) EXCEPT !.ool = IF kept THEN (pair.value :> ref) @@ @ ELSE @]

(* The descriptor says where the block is, and how much is in it. *)
write_block_pairs(x, f, blk) ==
  LET w == FoldLeft(LAMBDA g, pair : WritePair(x, g, pair), [f EXCEPT !.size = 0],
                    BlockPairs(x, blk))
      desc == [xattr |-> get_position(f.s.m), count |-> blk.count, size |-> w.size]
  IN  IF f.s.ret # "ok" THEN f ELSE [w EXCEPT !.descs = Append(@, desc)]

write_kv_pairs(x, s) ==
  With(FoldLeft(LAMBDA g, blk : write_block_pairs(x, g, blk),
                [s |-> s, ool |-> <<>>, size |-> 0, descs |-> <<>>], x.kv_blocks), LAMBDA f :
    IF f.s.ret = "ok" THEN [f EXCEPT !.s = meta_writer_flush(@)] ELSE f)

(* A block that was left behind gives a location; the array has room for    *)
(* num_blocks descriptors, and locations counts what was put in it.         *)
WriteDesc(w, desc) ==
  LET s == meta_writer_append(w.s, Pack(desc, XattrIdCells))
      block == get_position(s.m).block
  IN  IF w.s.ret # "ok" THEN w
      ELSE [s |-> s, locations |-> IF s.ret = "ok" /\ block # Last(w.locations)
                                   THEN Append(w.locations, block) ELSE w.locations]

write_id_table(descs, s) ==
  LET w == FoldLeft(WriteDesc, [s |-> s, locations |-> <<0>>], descs)
  IN  IF w.s.ret = "ok" THEN [w EXCEPT !.s = meta_writer_flush(@)] ELSE w

alloc_location_table(x) == BlockCount(Len(x.kv_blocks) * XattrIdCells)

(* used is the number of locations that were stored in the array. *)
xattr_writer_flush(x, file, super, fates) ==
  With(write_kv_pairs(x, Calling(meta_writer_create(FALSE), file, fates)), LAMBDA kv :
    With(write_id_table(kv.descs, Calling(meta_writer_create(FALSE), kv.s.file, kv.s.fates)), LAMBDA id :
      LET start == Len(id.s.file)
          count == alloc_location_table(x)
          head  == Pack([xattr_table_start |-> Len(file), xattr_ids |-> Len(x.kv_blocks)], 1)
          list  == FlattenSeq([i \in 1 .. count |->
                                Pack([location |-> id.locations[i] + Len(kv.s.file)], 1)])
          bad(i) == Len(id.s.fates) >= i /\ id.s.fates[i] # "ok"
          here  == [super EXCEPT !.xattr_id_table_start = start, !.flags = @ \ {"no_xattrs"}]
          result(r, f, s, n) == [ret |-> r, file |-> f, super |-> s, used |-> n, room |-> count]
      IN  IF x.kv_pairs = <<>> \/ x.kv_blocks = <<>>
          THEN result("ok", file, [super EXCEPT !.xattr_id_table_start = NoTable,
                                                !.flags = @ \cup {"no_xattrs"}], 0)
          ELSE IF kv.s.ret # "ok" THEN result("error", kv.s.file, super, 0)
          ELSE IF id.s.ret # "ok" THEN result("error", id.s.file, super, Len(id.locations))
          ELSE IF bad(1) THEN result("error", id.s.file, here, Len(id.locations))
          ELSE IF bad(2) THEN result("error", id.s.file \o head, here, Len(id.locations))
          ELSE result("ok", id.s.file \o head \o list, here, Len(id.locations))))

------------------------------------------------------------------------------
(* xattr_reader.c *)

xattr_reader_create == [loaded |-> FALSE]

xattr_reader_load(file, super) ==
  LET head  == Unpack(CellsAt(file, super.xattr_id_table_start, XattrTableCells))
      count == BlockCount(head.xattr_ids * XattrIdCells)
      list  == CellsAt(file, super.xattr_id_table_start + XattrTableCells, count)
      rd    == meta_reader_create(super.id_table_start, super.bytes_used)
      error == [ret |-> "error", xr |-> xattr_reader_create]
  IN  IF "no_xattrs" \in super.flags \/ super.xattr_id_table_start = NoTable
      THEN [ret |-> "ok", xr |-> xattr_reader_create]
      ELSE IF super.xattr_id_table_start >= super.bytes_used THEN error
      ELSE IF "xattr_ids" \notin DOMAIN head THEN error
      ELSE IF list = <<>> \/ \E i \in DOMAIN list : list[i].of.location > super.bytes_used
      THEN error
      ELSE [ret |-> "ok",
            xr |-> [loaded |-> TRUE, xattr_start |-> head.xattr_table_start,
                    xattr_end |-> super.bytes_used, num_ids |-> head.xattr_ids,
                    id_block_starts |-> [i \in DOMAIN list |-> list[i].of.location],
                    idrd |-> rd, kvrd |-> rd]]

NoDesc == [xattr |-> [block |-> 0, offset |-> 0], count |-> 0, size |-> 0]

xattr_reader_get_desc(xr, file, idx) ==
  LET at == idx * XattrIdCells
      k  == meta_reader_seek(xr.idrd, file, xr.id_block_starts[at \div MetaBlockSize + 1],
                             at % MetaBlockSize, "none")
      d  == meta_reader_read(k.m, file, XattrIdCells, "none")
      answer(r, m, desc) == [ret |-> r, xr |-> [xr EXCEPT !.idrd = m], desc |-> desc]
  IN  IF idx = NoIndex THEN [ret |-> "ok", xr |-> xr, desc |-> NoDesc]
      ELSE IF ~xr.loaded
      THEN [ret |-> IF idx = 0 THEN "ok" ELSE "error", xr |-> xr, desc |-> NoDesc]
      ELSE IF idx >= xr.num_ids THEN [ret |-> "error", xr |-> xr, desc |-> NoDesc]
      ELSE IF k.ret # "ok" THEN answer("error", k.m, NoDesc)
      ELSE answer(d.ret, d.m, Unpack(d.out))

xattr_reader_seek_kv(xr, file, desc) ==
  LET k == meta_reader_seek(xr.kvrd, file, xr.xattr_start + desc.xattr.block, desc.xattr.offset,
                            "none")
  IN  [ret |-> k.ret, xr |-> [xr EXCEPT !.kvrd = k.m]]

xattr_reader_read_key(xr, file) ==
  LET k   == meta_reader_read(xr.kvrd, file, 1, "none")
      ent == Unpack(k.out)
      n   == meta_reader_read(k.m, file, ent.xsize, "none")
      error(m) == [ret |-> "error", xr |-> [xr EXCEPT !.kvrd = m], key |-> Garbage, ool |-> FALSE]
  IN  IF k.ret # "ok" THEN error(k.m)
      ELSE IF "xsize" \notin DOMAIN ent THEN error(k.m)
      ELSE IF n.ret # "ok" THEN error(n.m)
      ELSE [ret |-> "ok", xr |-> [xr EXCEPT !.kvrd = n.m], ool |-> ent.ool,
            key |-> [prefix |-> sqfs_get_xattr_prefix(ent.xtype), name |-> CellsName(n.out)]]

(* A value stored elsewhere is read there; then the reader goes back, to a  *)
(* place that meta_reader_seek refuses when it is the end of a block.       *)
xattr_reader_read_value(xr, file, ool) ==
  LET v    == meta_reader_read(xr.kvrd, file, 1, "none")
      r    == meta_reader_read(v.m, file, RefCells, "none")
      ref  == Unpack(r.out).vref
      k    == meta_reader_seek(r.m, file, xr.xattr_start + ref.block, ref.offset, "none")
      v2   == meta_reader_read(k.m, file, 1, "none")
  IN  With(IF ool THEN v2 ELSE v, LAMBDA from :
        LET d    == meta_reader_read(from.m, file, Unpack(from.out).vsize, "none")
            back == meta_reader_seek(d.m, file, r.m.block_offset, r.m.offset, "none")
            error(m) == [ret |-> "error", xr |-> [xr EXCEPT !.kvrd = m], value |-> <<>>]
            ok(m) == [ret |-> "ok", xr |-> [xr EXCEPT !.kvrd = m], value |-> CellsName(d.out)]
        IN  IF v.ret # "ok" THEN error(v.m)
            ELSE IF ~ool THEN IF d.ret # "ok" THEN error(d.m) ELSE ok(d.m)
            ELSE IF r.ret # "ok" THEN error(r.m)
            ELSE IF xr.xattr_start + ref.block >= xr.xattr_end THEN error(r.m)
            ELSE IF k.ret # "ok" THEN error(k.m)
            ELSE IF v2.ret # "ok" THEN error(v2.m)
            ELSE IF d.ret # "ok" THEN error(d.m)
            ELSE IF back.ret # "ok" THEN error(back.m)
            ELSE ok(back.m))
=============================================================================
