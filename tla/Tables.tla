-------------------------------- MODULE Tables --------------------------------
(***************************************************************************)
(* The super block and the tables it points to: lib/sqfs/super.c,          *)
(* read_super.c, write_super.c, write_table.c, read_table.c, id_table.c    *)
(* and the part of frag_table.c that is about the file.                    *)
(***************************************************************************)
EXTENDS MetaStream

CONSTANTS
  IdCountMax,     \* 0x10000: ids an id table may hold; the super block's field is 16 bit
  SuperCells      \* cells of the super block

ASSUME TablesAssumption == IdCountMax \in Nat \ {0} /\ SuperCells \in Nat \ {0}

(* 0xFFFFFFFFFFFFFFFF, a location beyond every other. *)
NoTable == 1000000

(* block_size and compressor are valid or not; what is in range is a bit. *)
super_init(valid) ==
  [valid |-> valid, inode_count |-> 0, fragment_entry_count |-> 0, id_count |-> 0,
   flags |-> {"no_fragments", "no_xattrs", "no_duplicates"},
   root_inode_ref |-> [block |-> 0, offset |-> 0], bytes_used |-> SuperCells,
   id_table_start |-> NoTable, xattr_id_table_start |-> NoTable,
   inode_table_start |-> NoTable, directory_table_start |-> NoTable,
   fragment_table_start |-> NoTable, export_table_start |-> NoTable]

(* Mutant: the super block goes to the end of the file. *)
SuperAppended(super, file) == file \o Pack(super, SuperCells)

super_write(super, file) == Overwrite(file, Pack(super, SuperCells))

super_read(file) ==
  LET s == Unpack(CellsAt(file, 0, SuperCells))
  IN  IF "bytes_used" \in DOMAIN s /\ s.valid /\ s.id_count # 0
      THEN [ret |-> "ok", super |-> s]
      ELSE [ret |-> "error", super |-> Garbage]

------------------------------------------------------------------------------
(* A table is the sequence of its entries, size cells each. *)

TableCells(table, size) == FlattenSeq([i \in DOMAIN table |-> Pack(table[i], size)])

BlockCount(cells) == (cells + MetaBlockSize - 1) \div MetaBlockSize

(* One block is appended, its location taken from the size of the file before. *)
TableBlock(s, chunk) ==
  IF s.io.ret # "ok" THEN s
  ELSE [io |-> meta_writer_append(s.io, chunk), locations |-> Append(s.locations, Len(s.io.file))]

Chunks(cells) ==
  [i \in 1 .. BlockCount(Len(cells)) |->
    SubSeq(cells, (i - 1) * MetaBlockSize + 1,
           IF i * MetaBlockSize < Len(cells) THEN i * MetaBlockSize ELSE Len(cells))]

(* Every append but the last fills a block; the list of locations is the last write. *)
write_table(file, table, size, fates) ==
  LET begin == [io |-> Calling(meta_writer_create(FALSE), file, fates), locations |-> <<>>]
  IN  With(FoldLeft(TableBlock, begin, Chunks(TableCells(table, size))), LAMBDA body :
        With(IF body.io.ret = "ok" THEN meta_writer_flush(body.io) ELSE body.io, LAMBDA done :
          LET list  == FlattenSeq([i \in DOMAIN body.locations |->
                                    Pack([location |-> body.locations[i]], 1)])
              fails == done.fates # <<>> /\ Head(done.fates) # "ok"
              rest  == IF done.fates = <<>> THEN <<>> ELSE Tail(done.fates)
              error(f) == [ret |-> "error", file |-> done.file, start |-> Len(done.file), fates |-> f]
          IN  IF done.ret # "ok" THEN error(done.fates)
              ELSE IF fails THEN error(rest)
              ELSE [ret |-> "ok", file |-> done.file \o list, start |-> Len(done.file), fates |-> rest]))

ReadBlock(r, location) ==
  LET k == meta_reader_seek(r.m, r.file, location, 0, r.fault)
      n == IF r.left < MetaBlockSize THEN r.left ELSE MetaBlockSize
  IN  With(meta_reader_read(k.m, r.file, n, r.fault), LAMBDA d :
        IF r.ret # "ok" THEN r
        ELSE IF k.ret # "ok" \/ d.ret # "ok" THEN [r EXCEPT !.ret = "error"]
        ELSE [r EXCEPT !.m = d.m, !.left = @ - n, !.cells = @ \o d.out])

read_table(file, count, size, location, lower, upper, fault) ==
  LET list  == CellsAt(file, location, BlockCount(count * size))
      begin == [m |-> meta_reader_create(lower, upper), file |-> file, fault |-> fault,
                left |-> count * size, cells |-> <<>>, ret |-> "ok"]
  IN  With(FoldLeft(ReadBlock, begin, [i \in DOMAIN list |-> list[i].of.location]), LAMBDA done :
        LET bad   == list = <<>> \/ \E i \in DOMAIN list : "location" \notin DOMAIN list[i].of
        IN  IF bad \/ fault = "list" THEN [ret |-> "error", table |-> <<>>]
            ELSE IF done.ret # "ok" THEN [ret |-> "error", table |-> <<>>]
            ELSE [ret |-> "ok",
                  table |-> [i \in 1 .. count |-> Unpack(SubSeq(done.cells, (i - 1) * size + 1, i * size))]])

------------------------------------------------------------------------------
(* lib/sqfs/id_table.c: the table is the sequence of its ids. *)

IdCells == 1

id_to_index(ids, id) ==
  LET at == {i \in DOMAIN ids : ids[i] = id}
  IN  IF at # {} THEN [ret |-> "ok", ids |-> ids, index |-> (CHOOSE i \in at : TRUE) - 1]
      ELSE IF Len(ids) = IdCountMax THEN [ret |-> "error", ids |-> ids, index |-> 0]
      ELSE [ret |-> "ok", ids |-> Append(ids, id), index |-> Len(ids)]

index_to_id(ids, index) ==
  IF index >= Len(ids) THEN [ret |-> "error", id |-> 0] ELSE [ret |-> "ok", id |-> ids[index + 1]]

(* The count is truncated to 16 bits. *)
id_table_write(ids, file, super, fates) ==
  LET w == write_table(file, [i \in DOMAIN ids |-> [id |-> ids[i]]], IdCells, fates)
  IN  [ret |-> w.ret, file |-> w.file, fates |-> w.fates,
       super |-> [super EXCEPT !.id_count = Len(ids) % IdCountMax, !.id_table_start = w.start]]

Smaller(a, b) == IF a < b THEN a ELSE b

(* The blocks of the table lie between the table before it and its own list. *)
id_table_read(file, super, fault) ==
  LET upper == super.id_table_start
      under(x, lower) == IF x > lower /\ x < upper THEN x ELSE lower
      lower == under(super.export_table_start,
                     under(super.fragment_table_start, super.directory_table_start))
  IN  With(read_table(file, super.id_count, IdCells, super.id_table_start, lower, upper, fault), LAMBDA t :
        IF super.id_count = 0 \/ super.id_table_start >= super.bytes_used
        THEN [ret |-> "error", ids |-> <<>>]
        ELSE [ret |-> t.ret, ids |-> [i \in DOMAIN t.table |-> t.table[i].id]])

------------------------------------------------------------------------------
(* lib/sqfs/frag_table.c *)

FragCells == 2

frag_table_write(frags, file, super, fates) ==
  LET w == write_table(file, frags, FragCells, fates)
      raw == \A i \in DOMAIN frags : ~frags[i].compressed
  IN  IF frags = <<>>
      THEN [ret |-> "ok", file |-> file, fates |-> fates,
            super |-> [super EXCEPT !.fragment_table_start = NoTable,
                         !.flags = (@ \cup {"no_fragments"})
                                   \ {"always_fragments", "uncompressed_fragments"}]]
      ELSE IF w.ret # "ok"
      THEN [ret |-> w.ret, file |-> w.file, fates |-> w.fates, super |-> super]
      ELSE [ret |-> "ok", file |-> w.file, fates |-> w.fates,
            super |-> [super EXCEPT !.fragment_table_start = w.start,
                         !.fragment_entry_count = Len(frags),
                         !.flags = (@ \ {"no_fragments", "uncompressed_fragments"})
                                   \cup {"always_fragments"}
                                   \cup (IF raw THEN {"uncompressed_fragments"} ELSE {})]]

frag_table_read(file, super, fault) ==
  LET upper == Smaller(super.export_table_start, super.id_table_start)
      t == read_table(file, super.fragment_entry_count, FragCells, super.fragment_table_start,
                      super.directory_table_start, upper, fault)
  IN  IF "no_fragments" \in super.flags \/ super.fragment_table_start = NoTable
         \/ super.fragment_entry_count = 0
      THEN [ret |-> "ok", frags |-> <<>>]
      ELSE IF super.fragment_table_start >= super.bytes_used
              \/ super.fragment_table_start < super.directory_table_start
              \/ super.fragment_table_start >= super.id_table_start
      THEN [ret |-> "error", frags |-> <<>>]
      ELSE [ret |-> t.ret, frags |-> t.table]
=============================================================================
