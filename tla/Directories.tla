----------------------------- MODULE Directories -----------------------------
(***************************************************************************)
(* Directory listings: lib/sqfs/dir_writer.c and dir_reader.c (with        *)
(* readdir.c), as operators on the two objects.                            *)
(***************************************************************************)
EXTENDS Inodes, Tables, Names

CONSTANTS
  MaxDirEnt,  \* SQFS_MAX_DIR_ENT
  MaxDiff     \* 32767: how far an inode number may be from the one in the header

ASSUME DirectoriesAssumption == MaxDirEnt \in Nat \ {0} /\ MaxDiff \in Nat

HeaderCells == 2  \* sqfs_dir_header_t
EntryCells  == 1  \* sqfs_dir_entry_t

------------------------------------------------------------------------------
(* The writer: the entries and the index of the directory being written,   *)
(* and the export table, if there is to be one.                             *)

(* No entry: 0xFFFFFFFFFFFFFFFF. *)
NoRef == [block |-> NoTable, offset |-> 0]

dir_writer_create(exportable) ==
  [list |-> <<>>, idx |-> <<>>, dir_ref |-> NoRef, dir_size |-> 0,
   exports |-> exportable, export_tbl |-> <<>>]

dir_writer_begin(w, dm) ==
  [w EXCEPT !.list = <<>>, !.idx = <<>>, !.dir_size = 0, !.dir_ref = get_position(dm)]

add_export_table_entry(w, inum, iref) ==
  LET t   == w.export_tbl
      new == IF inum > Len(t) THEN inum ELSE Len(t)
  IN  IF ~w.exports THEN w
      ELSE [w EXCEPT !.export_tbl =
              [i \in 1 .. new |-> IF i = inum THEN iref ELSE IF i <= Len(t) THEN t[i] ELSE NoRef]]

(* An entry without a name, an inode number or a known type is refused. *)
dir_writer_add_entry(w, name, inode_num, inode_ref, kind) ==
  IF kind \notin Kinds \/ name = <<>> \/ inode_num < 1 THEN [ret |-> "error", w |-> w]
  ELSE [ret |-> "ok",
        w |-> [add_export_table_entry(w, inode_num, inode_ref) EXCEPT
                 !.list = Append(@, [name |-> name, inum |-> inode_num, iref |-> inode_ref,
                                     type |-> kind])]]

(* What the header of list[first] leaves of its block before entry i ends. *)
RunSize(offset, list, first, i) ==
  ((offset + HeaderCells) % MetaBlockSize) +
    FoldLeft(LAMBDA sum, e : sum + EntryCells + Len(e.name), 0, SubSeq(list, first, i))

(* Mutant: the inode numbers of a run may be anywhere. *)
RunAnyBlock(offset, list, first) ==
  LET fits(i) == i - first < MaxDirEnt /\ (i = first \/ RunSize(offset, list, first, i) <= MetaBlockSize)
  IN  CHOOSE n \in 1 .. Len(list) - first + 1 :
        /\ \A i \in first .. first + n - 1 : fits(i)
        /\ first + n - 1 = Len(list) \/ ~fits(first + n)

(* Entries that one header can serve: inodes of one block, numbers close to *)
(* the first, and no entry but the first crosses into the next block.       *)
get_conseq_entry_count(offset, list, first) ==
  LET head == list[first]
      fits(i) ==
        /\ list[i].iref.block = head.iref.block
        /\ list[i].inum - head.inum <= MaxDiff
        /\ list[i].inum - head.inum >= -MaxDiff
        /\ i = first \/ RunSize(offset, list, first, i) <= MetaBlockSize
        /\ i - first < MaxDirEnt
  IN  CHOOSE n \in 1 .. Len(list) - first + 1 :
        /\ \A i \in first .. first + n - 1 : fits(i)
        /\ first + n - 1 = Len(list) \/ ~fits(first + n)

HeaderOf(ent, count) ==
  [count |-> count - 1, hdr_block |-> ent.iref.block, hdr_inode |-> ent.inum]

EntryOf(ent, first) ==
  [ent_offset |-> ent.iref.offset, inode_diff |-> ent.inum - first.inum,
   ent_type |-> ent.type, size |-> Len(ent.name) - 1]

(* Mutant: the index says where the entries are and not where the header is. *)
WriteRunLateIndex(d) ==
  LET first == d.next
      count == get_conseq_entry_count(get_position(d.s.m).offset, d.w.list, first)
      h     == meta_writer_append(d.s, Pack(HeaderOf(d.w.list[first], count), HeaderCells))
      body  == FlattenSeq([i \in 1 .. count |->
                 LET e == d.w.list[first + i - 1]
                 IN  Pack(EntryOf(e, d.w.list[first]), EntryCells) \o NameCells(e.name)])
      idx   == [block |-> get_position(h.m).block, index |-> d.w.dir_size + HeaderCells,
                name |-> d.w.list[first].name]
  IN  [d EXCEPT !.s = meta_writer_append(h, body), !.next = first + count,
                !.w.idx = Append(@, idx), !.w.dir_size = @ + HeaderCells + Len(body)]

(* add_header and the entries of one run; s is the meta data writer in use. *)
WriteRun(d) ==
  LET first == d.next
      pos   == get_position(d.s.m)
      count == get_conseq_entry_count(pos.offset, d.w.list, first)
      h     == meta_writer_append(d.s, Pack(HeaderOf(d.w.list[first], count), HeaderCells))
      body  == FlattenSeq([i \in 1 .. count |->
                 LET e == d.w.list[first + i - 1]
                 IN  Pack(EntryOf(e, d.w.list[first]), EntryCells) \o NameCells(e.name)])
      idx   == [block |-> pos.block, index |-> d.w.dir_size, name |-> d.w.list[first].name]
      b     == meta_writer_append(h, body)
  IN  IF h.ret # "ok" THEN [d EXCEPT !.s = h]
      ELSE [d EXCEPT !.s = b, !.next = first + count,
                     !.w.idx = Append(@, idx),
                     !.w.dir_size = @ + HeaderCells + Len(body)]

(* One run after the other, until all entries are written or one fails. *)
dir_writer_end(w, s) ==
  FoldLeft(LAMBDA d, i : IF d.s.ret = "ok" /\ d.next <= Len(d.w.list) THEN WriteRun(d) ELSE d,
           [w |-> w, s |-> s, next |-> 1], [i \in DOMAIN w.list |-> i])

dir_writer_create_inode(w, hlinks, xattr, parent_ino) ==
  LET zero == ZeroInode("dir")
      ext  == xattr # NoIndex \/ w.dir_size > DirSizeMax
      data == [zero.data EXCEPT !["start_block"] = w.dir_ref.block, !["size"] = w.dir_size,
                 !["nlink"] = Len(w.list) + hlinks + 2, !["offset"] = w.dir_ref.offset,
                 !["parent_inode"] = parent_ino]
  IN  IF ext THEN [zero EXCEPT !.ext = TRUE, !.extra = w.idx,
                     !.data = [data EXCEPT !["xattr_idx"] = xattr, !["inodex_count"] = Len(w.idx)]]
      ELSE [zero EXCEPT !.data = data]

(* An export table that gets no entry is not written. *)
write_export_table(w, root_inum, root_iref, file, super, fates) ==
  LET x == add_export_table_entry(w, root_inum, root_iref)
      t == write_table(file, [i \in DOMAIN x.export_tbl |-> [ref |-> x.export_tbl[i]]], 1, fates)
  IN  IF x.export_tbl = <<>>
      THEN [ret |-> "ok", file |-> file, super |-> super, fates |-> fates]
      ELSE IF t.ret # "ok"
      THEN [ret |-> t.ret, file |-> t.file, super |-> super, fates |-> t.fates]
      ELSE [ret |-> "ok", file |-> t.file, fates |-> t.fates,
            super |-> [super EXCEPT !.export_table_start = t.start,
                                    !.flags = @ \cup {"exportable"}]]

------------------------------------------------------------------------------
(* The reader: two meta data readers and a position in the listing. *)

NoHeader == [count |-> 0, hdr_block |-> 0, hdr_inode |-> 0]

dir_reader_create(super) ==
  [meta_inode |-> meta_reader_create(super.inode_table_start, super.directory_table_start),
   meta_dir |-> meta_reader_create(super.directory_table_start,
                   Smaller(Smaller(super.id_table_start, super.fragment_table_start),
                           super.export_table_start)),
   super |-> super, hdr |-> NoHeader, entries |-> 0, size |-> 0,
   dir_block_start |-> 0, start_size |-> 0, dir_offset |-> 0, inode_offset |-> 0]

(* A listing that holds no more than a header is not looked at: the place   *)
(* to go back to stays that of the directory before.                        *)
open_dir(rd, file, inode, fault) ==
  LET shut == [rd EXCEPT !.hdr = NoHeader, !.size = inode.data["size"], !.entries = 0]
      at   == inode.data["start_block"] + rd.super.directory_table_start
  IN  With(meta_reader_seek(rd.meta_dir, file, at, inode.data["offset"], fault), LAMBDA k :
        IF inode.kind # "dir" THEN [ret |-> "not_dir", rd |-> rd]
        ELSE IF inode.data["size"] <= HeaderCells THEN [ret |-> "ok", rd |-> shut]
        ELSE [ret |-> k.ret,
              rd |-> [shut EXCEPT !.dir_block_start = at, !.dir_offset = inode.data["offset"],
                                  !.start_size = inode.data["size"], !.meta_dir = k.m]])

read_dir_header(m, file, fault) ==
  With(meta_reader_read(m, file, HeaderCells, fault), LAMBDA r :
    LET h == Unpack(r.out)
    IN  IF r.ret # "ok" THEN [ret |-> "error", m |-> r.m, hdr |-> NoHeader]
        ELSE IF "hdr_block" \notin DOMAIN h \/ h.count > MaxDirEnt - 1
        THEN [ret |-> "error", m |-> r.m, hdr |-> NoHeader]
        ELSE [ret |-> "ok", m |-> r.m, hdr |-> h])

read_dir_ent(m, file, fault) ==
  With(meta_reader_read(m, file, EntryCells, fault), LAMBDA r :
    LET e == Unpack(r.out)
    IN  With(meta_reader_read(r.m, file, e.size + 1, fault), LAMBDA n :
          LET error(x) == [ret |-> "error", m |-> x, ent |-> Garbage]
          IN  IF r.ret # "ok" THEN error(r.m)
              ELSE IF "inode_diff" \notin DOMAIN e THEN error(r.m)
              ELSE IF n.ret # "ok" THEN error(n.m)
              ELSE [ret |-> "ok", m |-> n.m,
                    ent |-> [name |-> CellsName(n.out), offset |-> e.ent_offset,
                             inode_diff |-> e.inode_diff, type |-> e.ent_type]]))

(* "end" is the positive return value at the end of the listing. *)
dir_reader_read(rd, file, fault) ==
  With(IF rd.entries = 0 THEN read_dir_header(rd.meta_dir, file, fault)
       ELSE [ret |-> "ok", m |-> rd.meta_dir, hdr |-> rd.hdr], LAMBDA h :
    LET at == IF rd.entries # 0 THEN rd
              ELSE [rd EXCEPT !.meta_dir = h.m, !.hdr = h.hdr, !.size = @ - HeaderCells,
                              !.entries = h.hdr.count + 1]
    IN  With(read_dir_ent(h.m, file, fault), LAMBDA e :
          LET count == EntryCells + Len(e.ent.name)
              over  == count > at.size
          IN  IF rd.entries = 0 /\ rd.size < HeaderCells THEN [ret |-> "end", rd |-> rd, ent |-> Garbage]
              ELSE IF h.ret # "ok"
              THEN [ret |-> "error", rd |-> [rd EXCEPT !.meta_dir = h.m], ent |-> Garbage]
              ELSE IF e.ret # "ok"
              THEN [ret |-> "error", rd |-> [at EXCEPT !.meta_dir = e.m], ent |-> Garbage]
              ELSE [ret |-> "ok", ent |-> e.ent,
                    rd |-> [at EXCEPT !.meta_dir = e.m, !.inode_offset = e.ent.offset,
                                      !.size = IF over THEN 0 ELSE @ - count,
                                      !.entries = IF over THEN 0 ELSE @ - 1]]))

(* Mutant: the position in the run is kept. *)
RewindKeepsRun(rd, file, fault) ==
  LET k == meta_reader_seek(rd.meta_dir, file, rd.dir_block_start, rd.dir_offset, fault)
  IN  [ret |-> k.ret, rd |-> [rd EXCEPT !.size = rd.start_size, !.meta_dir = k.m]]

dir_reader_rewind(rd, file, fault) ==
  LET k == meta_reader_seek(rd.meta_dir, file, rd.dir_block_start, rd.dir_offset, fault)
  IN  [ret |-> k.ret,
       rd |-> [rd EXCEPT !.hdr = NoHeader, !.size = rd.start_size, !.entries = 0,
                         !.meta_dir = k.m]]

(* A search reads on while the name it meets is smaller. *)
SearchStep(r, name, file, fault) ==
  With(dir_reader_read(r.rd, file, fault), LAMBDA e :
    IF e.ret = "end" THEN [ret |-> "no_entry", rd |-> e.rd]
    ELSE IF e.ret # "ok" THEN [ret |-> "error", rd |-> e.rd]
    ELSE [rd |-> e.rd, ret |-> IF NameLess(e.ent.name, name) THEN "searching"
                               ELSE IF e.ent.name = name THEN "ok" ELSE "no_entry"])

Search(rd, name, file, fault) ==
  FoldLeft(LAMBDA r, i : IF r.ret = "searching" THEN SearchStep(r, name, file, fault) ELSE r,
           [ret |-> "searching", rd |-> rd], [i \in 1 .. rd.size + 1 |-> i])

dir_reader_find(rd, name, file, fault) ==
  LET back == dir_reader_rewind(rd, file, fault)
  IN  IF rd.size = rd.start_size THEN Search(rd, name, file, fault)
      ELSE IF back.ret # "ok" THEN back
      ELSE Search(back.rd, name, file, fault)

dir_reader_get_inode(rd, file, fault) ==
  With(read_inode(rd.meta_inode, file, rd.super, rd.hdr.hdr_block, rd.inode_offset, fault), LAMBDA r :
    [ret |-> r.ret, rd |-> [rd EXCEPT !.meta_inode = r.m], inode |-> r.inode])

get_root_inode(rd, file, fault) ==
  LET ref == rd.super.root_inode_ref
  IN  With(read_inode(rd.meta_inode, file, rd.super, ref.block, ref.offset, fault), LAMBDA r :
        [ret |-> r.ret, rd |-> [rd EXCEPT !.meta_inode = r.m], inode |-> r.inode])

(* One component of a path at a time, from the root. *)
PathStep(r, name, file, fault) ==
  LET o == open_dir(r.rd, file, r.inode, fault)
      f == Search(o.rd, name, file, fault)
      i == dir_reader_get_inode(f.rd, file, fault)
  IN  IF r.ret # "ok" THEN r
      ELSE IF o.ret # "ok" THEN [r EXCEPT !.ret = o.ret, !.rd = o.rd]
      ELSE IF f.ret # "ok" THEN [r EXCEPT !.ret = f.ret, !.rd = f.rd]
      ELSE i

find_by_path(rd, path, file, fault) ==
  FoldLeft(LAMBDA r, name : PathStep(r, name, file, fault), get_root_inode(rd, file, fault), path)
=============================================================================
