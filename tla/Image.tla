-------------------------------- MODULE Image --------------------------------
(***************************************************************************)
(* An image that is written and then read: the writer of ImageWriter, and  *)
(* a program that opens what the writer has left and walks through its     *)
(* directories with a directory reader, in any order of calls.             *)
(***************************************************************************)
EXTENDS ImageWriter

VARIABLE rd  \* the program that reads: its readers, and where it is

allvars == <<vars, rd>>

Nothing == [is |-> "none"]
Failed  == [is |-> "error"]

NoReader == [state |-> "closed", dir |-> 0, pos |-> 0, last |-> Nothing, lost |-> FALSE]

(* What the tools do first (rdsquashfs.c, sqfs2tar.c, sqfs_open_image). *)
OpenImage(cells) ==
  LET s == super_read(cells)
      i == id_table_read(cells, s.super, "none")
  IN  With(frag_table_read(cells, s.super, "none"), LAMBDA f :
        LET x == xattr_reader_load(cells, s.super)
        IN  IF s.ret # "ok" THEN [ret |-> "error"]
            ELSE IF i.ret # "ok" \/ f.ret # "ok" \/ x.ret # "ok" THEN [ret |-> "error"]
            ELSE [ret |-> "ok", super |-> s.super, ids |-> i.ids, frags |-> f.frags, xr |-> x.xr,
                  dr |-> dir_reader_create(s.super)])

Mount ==
  LET o == OpenImage(file)
  IN  /\ phase = "success"
      /\ rd.state = "closed"
      /\ rd' = IF o.ret = "ok"
               THEN [state |-> "open", dir |-> 0, pos |-> 0, last |-> Nothing, lost |-> FALSE,
                     dr |-> o.dr]
               ELSE [rd EXCEPT !.state = "refused"]
      /\ UNCHANGED vars

Dirs == {n \in DOMAIN fs.node : fs.node[n].mode = "dir"}
Listing(n) == fs.node[n].children

OpenDir(n) ==
  LET ref == InodeRef(n)
  IN  With(read_inode(rd.dr.meta_inode, file, rd.dr.super, ref.block, ref.offset, "none"), LAMBDA i :
        LET o == open_dir([rd.dr EXCEPT !.meta_inode = i.m], file, i.inode, "none")
        IN  /\ rd.state = "open"
            /\ rd' = [rd EXCEPT !.dr = o.rd, !.dir = n, !.pos = 0, !.lost = FALSE,
                                !.last = IF o.ret = "ok" THEN Nothing ELSE Failed]
            /\ UNCHANGED vars)

(* An entry and its inode. *)
ReadEntry ==
  LET e == dir_reader_read(rd.dr, file, "none")
  IN  With(dir_reader_get_inode(e.rd, file, "none"), LAMBDA i :
        LET got == [is |-> "entry", name |-> e.ent.name, type |-> e.ent.type, number |-> i.inode.inode_number,
                    kind |-> i.inode.kind, sum |-> e.rd.hdr.hdr_inode + e.ent.inode_diff]
        IN  /\ rd.state = "open"
            /\ rd.dir # 0
            /\ rd' = IF e.ret # "ok" THEN [rd EXCEPT !.dr = e.rd, !.last = [is |-> e.ret]]
                     ELSE IF i.ret # "ok" THEN [rd EXCEPT !.dr = i.rd, !.last = Failed]
                     ELSE [rd EXCEPT !.dr = i.rd, !.last = got, !.pos = @ + 1]
            /\ UNCHANGED vars)

(* An empty directory has no place to go back to: lost. *)
Rewind ==
  LET r == dir_reader_rewind(rd.dr, file, "none")
  IN  /\ rd.state = "open"
      /\ rd.dir # 0
      /\ rd' = [rd EXCEPT !.dr = r.rd, !.pos = 0, !.lost = Listing(rd.dir) = <<>>,
                          !.last = IF r.ret = "ok" THEN Nothing ELSE Failed]
      /\ UNCHANGED vars

(* The position afterwards is behind the first name that is not smaller. *)
Find(name) ==
  LET f == dir_reader_find(rd.dr, name, file, "none")
      list == Listing(rd.dir)
      less == {k \in DOMAIN list : NameLess(fs.node[list[k]].name, name)}
      next == Cardinality(less) + 1
  IN  /\ rd.state = "open"
      /\ rd.dir # 0
      /\ rd' = [rd EXCEPT !.dr = f.rd, !.last = [is |-> "found", ret |-> f.ret, name |-> name],
                          !.lost = list = <<>>,
                          !.pos = IF next > Len(list) THEN Len(list) ELSE next]
      /\ UNCHANGED vars

Names == {fs.node[n].name : n \in DOMAIN fs.node} \ {<<>>}

ReaderNext ==
  \/ Mount
  \/ \E n \in Dirs : OpenDir(n)
  \/ ReadEntry
  \/ Rewind
  \/ \E name \in Names : Find(name)

Done == Ended /\ (phase = "success" => rd.state = "refused") /\ UNCHANGED allvars

ImageInit == Init /\ rd = NoReader

ImageNext == (Next /\ UNCHANGED rd) \/ ReaderNext \/ Done

------------------------------------------------------------------------------
(* Properties *)

(* The directory node that a read tree stands for, name by name. *)
RECURSIVE SameTree(_, _, _)
SameTree(node, c, inode) ==
  LET n == T!Entry(fs, c)
      x == fs.node[n]
      i == node.inode
  IN  /\ node.name = fs.node[c].name
      /\ i.kind = x.mode /\ i.fmt = x.mode /\ i.inode_number = x.inode_num
      /\ node.uid = x.uid /\ node.gid = x.gid
      /\ get_xattr_index(i) = x.xattr_idx
      /\ (IF "nlink" \in Fields(i) THEN i.data["nlink"] ELSE 1) = x.link_count
      /\ i.kind = "slink" => i.extra = FlattenSeq(x.target)
      /\ i.kind \in Devices => i.data["devno"] = x.devno
      /\ i.kind = "file" => /\ i.extra = inode[n].extra
                            /\ \A f \in BasicFields("file") \cup {"sparse"} :
                                 i.data[f] = inode[n].data[f]
      /\ Len(node.children) = Len(x.children)
      /\ \A k \in DOMAIN x.children : SameTree(node.children[k], x.children[k], inode)

(* The attributes of a node, read back through its index. *)
RECURSIVE ReadPairs(_, _, _)
ReadPairs(xr, cells, n) ==
  With(xattr_reader_read_key(xr, cells), LAMBDA k :
    With(xattr_reader_read_value(k.xr, cells, k.ool), LAMBDA v :
      LET more == ReadPairs(v.xr, cells, n - 1)
      IN  IF n = 0 THEN [ret |-> "ok", pairs |-> {}]
          ELSE IF k.ret # "ok" \/ v.ret # "ok" THEN [ret |-> "error", pairs |-> {}]
          ELSE [ret |-> more.ret, pairs |-> more.pairs \cup {[key |-> k.key, value |-> v.value]}]))

ReadXattrs(xr, cells, index) ==
  With(xattr_reader_get_desc(xr, cells, index), LAMBDA d :
    LET k == xattr_reader_seek_kv(d.xr, cells, d.desc)
    IN  IF d.ret # "ok" THEN [ret |-> "error", pairs |-> {}]
        ELSE IF d.desc.count = 0 THEN [ret |-> "ok", pairs |-> {}]
        ELSE IF k.ret # "ok" THEN [ret |-> "error", pairs |-> {}]
        ELSE ReadPairs(k.xr, cells, d.desc.count))

(* Whatever the file looks like when the program is stopped, by a failure   *)
(* or from outside: if its super block is accepted, all tables can be       *)
(* loaded and the tree that sqfs_dir_reader_get_full_hierarchy returns is   *)
(* the one that was to be packed, with owners, link counts, targets, device *)
(* numbers and data locations.                                              *)
AcceptedIsComplete ==
  With(OpenImage(file), LAMBDA o :
    With(get_full_hierarchy(o.dr, o.ids, <<>>, file, {}, "none"), LAMBDA h :
      super_read(file).ret = "ok" =>
        /\ o.ret = "ok"
        /\ h.ret = "ok" /\ SameTree(h.node, T!Root, wr.inode)
        /\ o.frags = wr.frags))

(* A writer that ends well leaves an image that sqfs_super_read accepts;    *)
(* only one with as many owners as the id table can hold is not accepted,   *)
(* as their number is 0 in the super block (id_table.c, read_super.c).      *)
SuccessIsAccepted ==
  phase = "success" /\ Len(wr.ids) < IdCountMax => out = "there" /\ super_read(file).ret = "ok"

(* A writer that fails, wherever it does, leaves nothing behind that could  *)
(* be taken for an image: sqfs_writer_cleanup removes the file, and what a  *)
(* failed sqfs_writer_init leaves is refused.                               *)
NoImageAfterFailure ==
  phase \in {"failure", "init_failed"} /\ out = "there" => super_read(file).ret # "ok"

(* Without --force the file of another program is neither truncated by      *)
(* sqfs_open_file nor removed by sqfs_writer_cleanup.                       *)
ForeignFileKept == [][out = "foreign" /\ ~cfg.overwrite => out' = "foreign"]_allvars

(* What a part uses until it is destroyed. *)
Uses(part) ==
  CASE part = "dirwr" -> {"dm"}
    [] part \in {"dm", "im"} -> {"outfile", "cmp"}
    [] part = "data" -> {"blkwr", "fragtbl", "cmp"}
    [] part = "blkwr" -> {"outfile"}
    [] OTHER -> {}

(* On every way out of sqfs_writer_init, and in sqfs_writer_cleanup, all    *)
(* parts that were created are destroyed, once, and before what they use.   *)
PartsDestroyed ==
  /\ Ended => live = {}
  /\ \A p \in live : Uses(p) \subseteq live
  /\ destroy # <<>> => Head(destroy) \in live

(* The path of a node. *)
RECURSIVE PathOf(_)
PathOf(n) == IF n = T!Root THEN <<>> ELSE Append(PathOf(fs.node[n].parent), fs.node[n].name)

(* In a finished image, sqfs_dir_reader_find_by_path leads from the path of *)
(* every node to its inode, and the export table from every inode number to *)
(* the inode of that number.                                                *)
InodesFound ==
  phase = "success" /\ rd.state = "open" =>
    LET super == super_read(file).super
        dr == dir_reader_create(super)
        count == super.inode_count
        t == read_table(file, count, 1, super.export_table_start, 0, super.bytes_used, "none")
        number(n) == fs.node[T!Entry(fs, n)].inode_num
        export(i) == LET ref == t.table[i].ref
                     IN  read_inode(dr.meta_inode, file, super, ref.block, ref.offset, "none")
    IN  /\ \A n \in DOMAIN fs.node :
             With(find_by_path(dr, PathOf(n), file, "none"), LAMBDA f :
               f.ret = "ok" /\ f.inode.inode_number = number(n))
        /\ "exportable" \in super.flags =>
             \A i \in 1 .. count : export(i).ret = "ok" /\ export(i).inode.inode_number = i

(* Every entry of the index of a large directory leads to a header, and the *)
(* first entry behind that header has the name that the index says          *)
(* (add_header of dir_writer.c).                                            *)
IndexLeadsToHeaders ==
  phase = "success" /\ rd.state = "open" =>
    \A n \in Dirs :
      LET dr == rd.dr
          ref == InodeRef(n)
      IN  With(read_inode(dr.meta_inode, file, dr.super, ref.block, ref.offset, "none").inode, LAMBDA i :
            LET lead(e) ==
                  LET k == meta_reader_seek(dr.meta_dir, file, dr.super.directory_table_start + e.block,
                                            (i.data["offset"] + e.index) % MetaBlockSize, "none")
                      h == read_dir_header(k.m, file, "none")
                  IN  k.ret = "ok" /\ h.ret = "ok" /\ read_dir_ent(h.m, file, "none").ent.name = e.name
            IN  i.ext => \A k \in DOMAIN i.extra : lead(i.extra[k]))

(* The attributes a node was given, the last value of a key. *)
Given(line) ==
  {kv \in Range(line.xattr) :
     \E i \in DOMAIN line.xattr : line.xattr[i] = kv /\
       \A j \in i + 1 .. Len(line.xattr) : line.xattr[j].key # kv.key}

(* What the reader gets for the attributes of every line of the list. *)
LineAttributes(i) ==
  LET o == OpenImage(file)
  IN  ReadXattrs(o.xr, file, fs.node[T!NodeAt(fs, cfg.script[i].path).at].xattr_idx)

(* The attributes read through the index of an inode are those it was given *)
(* and no others, if they can be read at all.                               *)
AttributesRight ==
  phase = "success" /\ rd.state = "open" /\ ~cfg.no_xattr =>
    \A i \in DOMAIN cfg.script :
      \A r \in {LineAttributes(i)} : r.ret = "ok" => r.pairs = Given(cfg.script[i])

(* "The internal location indicator is then advanced past the key to the    *)
(* next value, so sqfs_xattr_reader_read_key can be called again": the      *)
(* attributes of every inode can be read.                                   *)
AttributesReadable ==
  phase = "success" /\ rd.state = "open" /\ ~cfg.no_xattr =>
    \A i \in DOMAIN cfg.script : LineAttributes(i).ret = "ok"

(* What a directory reader says agrees with the listing it is at. *)
Follows ==
  LET list == Listing(rd.dir)
      node == fs.node[T!Entry(fs, list[rd.pos])]
      names == {fs.node[c].name : c \in Range(list)}
  IN  rd.state = "open" /\ rd.dir # 0 =>
        CASE rd.last.is = "none"  -> TRUE
          [] rd.last.is = "error" -> FALSE
          [] rd.last.is = "end"   -> rd.pos = Len(list)
          [] rd.last.is = "found" -> rd.last.ret = IF rd.last.name \in names THEN "ok" ELSE "no_entry"
          [] rd.last.is = "entry" ->
               /\ rd.pos <= Len(list)
               /\ rd.last.name = fs.node[list[rd.pos]].name
               /\ rd.last.kind = node.mode /\ rd.last.type = node.mode
               /\ rd.last.number = node.inode_num /\ rd.last.sum = node.inode_num

(* Whatever calls of sqfs_dir_reader_open_dir, read, rewind and find came   *)
(* before, the next entry that is read is the one that follows in the       *)
(* listing of the directory, with its own inode; after going back in an     *)
(* empty directory this holds again from the next open_dir on.              *)
ListingFollowed == ~rd.lost => Follows

(* sqfs_dir_reader_rewind: "Reset a directory reader back to the beginning  *)
(* of the listing", also that of an empty directory.                        *)
RewindStays == Follows
=============================================================================
