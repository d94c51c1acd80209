------------------------------- MODULE TarTools -------------------------------
(***************************************************************************)
(* bin/sqfs2tar writes the tree of an image as an archive, bin/tar2sqfs    *)
(* makes a tree of an archive.  Here the archive of the one, or one that   *)
(* was written by another program, is the input of the other, whole or cut *)
(* off somewhere, or with a read error at its end.                         *)
(*                                                                         *)
(* A node of an image is a record with the sequence of its children.       *)
(***************************************************************************)
EXTENDS Tar

CONSTANTS
  LinkCountMod, \* see FsTree
  IdMax,
  BlockSize,    \* of data blocks
  Cases         \* what is converted, and the options

VARIABLES
  case,   \* the element of Cases
  phase,  \* "write", "open", "read", "done", "failed" or "undefined"
  todo,   \* nodes that write_tree_dfs has to visit, with their paths
  out,    \* sqfs2tar's standard output
  in,     \* tar2sqfs's standard input
  whole,  \* that input is the whole archive
  fs, step, ret, at, \* see FsTree
  data,   \* contents of the files that were packed
  attr    \* attributes of the nodes

vars == <<case, phase, todo, out, in, whole, fs, step, ret, at, data, attr>>

T == INSTANCE FsTree WITH Paths <- {}, Targets <- {}, Stats <- {}, MaxNodes <- 1000

NoRoot == <<>>

------------------------------------------------------------------------------
(* sqfs2tar *)

RECURSIVE Destroyed(_), MergeChildren(_, _), tree_merge(_, _)

(* sqfs_dir_tree_destroy *)
Destroyed(n) ==
  [n EXCEPT !.freed = TRUE, !.children = [i \in DOMAIN @ |-> Destroyed(@[i])]]

(* The children in order of their names.  When the list of the first tree   *)
(* ends, what is left of the second becomes part of it, and is destroyed    *)
(* with the second.                                                         *)
MergeChildren(lhs, rhs) ==
  IF rhs = <<>> THEN lhs
  ELSE IF lhs = <<>> THEN [i \in DOMAIN rhs |-> Destroyed(rhs[i])]
  ELSE IF lhs[1].name = rhs[1].name
       THEN <<tree_merge(lhs[1], rhs[1])>> \o MergeChildren(Tail(lhs), Tail(rhs))
  ELSE IF NameLess(lhs[1].name, rhs[1].name) THEN <<lhs[1]>> \o MergeChildren(Tail(lhs), rhs)
  ELSE <<rhs[1]>> \o MergeChildren(lhs, Tail(rhs))

tree_merge(lhs, rhs) == [lhs EXCEPT !.children = MergeChildren(@, rhs.children)]

(* What is written: the trees of all the directories that were asked for. *)
ImageTree == FoldLeft(tree_merge, Head(case.trees), Tail(case.trees))

is_filename_sane(name) == name \notin {<<>>, Dot, DotDot} /\ ~Contains(name, Slash)

RECURSIVE map_nodes(_, _, _)

(* Only what has no children can be a link; m is [first, links]. *)
map_nodes(m, n, path) ==
  IF n.children # <<>>
  THEN FoldLeft(LAMBDA a, c : map_nodes(a, c, Append(path, c.name)), m, n.children)
  ELSE IF ~is_filename_sane(n.name) THEN m
  ELSE IF n.inum \notin DOMAIN m.first THEN [m EXCEPT !.first = @ @@ (n.inum :> path)]
  ELSE IF canonicalize_name(m.first[n.inum]).ret # "ok" THEN m
  ELSE [m EXCEPT !.links = @ @@ (n.inum :> canonicalize_name(m.first[n.inum]).path)]

sqfs_tree_find_hard_links(root) ==
  map_nodes([first |-> <<>>, links |-> <<>>], root, <<>>).links

assemble_tar_path(path, is_dir) ==
  (IF case.as = NoRoot THEN path ELSE case.as \o path) \o (IF is_dir THEN <<<<>>>> ELSE <<>>)

(* Mutant: a link to itself is not told apart. *)
FindHardLinkAny(name, inum) ==
  LET links == IF case.no_links THEN <<>> ELSE sqfs_tree_find_hard_links(ImageTree)
  IN  IF inum \notin DOMAIN links THEN <<>> ELSE assemble_tar_path(links[inum], FALSE)

(* The target of a link, <<>> if this is not one. *)
find_hard_link(name, inum) ==
  LET links  == IF case.no_links THEN <<>> ELSE sqfs_tree_find_hard_links(ImageTree)
      target == assemble_tar_path(links[inum], FALSE)
  IN  IF inum \notin DOMAIN links THEN <<>> ELSE IF target = name THEN <<>> ELSE target

inode_stat(n) ==
  [mode |-> n.mode, uid |-> n.uid, gid |-> n.gid, rdev |-> n.rdev,
   size |-> CASE n.mode = "file" -> Len(n.data) [] n.mode = "slink" -> PathLen(n.target) [] OTHER -> 0]

(* Block by block; blocks of zeros are not stored. *)
sqfs_data_reader_dump(o, bytes) ==
  LET piece(i) == SubSeq(bytes, BlockSize * (i - 1) + 1, Min({BlockSize * i, Len(bytes)}))
  IN  FoldLeft(LAMBDA p, i : IF Len(piece(i)) = BlockSize /\ IsZero(piece(i)) THEN ostream_append_sparse(p, BlockSize)
                             ELSE ostream_append(p, piece(i)),
               o, [i \in 1 .. (Len(bytes) + BlockSize - 1) \div BlockSize |-> i])

Visit(n, path) == [node |-> n, path |-> path]
Below(n, path) == [i \in DOMAIN n.children |-> Visit(n.children[i], Append(path, n.children[i].name))]

Skip == /\ phase' = IF case.dont_skip THEN "failed" ELSE phase
        /\ todo' = Tail(todo)

WriteContents(n, o) ==
  IF n.mode = "file" THEN padd_file(sqfs_data_reader_dump(o, n.data), Len(n.data)) ELSE o

(* write_tree_dfs, a node at a time.  What happens when it visits a node    *)
(* that was freed is anyone's guess.                                        *)
WriteNode ==
  LET n     == todo[1].node
      path  == todo[1].path
      sb    == inode_stat(n)
      name  == assemble_tar_path(path, n.mode = "dir")
      lnk   == find_hard_link(name, n.inum)
      xattr == IF case.no_xattr THEN <<>> ELSE Reverse(n.xattr)
  IN  With(write_tar_header(out, sb, name, n.target, xattr), LAMBDA w :
        /\ phase = "write" /\ todo # <<>>
        /\ \/ /\ n.freed
              /\ phase' = "undefined"
              /\ UNCHANGED <<out, todo>>
           \/ /\ ~n.freed /\ path = <<>> /\ case.as = NoRoot
              /\ todo' = Below(n, path) \o Tail(todo)
              /\ UNCHANGED <<out, phase>>
           \/ /\ ~n.freed /\ path # <<>> /\ ~is_filename_sane(n.name)
              /\ Skip
              /\ out' = out
           \/ /\ ~n.freed /\ path # <<>> /\ is_filename_sane(n.name) /\ lnk # <<>>
              /\ out' = write_hard_link(out, sb, name, lnk)
              /\ todo' = Tail(todo)
              /\ phase' = phase
           \/ /\ ~n.freed /\ (path # <<>> \/ case.as # NoRoot)
              /\ path = <<>> \/ (is_filename_sane(n.name) /\ lnk = <<>>)
              /\ IF w.ret = 1 THEN Skip /\ out' = w.o
                 ELSE /\ out' = WriteContents(n, w.o)
                      /\ todo' = Below(n, path) \o Tail(todo)
                      /\ phase' = phase
        /\ UNCHANGED <<case, in, whole, fs, step, ret, at, data, attr>>)

(* terminate_archive and ostream_flush. *)
Terminate ==
  LET f == ostream_flush(ostream_append(out, ZeroRecord \o ZeroRecord))
  IN  /\ phase = "write" /\ todo = <<>>
      /\ out' = f.o
      /\ phase' = IF f.ret = "ok" THEN "open" ELSE "failed"
      /\ UNCHANGED <<case, todo, in, whole, fs, step, ret, at, data, attr>>

------------------------------------------------------------------------------
(* tar2sqfs *)

tar_probe(buf) ==
  \/ Len(buf) >= R /\ IsZero(SubSeq(buf, 1, R)) /\ Len(buf) > R /\ buf[R + 1].k = "hdr"
  \/ buf # <<>> /\ buf[1].k = "hdr"

(* main, until the tree is empty and there is a stream to read from; the    *)
(* archive is there up to a place where it ends or cannot be read.          *)
OpenArchive(n, end) ==
  LET s == istream_open_file(SubSeq(Sunk(out), 1, n), end)
      d == istream_detect_compressor(s, tar_probe(file_precache(s).s.buf))
  IN  /\ phase = "open"
      /\ phase' = IF d.ret = "ok" THEN "read" ELSE "failed"
      /\ in' = IF d.codec = "none" THEN d.s ELSE istream_compressor_create(d.s, d.codec)
      /\ whole' = (n = Len(Sunk(out)) /\ end = "eof")
      /\ fs' = T!fstree_init
      /\ data' = <<<<>>>> /\ attr' = <<<<>>>>
      /\ UNCHANGED <<case, todo, out, step, ret, at>>

RECURSIVE WriteRegions(_, _, _, _, _)

(* Mutant: the end of the archive ends the file. *)
RegionsEndEarly(s, o, list, offset, size) ==
  LET r == ostream_append_from_istream(o, s, size)
  IN  [ret |-> "ok", s |-> r.s, o |-> r.o]

WriteRegions(s, o, list, offset, size) ==
  LET m      == list[1]
      hole   == IF list = <<>> THEN size - offset ELSE m.offset - offset
  IN  With(ostream_append_from_istream(o, s, m.count - (offset - m.offset)), LAMBDA r :
        IF offset >= size THEN [ret |-> "ok", s |-> s, o |-> o]
        ELSE IF list = <<>> \/ hole > 0
             THEN WriteRegions(s, ostream_append_sparse(o, hole), list, offset + hole, size)
        ELSE IF offset - m.offset >= m.count THEN WriteRegions(s, o, Tail(list), offset, size)
        ELSE IF r.ret # "ok" \/ r.total = 0 THEN [ret |-> "error", s |-> r.s, o |-> r.o]
        ELSE WriteRegions(r.s, r.o, list, offset + r.total, size))


(* The regions of a sparse file are read, the others are zeros. *)
write_file(s, h) ==
  LET list == IF h.sparse = <<>> THEN <<[offset |-> 0, count |-> h.size]>> ELSE h.sparse
  IN  With(WriteRegions(s, ostream_open_file("file", FALSE), list, 0, h.size), LAMBDA w :
        LET p    == skip_padding(w.s, IF h.sparse = <<>> THEN h.size ELSE h.record_size)
        IN  [ret |-> IF w.ret # "ok" THEN w.ret ELSE p.ret, s |-> p.s, bytes |-> ostream_flush(w.o).o.data])

Supported == {"user", "trusted", "security"}

(* [ret, attr]; the last value of a key counts. *)
copy_xattr(h) ==
  LET known == SelectSeq(h.xattr, LAMBDA kv : kv.key.prefix \in Supported)
  IN  [ret |-> IF Len(known) < Len(h.xattr) /\ case.dont_skip THEN "error" ELSE "ok",
       attr |-> IF case.no_xattr THEN <<>>
                ELSE FoldLeft(LAMBDA f, kv : (kv.key :> kv.value) @@ f, <<>>, known)]

(* The new nodes have no contents and no attributes. *)
Grow(seq, t) == [i \in DOMAIN t.node |-> IF i \in DOMAIN seq THEN seq[i] ELSE <<>>]

create_node_and_repack_data(s, h) ==
  LET a == IF h.is_hard_link THEN T!fstree_add_hard_link(fs, h.name, h.link_target)
           ELSE T!fstree_add_generic(fs, h.name, h, h.link_target)
      x == copy_xattr(h)
      w == write_file(s, h)
      good == a.ret = "ok" /\ (h.is_hard_link \/ case.no_xattr \/ x.ret = "ok")
      file == good /\ h.mode = "file"
  IN  /\ fs' = a.fs
      /\ phase' = IF ~good \/ (file /\ w.ret # "ok") THEN "failed" ELSE phase
      /\ in' = IF file THEN w.s ELSE s
      /\ data' = IF file THEN [Grow(data, a.fs) EXCEPT ![a.at] = w.bytes] ELSE Grow(data, a.fs)
      /\ attr' = IF good /\ ~h.is_hard_link THEN [Grow(attr, a.fs) EXCEPT ![a.at] = x.attr]
                 ELSE Grow(attr, a.fs)

set_root_attribs(h) ==
  LET x    == copy_xattr(h)
      good == h.mode = "dir" /\ (case.no_xattr \/ x.ret = "ok")
  IN  /\ fs' = IF h.mode = "dir" THEN [fs EXCEPT !.node[1].uid = h.uid, !.node[1].gid = h.gid] ELSE fs
      /\ attr' = IF good THEN [attr EXCEPT ![1] = x.attr] ELSE attr
      /\ phase' = IF good THEN phase ELSE "failed"
      /\ data' = data

(* A target below the directory that becomes the root, from there. *)
Retarget(h) ==
  LET c == canonicalize_name(h.link_target)
  IN  IF /\ case.from # NoRoot /\ h.linked /\ (h.is_hard_link \/ ~case.no_retarget)
         /\ c.ret = "ok" /\ IsStrictPrefix(case.from, c.path)
      THEN [h EXCEPT !.link_target = <<<<>>>> \o SubSeq(c.path, Len(case.from) + 1, Len(c.path))]
      ELSE h

BrokenSparse(h) ==
  LET total == FoldLeft(LAMBDA n, m : n + m.count, 0, h.sparse)
  IN  /\ h.sparse # <<>>
      /\ \/ total # h.record_size
         \/ \E i \in 2 .. Len(h.sparse) : h.sparse[i].offset < h.sparse[i - 1].offset + h.sparse[i - 1].count

(* Skipping goes by the size of the file. *)
SkipEntry(s, h) ==
  LET k == skip_entry(s, h.size)
  IN  /\ in' = k.s
      /\ phase' = IF k.ret = "ok" THEN phase ELSE "failed"
      /\ UNCHANGED <<fs, data, attr>>

(* process_tarball, a header at a time. *)
ProcessHeader ==
  With(read_header(in), LAMBDA r :
    LET c    == canonicalize_name(r.out.name)
        base == IF case.from # NoRoot /\ IsPrefix(case.from, c.path) THEN Len(case.from) ELSE 0
        h    == [Retarget(r.out) EXCEPT !.name = SubSeq(c.path, base + 1, Len(c.path))]
        is_prefixed == case.from = NoRoot \/ IsPrefix(case.from, c.path)
        is_root == c.ret = "ok" /\ c.path = case.from
        skip == c.ret # "ok" \/ h.unknown_record \/ BrokenSparse(h)
    IN  /\ phase = "read"
        /\ \/ /\ r.ret = "eof"
              /\ phase' = "done"
              /\ in' = r.s
              /\ UNCHANGED <<fs, data, attr>>
           \/ /\ r.ret \notin {"ok", "eof"}
              /\ phase' = "failed"
              /\ in' = r.s
              /\ UNCHANGED <<fs, data, attr>>
           \/ /\ r.ret = "ok" /\ c.ret = "ok" /\ ~is_prefixed
              /\ SkipEntry(r.s, h)
           \/ /\ r.ret = "ok" /\ is_root
              /\ set_root_attribs(h)
              /\ in' = r.s
           \/ /\ r.ret = "ok" /\ (c.ret # "ok" \/ (is_prefixed /\ ~is_root)) /\ skip /\ case.dont_skip
              /\ phase' = "failed"
              /\ in' = r.s
              /\ UNCHANGED <<fs, data, attr>>
           \/ /\ r.ret = "ok" /\ (c.ret # "ok" \/ (is_prefixed /\ ~is_root)) /\ skip /\ ~case.dont_skip
              /\ SkipEntry(r.s, h)
           \/ /\ r.ret = "ok" /\ c.ret = "ok" /\ is_prefixed /\ ~is_root /\ ~skip
              /\ create_node_and_repack_data(r.s, h)
        /\ UNCHANGED <<case, todo, out, whole, step, ret, at>>)

Finished == phase \in {"done", "failed", "undefined"} /\ UNCHANGED vars

Init ==
  /\ case \in Cases
  /\ phase = IF case.foreign = <<>> THEN "write" ELSE "open"
  /\ todo = IF case.foreign = <<>> THEN <<Visit(ImageTree, <<>>)>> ELSE <<>>
  /\ out = LET o == ostream_open_file("file", FALSE)
           IN  IF case.foreign # <<>> THEN ostream_append(o, case.foreign)
               ELSE IF case.codec = "none" THEN o ELSE ostream_compressor_create(o, case.codec)
  /\ in = <<>> /\ whole = FALSE /\ fs = <<>> /\ step = "build" /\ ret = "ok" /\ at = <<>>
  /\ data = <<>> /\ attr = <<>>

Next ==
  \/ WriteNode
  \/ Terminate
  \/ \E n \in 0 .. Len(Sunk(out)), end \in {"eof", "error"} : OpenArchive(n, end)
  \/ ProcessHeader
  \/ Finished

Spec == Init /\ [][Next]_vars

------------------------------------------------------------------------------
(* What is in an image, and in the tree that was made. *)

Thing(path, mode, uid, gid, rdev, target, bytes, xattr) ==
  [path |-> path, mode |-> mode, uid |-> uid, gid |-> gid,
   rdev |-> IF mode \in {"bdev", "cdev"} THEN rdev ELSE 0,
   target |-> IF mode = "slink" THEN target ELSE <<>>,
   data |-> IF mode = "file" THEN bytes ELSE <<>>, xattr |-> xattr]

RECURSIVE Things(_, _)

Things(n, path) ==
  LET pairs == IF case.no_xattr THEN <<>> ELSE n.xattr
      attrs == [k \in {pairs[i].key : i \in DOMAIN pairs} |->
                  pairs[CHOOSE i \in DOMAIN pairs : pairs[i].key = k].value]
  IN  IF n.mode = "sock" \/ (path # <<>> /\ ~is_filename_sane(n.name)) THEN {}
      ELSE {Thing(path, n.mode, n.uid, n.gid, n.rdev, n.target, n.data, attrs)}
           \cup UNION {Things(n.children[i], Append(path, n.children[i].name)) : i \in DOMAIN n.children}

PathTo(i) ==
  LET up[j \in DOMAIN fs.node] == IF j = 1 THEN <<>> ELSE Append(up[fs.node[j].parent], fs.node[j].name)
  IN  up[i]

Packed ==
  {LET f == T!Follow(fs, i)
       n == fs.node[f.at]
   IN  IF f.ret # "ok" THEN Thing(PathTo(i), "broken", 0, 0, 0, <<>>, <<>>, <<>>)
       ELSE Thing(PathTo(i), n.mode, n.uid, n.gid, n.devno, n.target, data[f.at], attr[f.at]) :
     i \in DOMAIN fs.node}

(* Without an entry for the root, its attributes are not kept. *)
Compared(things) == IF case.from = NoRoot THEN {t \in things : t.path # <<>>} ELSE things

(* An archive that sqfs2tar made of an image is accepted by tar2sqfs, and   *)
(* gives the same tree: owners, devices, targets, contents, attributes and  *)
(* hard links, whatever had to be put into headers of their own.            *)
RoundTrip ==
  whole /\ case.foreign = <<>> /\ ~case.dont_skip /\ phase \in {"done", "failed"} =>
    phase = "done" /\ Compared(Packed) = Compared(Things(ImageTree, <<>>))

(* When the archive is cut off or cannot be read to its end, what tar2sqfs  *)
(* packs and reports as a success has no file that is shorter than it was.  *)
(* After a read error it has every file.                                    *)
NoPartialFiles ==
  phase = "done" /\ case.foreign = <<>> =>
    LET all == Compared(Things(ImageTree, <<>>))
        end == IF "end" \in DOMAIN in THEN in.end ELSE in.wrapped.end
    IN  {t \in Packed : t.path # <<>>} \subseteq all /\ (end = "error" => Compared(Packed) = all)

(* Archives of other programs are read for what they mean: names in the     *)
(* prefix field or in PAX headers, global headers, numbers too large for a  *)
(* header, and the four ways to store a sparse file.                        *)
ForeignRead ==
  whole /\ case.foreign # <<>> /\ phase \in {"done", "failed"} =>
    phase = "done" /\ Compared(Packed) = case.expect

(* sqfs2tar never visits a node that it has freed, whatever directories     *)
(* were asked for with --subdir.                                            *)
OnlyLiveNodes == phase # "undefined"
=============================================================================
