----------------------------- MODULE ImageWriter -----------------------------
(***************************************************************************)
(* How gensquashfs and tar2sqfs make an image: lib/common/writer and the   *)
(* main functions that use it.  sqfs_writer_init creates the parts one     *)
(* after the other, the tree is built and the files are packed,            *)
(* sqfs_writer_finish writes inodes, directories and tables behind the     *)
(* data and the super block at last, and sqfs_writer_cleanup takes         *)
(* everything down.  Any of it may fail.                                   *)
(***************************************************************************)
EXTENDS ReadTree, Xattr

CONSTANTS
  LinkCountMod, IdMax,  \* of the tree, see FsTree
  Configs,      \* what may be asked for
  FileInodes,   \* inodes that packing a file may give
  FragTables,   \* fragment tables that packing the files may give
  DataCells,    \* cells of file data in front of the meta data
  MaxFaults     \* bound on the failures of a behaviour

ASSUME ImageWriterAssumption == DataCells \in Nat /\ MaxFaults \in Nat

VARIABLES
  fs, step, ret, at,  \* the tree
  phase,              \* where main is
  cfg,                \* what was asked for
  live,               \* the parts that exist
  destroy,            \* the parts still to be destroyed, in order
  out,                \* the output file: "none", "foreign", "there" or "removed"
  file,               \* its cells
  wr,                 \* the parts' own state
  faults              \* failures left

tree == <<fs, step, ret, at>>
vars == <<fs, step, ret, at, phase, cfg, live, destroy, out, file, wr, faults>>

T == INSTANCE FsTree WITH Paths <- {}, Targets <- {}, Stats <- {}, MaxNodes <- 1000

(* What is asked for: the list of files, the options, and whether there is  *)
(* a file of that name.                                                     *)
ASSUME ConfigsAssumption ==
  \A c \in Configs : /\ c.exportable \in BOOLEAN /\ c.no_xattr \in BOOLEAN
                     /\ c.overwrite \in BOOLEAN /\ c.exists \in BOOLEAN

(* sqfs_writer_init creates the parts in this order; "super" is the step    *)
(* that writes the first super block and the compressor options.            *)
Parts == <<"outfile", "fs", "cmp", "super", "blkwr", "fragtbl", "data", "idtbl", "xwr", "im",
           "dm", "dirwr">>

(* The labels of sqfs_writer_init, each falls through to the next. *)
Labels == <<"dm", "im", "xwr", "idtbl", "data", "fragtbl", "blkwr", "cmp", "fs", "outfile">>

(* Mutant: the block processor fails to the label one too late. *)
FailLabelSkips ==
  [outfile |-> "return", fs |-> "outfile", cmp |-> "fs", super |-> "cmp", blkwr |-> "cmp",
   fragtbl |-> "blkwr", data |-> "blkwr", idtbl |-> "data", xwr |-> "idtbl", im |-> "xwr",
   dm |-> "im", dirwr |-> "dm"]

(* The label that a failing step jumps to, and "return" for the first. *)
FailLabel ==
  [outfile |-> "return", fs |-> "outfile", cmp |-> "fs", super |-> "cmp", blkwr |-> "cmp",
   fragtbl |-> "blkwr", data |-> "fragtbl", idtbl |-> "data", xwr |-> "idtbl", im |-> "xwr",
   dm |-> "im", dirwr |-> "dm"]

From(label) ==
  IF label = "return" THEN <<>>
  ELSE SubSeq(Labels, CHOOSE i \in DOMAIN Labels : Labels[i] = label, Len(Labels))

(* sqfs->xwr != NULL *)
Guarded(parts) == SelectSeq(parts, LAMBDA p : p # "xwr" \/ ~cfg.no_xattr)

(* sqfs_writer_cleanup *)
CleanupOrder ==
  Guarded(<<"xwr", "dirwr", "dm", "im", "idtbl", "data", "blkwr", "fragtbl", "cmp", "fs",
            "outfile">>)

Fresh ==
  [super |-> super_init(TRUE), ids |-> <<>>, frags |-> <<>>, xwr |-> xattr_writer_create,
   next |-> 1, im |-> meta_writer_create(FALSE), dm |-> meta_writer_create(TRUE),
   dirwr |-> dir_writer_create(FALSE),
   inode |-> <<>>,   \* user_ptr of the files
   iref |-> <<>>]    \* inode_ref of the inodes written so far

(* What happens to the writes of a step: all go well, or one fails. *)
Fates == {<<>>} \cup (IF faults > 0 THEN {<<"io">>, <<"compress">>, <<"ok", "io">>} ELSE {})

Spend(fates) == faults' = IF fates = <<>> THEN faults ELSE faults - 1

GiveUp == phase' = "cleanup_failure" /\ destroy' = CleanupOrder

------------------------------------------------------------------------------
(* init.c *)

(* Mutant: a file that is there is always truncated. *)
CreateOverwrites ==
  LET part  == Parts[wr.next]
  IN  /\ phase = "init"
      /\ live' = live \cup {part}
      /\ out' = IF part = "outfile" THEN "there" ELSE out
      /\ wr' = [wr EXCEPT !.next = IF wr.next = Len(Parts) THEN 1 ELSE @ + 1]
      /\ phase' = IF wr.next = Len(Parts) THEN "tree" ELSE "init"
      /\ UNCHANGED <<tree, cfg, destroy, faults, file>>

(* The next part.  A file that is there is truncated or not opened at all. *)
CreatePart ==
  LET part  == Parts[wr.next]
      super == [wr.super EXCEPT !.flags = @ \cup {"compressor_options"}]
  IN  /\ phase = "init"
      /\ part = "outfile" => out = "none" \/ cfg.overwrite
      /\ live' = IF part = "super" \/ (part = "xwr" /\ cfg.no_xattr) THEN live
                 ELSE live \cup {part}
      /\ out' = IF part = "outfile" THEN "there" ELSE out
      /\ file' = IF part = "super"
                 THEN super_write(wr.super, file) \o meta_block(Pack([options |-> TRUE], 1))
                 ELSE file
      /\ wr' = [wr EXCEPT !.next = IF wr.next = Len(Parts) THEN 1 ELSE @ + 1,
                          !.super = IF part = "super" THEN super ELSE @,
                          !.dirwr = IF part = "dirwr" THEN dir_writer_create(cfg.exportable) ELSE @]
      /\ phase' = IF wr.next = Len(Parts) THEN "tree" ELSE "init"
      /\ UNCHANGED <<tree, cfg, destroy, faults>>

(* A part that cannot be created: what is there is destroyed again, and the *)
(* file stays.  The step of the super block may fail before or after it.    *)
CreateFails ==
  LET part == Parts[wr.next]
      full == part = "outfile" /\ out = "foreign" /\ ~cfg.overwrite
  IN  /\ phase = "init"
      /\ (faults > 0 /\ (part = "xwr" => ~cfg.no_xattr)) \/ full
      /\ faults' = IF full THEN faults ELSE faults - 1
      /\ phase' = "unwind"
      /\ destroy' = Guarded(From(FailLabel[part]))
      /\ file' \in {file} \cup (IF part = "super" THEN {super_write(wr.super, file)} ELSE {})
      /\ UNCHANGED <<tree, cfg, live, out, wr>>

------------------------------------------------------------------------------
(* The list of files, and the attributes of each, see fstree_from_file and  *)
(* copy_xattr of tar2sqfs.                                                  *)

AddPair(r, kv) == IF r.ret = "ok" THEN xattr_writer_add(r.x, kv.key, kv.value, "none") ELSE r

copy_xattr(x, pairs) ==
  With(FoldLeft(AddPair, [ret |-> "ok", x |-> xattr_writer_begin(x)], pairs), LAMBDA a :
    LET e == xattr_writer_end(a.x, "none")
    IN  IF a.ret # "ok" THEN [ret |-> a.ret, x |-> a.x, index |-> 0] ELSE e)

ReadLine ==
  LET line == cfg.script[wr.next]
  IN  With(T!handle_line(fs, line), LAMBDA r :
        With(copy_xattr(wr.xwr, line.xattr), LAMBDA x :
          LET ok   == r.ret = "ok" /\ (cfg.no_xattr \/ x.ret = "ok")
          IN  /\ phase = "tree"
              /\ step = "build"
              /\ wr.next <= Len(cfg.script)
              /\ fs' = IF ok /\ ~cfg.no_xattr THEN [r.fs EXCEPT !.node[r.at].xattr_idx = x.index] ELSE r.fs
              /\ wr' = IF ok THEN [wr EXCEPT !.next = @ + 1, !.xwr = IF cfg.no_xattr THEN @ ELSE x.x] ELSE wr
              /\ IF ok THEN UNCHANGED <<phase, destroy>> ELSE GiveUp
              /\ UNCHANGED <<step, ret, at, cfg, live, out, file, faults>>))

PostProcess ==
  /\ phase = "tree"
  /\ wr.next > Len(cfg.script)
  /\ T!PostProcess
  /\ UNCHANGED <<phase, cfg, live, destroy, out, file, wr, faults>>

PostProcessFails ==
  /\ phase = "tree"
  /\ step = "failed"
  /\ GiveUp
  /\ UNCHANGED <<tree, cfg, live, out, file, wr, faults>>

(* pack_files and sqfs_block_processor_finish: every file gets an inode; the *)
(* blocks of the files are in the image.                                     *)
PackFiles ==
  /\ phase = "tree"
  /\ step = "done"
  /\ \E inode \in FileInodes, frags \in FragTables :
       wr' = [wr EXCEPT !.inode = [n \in Range(fs.files) |-> inode], !.frags = frags, !.next = 1,
                        !.super.inode_table_start = Len(file) + DataCells,
                        !.super.inode_count = Len(fs.inodes)]
  /\ file' = file \o Pack([data |-> TRUE], DataCells)
  /\ phase' = "inodes"
  /\ UNCHANGED <<tree, cfg, live, destroy, out, faults>>

PackFails ==
  /\ phase = "tree"
  /\ step = "done"
  /\ faults > 0
  /\ faults' = faults - 1
  /\ GiveUp
  /\ UNCHANGED <<tree, cfg, live, out, file, wr>>

------------------------------------------------------------------------------
(* serialize_fstree.c *)

(* 0: not written yet. *)
InodeRef(n) == IF n \in DOMAIN wr.iref THEN wr.iref[n] ELSE [block |-> 0, offset |-> 0]

tree_node_to_inode(n) ==
  LET node == fs.node[n]
      zero == ZeroInode(node.mode)
      link == [zero EXCEPT !.data["nlink"] = node.link_count]
      name == FlattenSeq(node.target)
  IN  IF node.mode = "slink"
      THEN [link EXCEPT !.data["target_size"] = Len(name), !.extra = name]
      ELSE IF node.mode \in Devices THEN [link EXCEPT !.data["devno"] = node.devno]
      ELSE link

AddEntry(d, c) ==
  LET tgt == T!Entry(fs, c)
  IN  IF d.ret # "ok" THEN d
      ELSE dir_writer_add_entry(d.w, fs.node[c].name, fs.node[tgt].inode_num, InodeRef(tgt),
                                fs.node[tgt].mode)

write_dir_entries(n, fates) ==
  LET added == FoldLeft(AddEntry, [ret |-> "ok", w |-> dir_writer_begin(wr.dirwr, wr.dm)],
                        fs.node[n].children)
  IN  With(dir_writer_end(added.w, Calling(wr.dm, <<>>, fates)), LAMBDA ended :
        LET parent == IF n = T!Root THEN 0 ELSE fs.node[fs.node[n].parent].inode_num
            inode == dir_writer_create_inode(ended.w, 0, fs.node[n].xattr_idx, parent)
        IN  IF added.ret # "ok"
            THEN [ret |-> "error", dm |-> wr.dm, w |-> added.w, fates |-> fates, inode |-> Garbage]
            ELSE [ret |-> ended.s.ret, dm |-> ended.s.m, w |-> ended.w, fates |-> ended.s.fates,
                  inode |-> [inode EXCEPT !.data["nlink"] = fs.node[n].link_count]])

(* The inode of a file was made when it was packed. *)
FileInode(n) ==
  LET i == wr.inode[n]
      j == IF ~i.ext /\ fs.node[n].link_count > 1 THEN make_extended(i) ELSE i
  IN  [j EXCEPT !.data["nlink"] = fs.node[n].link_count]

(* Owner, location and inode of a node, when its body is there. *)
StoreInode(n, inode, dm, dirwr, fates) ==
  LET u == id_to_index(wr.ids, fs.node[n].uid)
      g == id_to_index(u.ids, fs.node[n].gid)
      i == [set_xattr_index(inode, fs.node[n].xattr_idx) EXCEPT
              !.fmt = fs.node[n].mode, !.inode_number = fs.node[n].inode_num,
              !.uid_idx = u.index, !.gid_idx = g.index]
      w == write_inode(Calling(wr.im, file, fates), i)
  IN  IF u.ret # "ok" \/ g.ret # "ok" THEN [ret |-> "error", file |-> file, wr |-> wr]
      ELSE [ret |-> w.ret, file |-> w.file,
            wr |-> [wr EXCEPT !.ids = g.ids, !.im = w.m, !.dm = dm, !.dirwr = dirwr,
                              !.next = @ + 1, !.iref = (n :> get_position(wr.im)) @@ @]]

serialize_tree_node(n, fates) ==
  With(write_dir_entries(n, fates), LAMBDA d :
    IF fs.node[n].mode = "dir"
    THEN IF d.ret # "ok" THEN [ret |-> d.ret, file |-> file, wr |-> wr]
         ELSE StoreInode(n, d.inode, d.dm, d.w, d.fates)
    ELSE StoreInode(n, IF fs.node[n].mode = "file" THEN FileInode(n) ELSE tree_node_to_inode(n),
                    wr.dm, wr.dirwr, fates))

(* A step goes on with the next, or main goes to the clean up. *)
Proceed(r, then) ==
  /\ file' = r.file
  /\ wr' = r.wr
  /\ IF r.ret = "ok" THEN phase' = then /\ UNCHANGED destroy ELSE GiveUp
  /\ UNCHANGED <<tree, cfg, live, out>>

SerializeNode ==
  /\ phase = "inodes"
  /\ wr.next <= Len(fs.inodes)
  /\ \E fates \in Fates :
       /\ Spend(fates)
       /\ Proceed(serialize_tree_node(fs.inodes[wr.next], fates), "inodes")

(* The last blocks of inodes and directories, and the directories behind. *)
FlushTables(fates, failing) ==
  LET i == meta_writer_flush(Calling(wr.im, file, fates))
      d == meta_writer_flush(Calling(wr.dm, i.file, i.fates))
      w == write_to_file(d, failing)
      super == [wr.super EXCEPT !.root_inode_ref = InodeRef(T!Root),
                                !.directory_table_start = Len(d.file)]
      done(s, sup) == [ret |-> s.ret, file |-> s.file,
                       wr |-> [wr EXCEPT !.im = i.m, !.dm = s.m, !.super = sup]]
  IN  IF i.ret # "ok" THEN [ret |-> i.ret, file |-> i.file, wr |-> [wr EXCEPT !.im = i.m]]
      ELSE IF d.ret # "ok" THEN done(d, wr.super)
      ELSE done(w, super)

SerializeEnd ==
  /\ phase = "inodes"
  /\ wr.next > Len(fs.inodes)
  /\ \E fates \in Fates, failing \in {0, 1} :
       /\ failing = 0 \/ (faults > 0 /\ fates = <<>>)
       /\ faults' = IF fates # <<>> \/ failing # 0 THEN faults - 1 ELSE faults
       /\ Proceed(FlushTables(fates, failing), "fragments")

------------------------------------------------------------------------------
(* finish.c *)

(* A table: what was written, and what the super block says of it now. *)
Table(r) == [ret |-> r.ret, file |-> r.file, wr |-> [wr EXCEPT !.super = r.super]]

WriteFragmentTable ==
  /\ phase = "fragments"
  /\ \E fates \in Fates :
       /\ Spend(fates)
       /\ Proceed(Table(frag_table_write(wr.frags, file, wr.super, fates)),
                  IF cfg.exportable THEN "export" ELSE "ids")

WriteExportTable ==
  /\ phase = "export"
  /\ \E fates \in Fates :
       /\ Spend(fates)
       /\ Proceed(Table(write_export_table(wr.dirwr, fs.node[T!Root].inode_num, InodeRef(T!Root),
                                           file, wr.super, fates)), "ids")

WriteIdTable ==
  /\ phase = "ids"
  /\ \E fates \in Fates :
       /\ Spend(fates)
       /\ Proceed(Table(id_table_write(wr.ids, file, wr.super, fates)),
                  IF cfg.no_xattr THEN "super" ELSE "xattr")

WriteXattr ==
  /\ phase = "xattr"
  /\ \E fates \in Fates :
       /\ Spend(fates)
       /\ Proceed(Table(xattr_writer_flush(wr.xwr, file, wr.super, fates)), "super")

(* The super block is written over the first one. *)
WriteSuper ==
  LET super == [wr.super EXCEPT !.bytes_used = Len(file)]
  IN  /\ phase = "super"
      /\ \/ /\ Proceed([ret |-> "ok", file |-> super_write(super, file),
                        wr |-> [wr EXCEPT !.super = super]], "padding")
            /\ UNCHANGED faults
         \/ /\ faults > 0
            /\ faults' = faults - 1
            /\ Proceed([ret |-> "error", file |-> file, wr |-> wr], "padding")

(* padd_sqfs appends zeros. *)
Padding ==
  /\ phase = "padding"
  /\ \/ /\ phase' = "cleanup_success"
        /\ destroy' = CleanupOrder
        /\ file' = file \o Pack([zeros |-> TRUE], 1)
        /\ UNCHANGED faults
     \/ /\ faults > 0
        /\ faults' = faults - 1
        /\ GiveUp
        /\ file' = file
  /\ UNCHANGED <<tree, cfg, live, out, wr>>

------------------------------------------------------------------------------
(* cleanup.c *)

DestroyPart ==
  /\ phase \in {"unwind", "cleanup_success", "cleanup_failure"}
  /\ destroy # <<>>
  /\ live' = live \ {Head(destroy)}
  /\ destroy' = Tail(destroy)
  /\ UNCHANGED <<tree, phase, cfg, out, file, wr, faults>>

(* Mutant: the file is left where it is. *)
ExitKeepsFile ==
  /\ phase \in {"unwind", "cleanup_success", "cleanup_failure"}
  /\ destroy = <<>>
  /\ phase' = CASE phase = "unwind" -> "init_failed"
                [] phase = "cleanup_success" -> "success"
                [] OTHER -> "failure"
  /\ UNCHANGED <<tree, cfg, live, destroy, out, file, wr, faults>>

(* Only sqfs_writer_cleanup removes the output file. *)
Exit ==
  /\ phase \in {"unwind", "cleanup_success", "cleanup_failure"}
  /\ destroy = <<>>
  /\ phase' = CASE phase = "unwind" -> "init_failed"
                [] phase = "cleanup_success" -> "success"
                [] OTHER -> "failure"
  /\ out' = IF phase = "cleanup_failure" THEN "removed" ELSE out
  /\ UNCHANGED <<tree, cfg, live, destroy, file, wr, faults>>

Ended == phase \in {"init_failed", "success", "failure"}

Init ==
  /\ T!Init
  /\ phase = "init"
  /\ cfg \in Configs
  /\ live = {}
  /\ destroy = <<>>
  /\ out = IF cfg.exists THEN "foreign" ELSE "none"
  /\ file = <<>>
  /\ wr = Fresh
  /\ faults = MaxFaults

Next ==
  \/ CreatePart \/ CreateFails
  \/ ReadLine \/ PostProcess \/ PostProcessFails \/ PackFiles \/ PackFails
  \/ SerializeNode \/ SerializeEnd
  \/ WriteFragmentTable \/ WriteExportTable \/ WriteIdTable \/ WriteXattr
  \/ WriteSuper \/ Padding
  \/ DestroyPart \/ Exit
=============================================================================
