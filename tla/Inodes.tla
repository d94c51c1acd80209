-------------------------------- MODULE Inodes --------------------------------
(***************************************************************************)
(* Inodes: the conversions between basic and extended types of             *)
(* lib/sqfs/inode.c, and how lib/sqfs/write_inode.c and read_inode.c store *)
(* an inode in a stream of meta data blocks and get it back.               *)
(*                                                                         *)
(* The union of an inode is a function on all the fields its kind ever     *)
(* has; BasicFields and ExtFields are the ones that a type stores.         *)
(***************************************************************************)
EXTENDS MetaStream

CONSTANTS
  DirSizeMax,   \* 0xFFFF: the size field of a basic directory
  FileSizeMax,  \* 0xFFFFFFFF: the size and location fields of a basic file
  BlockSize     \* the block size of the image

ASSUME InodesAssumption ==
  DirSizeMax \in Nat /\ FileSizeMax \in Nat /\ BlockSize \in Nat \ {0}

Devices == {"bdev", "cdev"}
Ipc == {"fifo", "sock"}
Kinds == {"dir", "file", "slink"} \cup Devices \cup Ipc

BasicFields(kind) ==
  CASE kind = "dir"     -> {"start_block", "nlink", "size", "offset", "parent_inode"}
    [] kind = "file"    -> {"blocks_start", "file_size", "fragment_idx", "fragment_offset"}
    [] kind = "slink"   -> {"nlink", "target_size"}
    [] kind \in Devices -> {"nlink", "devno"}
    [] kind \in Ipc     -> {"nlink"}

ExtFields(kind) ==
  BasicFields(kind) \cup
  CASE kind = "dir"  -> {"inodex_count", "xattr_idx"}
    [] kind = "file" -> {"sparse", "nlink", "xattr_idx"}
    [] OTHER         -> {"xattr_idx"}

Fields(inode) == IF inode.ext THEN ExtFields(inode.kind) ELSE BasicFields(inode.kind)

(* calloc: everything is zero. *)
ZeroInode(kind) ==
  [kind |-> kind, ext |-> FALSE, fmt |-> kind, perm |-> 0, uid_idx |-> 0, gid_idx |-> 0,
   mod_time |-> 0, inode_number |-> 0, data |-> [f \in ExtFields(kind) |-> 0], extra |-> <<>>]

------------------------------------------------------------------------------
(* lib/sqfs/inode.c *)

get_xattr_index(inode) == IF inode.ext THEN inode.data["xattr_idx"] ELSE NoIndex

(* The branch for pipes and sockets writes to dev_ext, not to ipc_ext. *)
make_extended(inode) ==
  LET fresh == IF inode.kind = "dir"
               THEN [inode.data EXCEPT !["inodex_count"] = 0, !["xattr_idx"] = NoIndex]
               ELSE IF inode.kind = "file"
               THEN [inode.data EXCEPT !["sparse"] = 0, !["nlink"] = 1, !["xattr_idx"] = NoIndex]
               ELSE IF inode.kind \in Ipc THEN inode.data
               ELSE [inode.data EXCEPT !["xattr_idx"] = NoIndex]
  IN  IF inode.ext THEN inode ELSE [inode EXCEPT !.ext = TRUE, !.data = fresh]

(* What the basic type has no room for. *)
NeedsExtended(inode) ==
  \/ get_xattr_index(inode) # NoIndex
  \/ inode.kind = "dir" /\ inode.data["size"] > DirSizeMax
  \/ inode.kind = "file" /\ \/ inode.data["blocks_start"] > FileSizeMax
                            \/ inode.data["file_size"] > FileSizeMax
                            \/ inode.data["sparse"] > 0
                            \/ inode.data["nlink"] > 1

make_basic(inode) ==
  IF inode.ext /\ ~NeedsExtended(inode) THEN [inode EXCEPT !.ext = FALSE] ELSE inode

set_xattr_index(inode, index) ==
  LET i == IF index # NoIndex THEN make_extended(inode) ELSE inode
      j == IF i.ext THEN [i EXCEPT !.data["xattr_idx"] = index] ELSE i
  IN  IF index = NoIndex THEN make_basic(j) ELSE j

(* set_file_size and set_file_block_start differ in the field only. *)
SetWide(inode, field, value) ==
  LET wide == [inode EXCEPT !.data[field] = value]
  IN  IF inode.ext THEN IF value < FileSizeMax THEN make_basic(wide) ELSE wide
      ELSE IF value > FileSizeMax THEN [make_extended(inode) EXCEPT !.data[field] = value]
      ELSE wide

set_file_size(inode, size) == SetWide(inode, "file_size", size)

set_file_block_start(inode, location) == SetWide(inode, "blocks_start", location)

set_frag_location(inode, index, offset) ==
  [inode EXCEPT !.data["fragment_idx"] = index, !.data["fragment_offset"] = offset]

------------------------------------------------------------------------------
(* lib/sqfs/write_inode.c *)

BaseCells == 2
BodyCells(kind, ext) == IF ext /\ kind \in {"dir", "file"} THEN 2 ELSE 1

(* The type is stored apart from the mode, and only the permissions of it. *)
BaseOf(n) ==
  [kind |-> n.kind, ext |-> n.ext, perm |-> n.perm, uid_idx |-> n.uid_idx,
   gid_idx |-> n.gid_idx, mod_time |-> n.mod_time, inode_number |-> n.inode_number]

(* A symbolic link stores its xattr index behind the target. *)
BodyOf(n) ==
  LET stored == IF n.kind = "slink" THEN BasicFields("slink") ELSE Fields(n)
      width(f) == IF n.ext THEN n.data[f]
                  ELSE IF f = "size" THEN n.data[f] % (DirSizeMax + 1)
                  ELSE IF f \in {"blocks_start", "file_size"} THEN n.data[f] % (FileSizeMax + 1)
                  ELSE n.data[f]
  IN  [body |-> [f \in stored |-> width(f)]]

write_block_sizes(n) == [i \in DOMAIN n.extra |-> [part |-> 1, of |-> [block |-> n.extra[i]]]]

(* sqfs_dir_index_t; ent.name_len is what the size field gives, plus one. *)
IndexEntryOf(ent) == [start_block |-> ent.block, index |-> ent.index, name_len |-> Len(ent.name)]

write_dir_index(n) ==
  FlattenSeq([i \in DOMAIN n.extra |->
               Pack(IndexEntryOf(n.extra[i]), 1) \o NameCells(n.extra[i].name)])

ExtraOf(n) ==
  CASE n.kind = "file"           -> write_block_sizes(n)
    [] n.kind = "dir" /\ n.ext   -> write_dir_index(n)
    [] n.kind = "slink"          -> NameCells(n.extra) \o
                                    (IF n.ext THEN Pack([xattr |-> n.data["xattr_idx"]], 1)
                                     ELSE <<>>)
    [] OTHER                     -> <<>>

write_inode(s, n) ==
  meta_writer_append(s, Pack(BaseOf(n), BaseCells)
                        \o Pack(BodyOf(n), BodyCells(n.kind, n.ext))
                        \o ExtraOf(n))

------------------------------------------------------------------------------
(* lib/sqfs/read_inode.c; r is a read in progress, an error ends it. *)

Then(r, size) ==
  IF r.ret = "ok" THEN meta_reader_read(r.m, r.file, size, r.fault) ELSE r

get_block_count(size, frag_index, frag_offset) ==
  size \div BlockSize +
    (IF size % BlockSize # 0 /\ (frag_index = NoIndex \/ frag_offset = NoIndex) THEN 1 ELSE 0)

(* The entries of a directory index, one after the other. *)
ReadIndexEntry(r, i) ==
  With(Then(r.at, 1), LAMBDA e :
    LET ent == Unpack(e.out)
        n == IF e.ret = "ok" THEN Then(e, ent.name_len) ELSE e
    IN  IF n.ret # "ok" THEN [r EXCEPT !.at = n]
        ELSE [at |-> n,
              index |-> Append(r.index, [block |-> ent.start_block, index |-> ent.index,
                                         name |-> CellsName(n.out)])])

read_dir_index(r, data) ==
  FoldLeft(ReadIndexEntry, [at |-> r, index |-> <<>>],
           [i \in 1 .. (IF data["size"] = 0 THEN 0 ELSE data["inodex_count"]) |-> i])

(* set_mode puts the kind of file back into the mode. *)
FromDisk(base, body, extra) ==
  LET zero == ZeroInode(base.kind)
  IN  [zero EXCEPT !.ext = base.ext, !.fmt = base.kind, !.perm = base.perm,
                   !.uid_idx = base.uid_idx, !.gid_idx = base.gid_idx,
                   !.mod_time = base.mod_time, !.inode_number = base.inode_number,
                   !.data = [f \in DOMAIN @ |-> IF f \in DOMAIN body THEN body[f] ELSE @[f]],
                   !.extra = extra]

read_inode(m, file, super, block_start, offset, fault) ==
  LET k    == meta_reader_seek(m, file, block_start + super.inode_table_start, offset, fault)
      r0   == [m |-> k.m, file |-> file, fault |-> fault, ret |-> k.ret, out |-> <<>>]
  IN  With(Then(r0, BaseCells), LAMBDA r1 :
        LET base == Unpack(r1.out)
        IN  With(Then(r1, BodyCells(base.kind, base.ext)), LAMBDA r2 :
              LET data == Unpack(r2.out).body
                  blk  == Then(r2, get_block_count(data["file_size"], data["fragment_idx"],
                                                   data["fragment_offset"]))
                  lnk  == Then(r2, data["target_size"])
                  xat  == Then(lnk, 1)
              IN  With(read_dir_index(r2, data), LAMBDA idx :
                    LET result(r, inode) == [m |-> r.m, ret |-> r.ret, inode |-> inode]
                        failed(r) == [m |-> r.m, ret |-> "error", inode |-> Garbage]
                        answer(r, body, extra) ==
                          IF r.ret # "ok" THEN failed(r) ELSE result(r, FromDisk(base, body, extra))
                    IN  IF r1.ret # "ok" THEN failed(r1)
                        ELSE IF "kind" \notin DOMAIN base THEN failed(r1)
                        ELSE IF r2.ret # "ok" THEN failed(r2)
                        ELSE IF base.kind = "file"
                             THEN answer(blk, data, [i \in DOMAIN blk.out |-> blk.out[i].of.block])
                        ELSE IF base.kind = "slink" /\ ~base.ext
                             THEN answer(lnk, data, CellsName(lnk.out))
                        ELSE IF base.kind = "slink"
                             THEN answer(xat, [f \in ExtFields("slink") |->
                                                 IF f = "xattr_idx" THEN Unpack(xat.out).xattr ELSE data[f]],
                                         CellsName(lnk.out))
                        ELSE IF base.kind = "dir" /\ base.ext
                             THEN answer(idx.at, data, idx.index)
                        ELSE answer(r2, data, <<>>))))
=============================================================================
