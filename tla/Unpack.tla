------------------------------- MODULE Unpack -------------------------------
(***************************************************************************)
(* rdsquashfs --unpack-path: the nodes of a tree are created below the     *)
(* current directory, then the regular files are filled, then attributes   *)
(* are set, and the first call that fails ends it.  The file system below  *)
(* is modelled by what mkdir, open, write, utimensat, chown and chmod do.  *)
(***************************************************************************)
EXTENDS Integers, Sequences, FiniteSets, SequencesExt, Names

CONSTANTS
  Cases,      \* [tree, flags, disk, user]: user is 0 for the super user
  Capability, \* the attribute that chown takes away
  MaxFaults   \* bound on the calls that fail for no reason of their own

VARIABLES
  case,
  phase,  \* "create", "fill", "attribs", "done" or "failed"
  todo,   \* nodes to visit with their paths, the next one first
  disk,   \* path -> what is there
  faults

vars == <<case, phase, todo, disk, faults>>

Flag(f) == f \in case.flags
Zero == 0 \* a block of zeros; other blocks are other numbers

(* A node and what is on disk: mode is the type, perm the permissions of    *)
(* the owner, "s" among them for set-user-id. *)
Entry(mode, data, perm) ==
  [mode |-> mode, data |-> data, perm |-> perm, uid |-> case.user, mtime |-> "now", xattr |-> {}]

Searchable(d, path) ==
  case.user = 0 \/ \A i \in 1 .. Len(path) - 1 :
                     LET up == SubSeq(path, 1, i) IN up \in DOMAIN d => "x" \in d[up].perm
Reached(d, path) ==
  /\ Searchable(d, path)
  /\ \A i \in 1 .. Len(path) - 1 :
       SubSeq(path, 1, i) \in DOMAIN d /\ d[SubSeq(path, 1, i)].mode = "dir"

is_filename_sane(name) == name \notin {Dot, DotDot}

(* sqfs_tree_node_get_path, up to the node that is unpacked. *)
Visit(n, path) == [node |-> n, path |-> path]
Below(n, path) == [i \in DOMAIN n.children |-> Visit(n.children[i], Append(path, n.children[i].name))]
(* A directory that is unpacked stands for its entries. *)
Top(n) == IF n.mode = "dir" THEN Below(n, <<>>) ELSE <<Visit(n, <<n.name>>)>>

------------------------------------------------------------------------------
(* restore_fstree.c *)

(* The entry that create_node asks for. *)
Made(n) ==
  Entry(n.mode, IF n.mode = "slink" THEN n.data ELSE <<>>,
        CASE n.mode = "file" -> IF Flag("chmod") THEN n.perm \cup {"w"} ELSE {"r", "w"}
          [] OTHER           -> {"r", "w", "x"})

(* A new entry changes the time of the directory it is in. *)
PutEntry(d, path, e) ==
  LET up == SubSeq(path, 1, Len(path) - 1)
      p  == IF up \in DOMAIN d THEN [d EXCEPT ![up].mtime = "now"] ELSE d
  IN  [q \in DOMAIN d \cup {path} |-> IF q = path THEN e ELSE p[q]]

(* Mutant: a file is opened whether it exists or not. *)
CreateOverExisting(d, n, path) ==
  IF ~Reached(d, path) THEN [ok |-> FALSE, disk |-> d]
  ELSE IF path \in DOMAIN d THEN [ok |-> n.mode \in {"dir", "file"}, disk |-> d]
  ELSE IF n.mode \in {"bdev", "cdev"} /\ case.user # 0 THEN [ok |-> FALSE, disk |-> d]
  ELSE [ok |-> TRUE, disk |-> PutEntry(d, path, Made(n))]

(* EEXIST is an error for all but directories. *)
create_node(d, n, path) ==
  IF ~Reached(d, path) THEN [ok |-> FALSE, disk |-> d]
  ELSE IF path \in DOMAIN d THEN [ok |-> n.mode = "dir", disk |-> d]
  ELSE IF n.mode \in {"bdev", "cdev"} /\ case.user # 0 THEN [ok |-> FALSE, disk |-> d]
  ELSE [ok |-> TRUE, disk |-> PutEntry(d, path, Made(n))]

(* create_node_dfs, a node at a time. *)
CreateNode ==
  LET v == Head(todo)
      r == create_node(disk, v.node, v.path)
  IN  /\ phase = "create"
      /\ todo # <<>>
      /\ IF ~is_filename_sane(v.node.name)
         THEN todo' = Tail(todo) /\ UNCHANGED <<phase, disk>>
         ELSE /\ disk' = r.disk
              /\ phase' = IF r.ok THEN phase ELSE "failed"
              /\ todo' = Below(v.node, v.path) \o Tail(todo)
      /\ UNCHANGED <<case, faults>>

------------------------------------------------------------------------------
(* fill_files.c *)

RECURSIVE gen_file_list_dfs(_)

gen_file_list_dfs(visits) ==
  FlattenSeq([i \in DOMAIN visits |->
    LET v == visits[i]
    IN  IF ~is_filename_sane(v.node.name) THEN <<>>
        ELSE IF v.node.mode = "file" THEN <<v>>
        ELSE gen_file_list_dfs(Below(v.node, v.path))])

(* qsort: compare_files says of two files with tail ends that each comes    *)
(* before the other, so that any order can come out. *)
SortedFiles(list) ==
  {[i \in DOMAIN list |-> list[p[i]]] : p \in {f \in [DOMAIN list -> DOMAIN list] : IsInjective(f)}}

ListFiles ==
  /\ phase = "create"
  /\ todo = <<>>
  /\ phase' = "fill"
  /\ \E list \in SortedFiles(gen_file_list_dfs(Top(case.tree))) : todo' = list
  /\ UNCHANGED <<case, disk, faults>>

(* The open flag that makes holes of blocks of zeros. *)
OpenSparse == Flag("no_sparse")

(* sqfs_data_reader_dump and ostream_flush: what is on disk, block by       *)
(* block, and whether the block is a hole. *)
sqfs_data_reader_dump(blocks) ==
  [i \in DOMAIN blocks |-> [v |-> blocks[i], hole |-> OpenSparse /\ blocks[i] = Zero]]

CanWrite(d, path) ==
  /\ Reached(d, path)
  /\ path \in DOMAIN d
  /\ d[path].mode # "dir"
  /\ case.user = 0 \/ "w" \in d[path].perm

(* fill_files, one file. *)
FillFile ==
  LET v == Head(todo)
  IN  /\ phase = "fill"
      /\ todo # <<>>
      /\ IF CanWrite(disk, v.path)
         THEN /\ disk' = [disk EXCEPT ![v.path].data = sqfs_data_reader_dump(v.node.data),
                                      ![v.path].mtime = "now"]
              /\ phase' = phase
         ELSE disk' = disk /\ phase' = "failed"
      /\ todo' = Tail(todo)
      /\ UNCHANGED <<case, faults>>

------------------------------------------------------------------------------
(* set_attribs *)

RECURSIVE AttribOrder(_), ParentFirst(_)

(* Mutant: a directory before what is in it. *)
ParentFirst(visits) ==
  FlattenSeq([i \in DOMAIN visits |->
    LET v == visits[i]
    IN  IF ~is_filename_sane(v.node.name) THEN <<>>
        ELSE <<v>> \o ParentFirst(Below(v.node, v.path))])

(* The recursion of set_attribs: what is in a directory before it. *)
AttribOrder(visits) ==
  FlattenSeq([i \in DOMAIN visits |->
    LET v == visits[i]
    IN  IF ~is_filename_sane(v.node.name) THEN <<>>
        ELSE AttribOrder(Below(v.node, v.path)) \o <<v>>])

(* update_tree_attribs has nothing to do without a flag. *)
StartAttribs ==
  /\ phase = "fill"
  /\ todo = <<>>
  /\ IF case.flags \cap {"chown", "chmod", "times", "xattr"} = {}
     THEN phase' = "done" /\ todo' = todo
     ELSE phase' = "attribs" /\ todo' = AttribOrder(Top(case.tree))
  /\ UNCHANGED <<case, disk, faults>>

MayChange(e) == case.user = 0 \/ e.uid = case.user

set_xattr(n, e) == [e EXCEPT !.xattr = @ \cup n.xattr]
utimensat(n, e) == [e EXCEPT !.mtime = n.mtime]
(* chown takes the set-user-id bit, and a capability, off a file. *)
fchownat(n, e) ==
  [e EXCEPT !.uid = n.uid, !.perm = IF n.mode = "dir" THEN @ ELSE @ \ {"s"},
            !.xattr = IF n.mode = "dir" THEN @ ELSE @ \ {Capability}]
fchmodat(n, e) == [e EXCEPT !.perm = n.perm]

(* Mutant: the permissions first. *)
ChmodFirst(n, e) ==
  LET m == IF Flag("chmod") /\ n.mode # "slink" THEN fchmodat(n, e) ELSE e
      x == IF Flag("xattr") THEN set_xattr(n, m) ELSE m
      t == IF Flag("times") THEN utimensat(n, x) ELSE x
  IN  IF Flag("chown") THEN fchownat(n, t) ELSE t

(* The calls in their order. *)
Attributes(n, e) ==
  LET x == IF Flag("xattr") THEN set_xattr(n, e) ELSE e
      t == IF Flag("times") THEN utimensat(n, x) ELSE x
      o == IF Flag("chown") THEN fchownat(n, t) ELSE t
  IN  IF Flag("chmod") /\ n.mode # "slink" THEN fchmodat(n, o) ELSE o

SetAttribs ==
  LET v == Head(todo)
      e == disk[v.path]
      n == v.node
  IN  /\ phase = "attribs"
      /\ todo # <<>>
      /\ IF Reached(disk, v.path) /\ MayChange(e) /\ (Flag("chown") /\ n.uid # e.uid => case.user = 0)
         THEN disk' = [disk EXCEPT ![v.path] = Attributes(n, e)] /\ phase' = phase
         ELSE disk' = disk /\ phase' = "failed"
      /\ todo' = Tail(todo)
      /\ UNCHANGED <<case, faults>>

Finish ==
  /\ phase = "attribs"
  /\ todo = <<>>
  /\ phase' = "done"
  /\ UNCHANGED <<case, todo, disk, faults>>

(* A call fails: no space, no memory, a damaged image.  A file may be       *)
(* filled in part. *)
Fault ==
  /\ phase \in {"create", "fill", "attribs"}
  /\ todo # <<>>
  /\ faults < MaxFaults
  /\ faults' = faults + 1
  /\ phase' = "failed"
  /\ \/ disk' = disk
     \/ /\ phase = "fill"
        /\ CanWrite(disk, Head(todo).path)
        /\ \E k \in 0 .. Len(Head(todo).node.data) :
             disk' = [disk EXCEPT ![Head(todo).path].data =
                                     sqfs_data_reader_dump(SubSeq(Head(todo).node.data, 1, k)),
                                  ![Head(todo).path].mtime = "now"]
  /\ UNCHANGED <<case, todo>>

Init ==
  /\ case \in Cases
  /\ phase = "create"
  /\ todo = Top(case.tree)
  /\ disk = case.disk
  /\ faults = 0

Next == CreateNode \/ ListFiles \/ FillFile \/ StartAttribs \/ SetAttribs \/ Finish \/ Fault

Spec == Init /\ [][Next]_vars

------------------------------------------------------------------------------

RECURSIVE AllBelow(_)
AllBelow(visits) ==
  UNION {{visits[i]} \cup AllBelow(Below(visits[i].node, visits[i].path)) :
           i \in {j \in DOMAIN visits : is_filename_sane(visits[j].node.name)}}
Wanted == AllBelow(Top(case.tree))

Contents(e) == IF e.mode = "file" THEN [i \in DOMAIN e.data |-> e.data[i].v] ELSE e.data

(* Once rdsquashfs says that it is done, every node with a name that a file *)
(* can have is on disk with its contents and each of the attributes that    *)
(* were asked for: none of the later calls undoes an earlier one, but for   *)
(* the capability of a file that chown takes away.  A name that was taken   *)
(* by something else before, where an empty directory belongs, is left out. *)
Restored ==
  phase = "done" =>
    \A v \in Wanted :
      LET n == v.node
          e == disk[v.path]
      IN  v.path \in DOMAIN case.disk \/
          /\ v.path \in DOMAIN disk
          /\ e.mode = n.mode
          /\ n.mode \in {"file", "slink"} => Contents(e) = n.data
          /\ Flag("chmod") /\ n.mode # "slink" => e.perm = n.perm
          /\ Flag("chown") => e.uid = n.uid
          /\ Flag("times") => e.mtime = n.mtime
          /\ Flag("xattr") => n.xattr \ {Capability} \subseteq e.xattr

(* What was there before keeps its contents, however far the unpacking      *)
(* gets: create_node opens no file that exists, and fill_files only files   *)
(* that create_node made.                                                   *)
ForeignKept ==
  \A path \in DOMAIN case.disk :
    path \in DOMAIN disk /\ disk[path].mode = case.disk[path].mode /\ disk[path].data = case.disk[path].data

MayFail ==
  \/ faults > 0
  \/ \E v \in Wanted : v.path \in DOMAIN case.disk
  \/ case.user # 0 /\ \E v \in Wanted : v.node.mode \in {"bdev", "cdev"} \/ v.node.uid # case.user

(* Nothing that set_attribs or create_node does gets in the way of what is  *)
(* still to be done: below an empty directory it fails only when a call     *)
(* fails by itself, or without the privileges it takes.                     *)
FailsForAReason == phase = "failed" => MayFail

(* rdsquashfs.1: "Do not create sparse files. Always unpack sparse files by *)
(* writing blocks of zeros to disk."                                        *)
NoSparseFiles ==
  Flag("no_sparse") =>
    \A path \in DOMAIN disk \ DOMAIN case.disk :
      disk[path].mode = "file" => \A i \in DOMAIN disk[path].data : ~disk[path].data[i].hole
=============================================================================
