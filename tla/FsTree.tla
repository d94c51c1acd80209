-------------------------------- MODULE FsTree --------------------------------
(***************************************************************************)
(* The file system tree an image is made from: lib/fstree.  Nodes are      *)
(* added by path, in any order; fstree_post_process then sorts every       *)
(* directory, resolves the hard links, numbers the inodes, and orders them *)
(* so that every directory comes after everything it lists.                *)
(*                                                                         *)
(* A node is its place in fs.node, in the order of creation: 1 is the      *)
(* root, and a child comes after its parent.                               *)
(***************************************************************************)
EXTENDS Names, SequencesExt, FiniteSets

CONSTANTS
  LinkCountMod,  \* 2^16: what a link count is counted modulo
  IdMax,         \* 0xFFFFFFFF: the largest user or group id
  Paths,         \* paths that nodes are added at
  Targets,       \* what hard links are made to, as it was written
  Stats,         \* struct stat of the nodes that are added
  MaxNodes       \* bound on the nodes of a tree

FsTreeAssumption ==
  LinkCountMod \in Nat \ {0} /\ IdMax \in Nat /\ MaxNodes \in Nat \ {0}

VARIABLES
  fs,    \* the tree
  step,  \* where fstree_post_process is
  ret,   \* result of the last call
  at     \* reorder_hard_links: the loop counter and the next child it looks at

vars == <<fs, step, ret, at>>

Root == 1

(* fs->defaults *)
Defaults == [mode |-> "dir", uid |-> 0, gid |-> 0, rdev |-> 0]

(* calloc, and what fstree_mknode sets for the kind of node; extra is the   *)
(* target of a symbolic link or the input of a file.                        *)
NewNode(parent, name, sb, extra) ==
  [parent |-> parent, name |-> name, mode |-> sb.mode, uid |-> sb.uid, gid |-> sb.gid,
   devno |-> sb.rdev, target |-> extra, link_count |-> IF sb.mode = "dir" THEN 2 ELSE 1,
   children |-> <<>>, implicit |-> FALSE, target_node |-> 0, inode_num |-> 0, xattr_idx |-> -1]

fstree_init ==
  [node |-> <<NewNode(0, <<>>, Defaults, <<>>)>>, inodes |-> <<>>, files |-> <<>>]

IsDir(t, n) == t.node[n].mode = "dir"
Children(t, n) == Range(t.node[n].children)

(* Mutant: the new node takes the place of its parent's list. *)
MknodeForgetsSiblings(t, parent, name, sb, extra) ==
  LET n == Len(t.node) + 1
  IN  [t EXCEPT !.node = Append([@ EXCEPT ![parent].children = <<n>>,
                                          ![parent].link_count = (@ + 1) % LinkCountMod],
                                NewNode(parent, name, sb, extra))]

(* The new node becomes the head of its parent's list. *)
fstree_mknode(t, parent, name, sb, extra) ==
  LET n == Len(t.node) + 1
  IN  [t EXCEPT !.node = Append([@ EXCEPT ![parent].children = <<n>> \o @,
                                          ![parent].link_count = (@ + 1) % LinkCountMod],
                                NewNode(parent, name, sb, extra))]

(* Mutant: only the head of the list is looked at. *)
HeadByName(t, dir, name) ==
  LET list == t.node[dir].children
  IN  IF list = <<>> \/ t.node[list[1]].name # name THEN 0 ELSE list[1]

child_by_name(t, dir, name) ==
  LET same == {n \in Children(t, dir) : t.node[n].name = name}
  IN  IF same = {} THEN 0 ELSE CHOOSE n \in same : TRUE

(* One component of a path; "." and ".." are long gone. *)
Walk(s, name, create) ==
  LET c   == child_by_name(s.fs, s.at, name)
      new == fstree_mknode(s.fs, s.at, name, Defaults, <<>>)
      n   == Len(new.node)
  IN  IF s.ret # "ok" THEN s
      ELSE IF ~IsDir(s.fs, s.at) THEN [s EXCEPT !.ret = "ENOTDIR"]
      ELSE IF c # 0 THEN [s EXCEPT !.at = c]
      ELSE IF ~create THEN [s EXCEPT !.ret = "ENOENT"]
      ELSE [s EXCEPT !.fs = [new EXCEPT !.node[n].implicit = TRUE], !.at = n]

WalkCreating(s, name) == Walk(s, name, TRUE)
WalkExisting(s, name) == Walk(s, name, FALSE)

(* fstree_get_node_by_path(..., true, true): the parent, created like mkdir -p. *)
ParentOf(t, path) ==
  With(FoldLeft(WalkCreating, [fs |-> t, at |-> Root, ret |-> "ok"], Front(path)), LAMBDA r :
    IF r.ret = "ok" /\ ~IsDir(r.fs, r.at) THEN [r EXCEPT !.ret = "ENOTDIR"] ELSE r)

(* fstree_get_node_by_path(..., false, false). *)
NodeAt(t, path) == FoldLeft(WalkExisting, [fs |-> t, at |-> Root, ret |-> "ok"], path)

(* Mutant: a directory stops being implicit before the kinds are compared. *)
AddClearsImplicit(t, path, sb, extra) ==
  LET p == ParentOf(t, path)
      c == child_by_name(p.fs, p.at, Last(path))
  IN  IF p.ret # "ok" THEN [fs |-> p.fs, ret |-> p.ret, at |-> 0]
      ELSE IF c = 0
           THEN [fs |-> fstree_mknode(p.fs, p.at, Last(path), sb, extra),
                 ret |-> "ok", at |-> Len(p.fs.node) + 1]
      ELSE [fs |-> [p.fs EXCEPT !.node[c].implicit = FALSE], ret |-> "EEXIST", at |-> 0]

fstree_add_generic(t, path, sb, extra) ==
  With(ParentOf(t, path), LAMBDA p :
    LET c == child_by_name(p.fs, p.at, Last(path))
    IN  IF p.ret # "ok" THEN [fs |-> p.fs, ret |-> p.ret, at |-> 0]
        ELSE IF c = 0
             THEN [fs |-> fstree_mknode(p.fs, p.at, Last(path), sb, extra),
                   ret |-> "ok", at |-> Len(p.fs.node) + 1]
        ELSE IF IsDir(p.fs, c) /\ sb.mode = "dir" /\ p.fs.node[c].implicit
             THEN [fs |-> [p.fs EXCEPT !.node[c].uid = sb.uid, !.node[c].gid = sb.gid,
                                       !.node[c].implicit = FALSE],
                   ret |-> "ok", at |-> c]
        ELSE [fs |-> p.fs, ret |-> "EEXIST", at |-> 0])

(* A link is added as a symbolic link and then changed.  A target with ".." *)
(* is refused when the node is in its parent's list already: it is freed    *)
(* and stays there.                                                         *)
fstree_add_hard_link(t, path, target) ==
  With(fstree_add_generic(t, path, [Defaults EXCEPT !.mode = "slink"], target), LAMBDA r :
    LET c == canonicalize_name(target)
    IN  IF r.ret # "ok" THEN r
        ELSE IF c.ret # "ok" THEN [r EXCEPT !.ret = c.ret, !.fs.node[r.at].mode = "freed"]
        ELSE [r EXCEPT !.fs.node[r.at].mode = "hardlink", !.fs.node[r.at].target = c.path])

AddGeneric(path, sb) ==
  LET r == fstree_add_generic(fs, path, sb, path)
  IN  /\ step = "build"
      /\ Len(r.fs.node) <= MaxNodes
      /\ fs' = r.fs
      /\ ret' = r.ret
      /\ UNCHANGED <<step, at>>

(* The caller gives up when the target is refused. *)
AddHardLink(path, target) ==
  LET r == fstree_add_hard_link(fs, path, target)
  IN  /\ step = "build"
      /\ Len(r.fs.node) <= MaxNodes
      /\ fs' = r.fs
      /\ ret' = r.ret
      /\ step' = IF r.ret = "EINVAL" THEN "failed" ELSE step
      /\ at' = at

------------------------------------------------------------------------------
(* lib/fstree/fstree_from_file.c *)

(* The digits of a number, most significant first; -1 if it is above IdMax. *)
parse_id(digits) ==
  FoldLeft(LAMBDA v, x : IF v < 0 \/ v > (IdMax - x) \div 10 THEN -1 ELSE v * 10 + x,
           IF digits = <<>> THEN -1 ELSE 0, digits)

(* file_list_hooks: what a keyword makes, and whether it needs an argument. *)
Hooks ==
  [dir |-> "dir", slink |-> "slink", link |-> "hardlink", nod |-> "nod", pipe |-> "fifo",
   sock |-> "sock", file |-> "file"]
NeedExtra == {"slink", "link", "nod"}

(* One line that is no comment: keyword, path, uid, gid and the rest. *)
handle_line(t, line) ==
  LET c    == canonicalize_name(line.path)
      mode == Hooks[line.keyword]
      sb(m) == [mode |-> m, uid |-> parse_id(line.uid), gid |-> parse_id(line.gid),
                rdev |-> IF m \in {"bdev", "cdev"} THEN line.extra.rdev ELSE 0]
      bad(msg) == [fs |-> t, ret |-> msg, at |-> 0]
  IN  IF c.ret # "ok" \/ c.path = <<>> THEN bad("EINVAL")
      ELSE IF parse_id(line.uid) < 0 \/ parse_id(line.gid) < 0 THEN bad("EINVAL")
      ELSE IF line.keyword \notin DOMAIN Hooks THEN bad("EINVAL")
      ELSE IF line.keyword \in NeedExtra /\ line.extra = <<>> THEN bad("EINVAL")
      ELSE IF mode = "hardlink" THEN fstree_add_hard_link(t, c.path, line.extra)
      ELSE IF mode = "nod"
           THEN IF line.extra.type \notin {"bdev", "cdev"} THEN bad("EINVAL")
                ELSE fstree_add_generic(t, c.path, sb(line.extra.type), <<>>)
      ELSE fstree_add_generic(t, c.path, sb(mode),
                              IF mode = "file" /\ line.extra = <<>> THEN c.path ELSE line.extra)

------------------------------------------------------------------------------
(* fstree_post_process *)

(* tree_node_list_sort: halves that are sorted on their own and merged. *)
Merge[lhs \in Seq(Nat), rhs \in Seq(Nat), name \in Seq(Seq(Nat))] ==
  IF lhs = <<>> THEN rhs
  ELSE IF rhs = <<>> THEN lhs
  ELSE IF NameLess(name[rhs[1]], name[lhs[1]])
       THEN <<rhs[1]>> \o Merge[lhs, Tail(rhs), name]
       ELSE <<lhs[1]>> \o Merge[Tail(lhs), rhs, name]

ListSort[list \in Seq(Nat), name \in Seq(Seq(Nat))] ==
  LET half == (Len(list) + 1) \div 2
  IN  IF Len(list) <= 1 THEN list
      ELSE Merge[ListSort[SubSeq(list, 1, half), name],
                 ListSort[SubSeq(list, half + 1, Len(list)), name], name]

(* Mutant: the lists keep the order of creation. *)
SortNothing == step = "build" /\ step' = "resolve" /\ ret' = "ok" /\ UNCHANGED <<fs, at>>

SortRecursive ==
  /\ step = "build"
  /\ step' = "resolve"
  /\ fs' = [fs EXCEPT !.node = [n \in DOMAIN @ |->
              [@[n] EXCEPT !.children = ListSort[@, [c \in DOMAIN fs.node |-> fs.node[c].name]]]]]
  /\ ret' = "ok"
  /\ at' = at

(* All nodes below and including n, parents first, in the order of the lists. *)
Preorder(t) ==
  LET below[n \in DOMAIN t.node] ==
        <<n>> \o FlattenSeq([i \in DOMAIN t.node[n].children |-> below[t.node[n].children[i]]])
  IN  below[Root]

Links(t) == SelectSeq(Preorder(t), LAMBDA n : t.node[n].mode = "hardlink")

(* The node a link leads to; following a chain that comes back to a link    *)
(* other than the first never ends.                                         *)
Follow(t, n) ==
  LET go[m \in DOMAIN t.node, seen \in SUBSET DOMAIN t.node] ==
        With(IF t.node[m].mode = "resolved"
             THEN [at |-> t.node[m].target_node, ret |-> "ok"]
             ELSE NodeAt(t, t.node[m].target), LAMBDA next :
          IF t.node[m].mode \notin {"hardlink", "resolved"} THEN [at |-> m, ret |-> "ok"]
          ELSE IF next.ret # "ok" THEN [at |-> 0, ret |-> next.ret]
          ELSE IF next.at = n THEN [at |-> 0, ret |-> "EMLINK"]
          ELSE IF next.at \in seen THEN [at |-> 0, ret |-> "endless"]
          ELSE go[next.at, seen \cup {next.at}])
  IN  go[n, {n}]

(* Mutant: a link to a link counts for the link. *)
ResolveCountsLink(t, n) ==
  LET f == Follow(t, n)
      first == NodeAt(t, t.node[n].target).at
  IN  IF f.ret # "ok" THEN [fs |-> t, ret |-> f.ret]
      ELSE IF IsDir(t, f.at) THEN [fs |-> t, ret |-> "EPERM"]
      ELSE [fs |-> [t EXCEPT !.node[n].mode = "resolved", !.node[n].target_node = f.at,
                             !.node[first].link_count = (@ + 1) % LinkCountMod],
            ret |-> "ok"]

fstree_resolve_hard_link(t, n) ==
  With(Follow(t, n), LAMBDA f :
    IF f.ret # "ok" THEN [fs |-> t, ret |-> f.ret]
    ELSE IF IsDir(t, f.at) THEN [fs |-> t, ret |-> "EPERM"]
    ELSE [fs |-> [t EXCEPT !.node[n].mode = "resolved", !.node[n].target_node = f.at,
                           !.node[f.at].link_count = (@ + 1) % LinkCountMod],
          ret |-> "ok"])

(* resolve_hard_links_dfs, one link at a time. *)
ResolveLink ==
  LET r == fstree_resolve_hard_link(fs, Links(fs)[1])
  IN  /\ step = "resolve"
      /\ Links(fs) # <<>>
      /\ fs' = r.fs
      /\ ret' = r.ret
      /\ step' = IF r.ret = "ok" THEN "resolve"
                 ELSE IF r.ret = "endless" THEN "endless" ELSE "failed"
      /\ at' = at

(* A walk around the links never comes back. *)
FollowForever == step = "endless" /\ UNCHANGED vars

(* Mutant: the entries of a directory are numbered before what is below. *)
NumberTopDown(t) == SelectSeq(Preorder(t), LAMBDA n : t.node[n].mode # "resolved")

(* alloc_inode_num_dfs: what is below the subdirectories first, then the    *)
(* entries of the directory, and the root last of all.                      *)
alloc_inode_num_dfs(t) ==
  LET dfs[n \in DOMAIN t.node] ==
        LET list == t.node[n].children
            dirs == SelectSeq(list, LAMBDA c : IsDir(t, c))
        IN  FlattenSeq([i \in DOMAIN dirs |-> dfs[dirs[i]]])
            \o SelectSeq(list, LAMBDA c : t.node[c].mode # "resolved")
  IN  Append(dfs[Root], Root)

(* The numbers, and the array that maps them back. *)
NumberInodes ==
  LET order == alloc_inode_num_dfs(fs)
      rank(n) == CHOOSE i \in DOMAIN order : order[i] = n
  IN  /\ step = "resolve"
      /\ Links(fs) = <<>>
      /\ fs' = [fs EXCEPT !.inodes = order,
                          !.node = [n \in DOMAIN @ |->
                            IF n \in Range(order) THEN [@[n] EXCEPT !.inode_num = rank(n)] ELSE @[n]]]
      /\ step' = "reorder"
      /\ at' = [i |-> 1, it |-> 1]
      /\ UNCHANGED ret

(* Mutant: the nodes in between keep their numbers. *)
MoveKeepsNumbers(t, i, tgt) ==
  [t EXCEPT !.inodes = [k \in DOMAIN @ |->
              IF k = i THEN @[tgt] ELSE IF k > i /\ k <= tgt THEN @[k - 1] ELSE @[k]],
            !.node[t.inodes[tgt]].inode_num = i]

(* The node at index tgt moves to index i, the ones in between move up. *)
MoveTo(t, i, tgt) ==
  LET moved == [k \in DOMAIN t.inodes |->
                  IF k = i THEN t.inodes[tgt]
                  ELSE IF k > i /\ k <= tgt THEN t.inodes[k - 1] ELSE t.inodes[k]]
  IN  [t EXCEPT !.inodes = moved,
                !.node = [n \in DOMAIN @ |->
                   IF n = t.inodes[tgt] THEN [@[n] EXCEPT !.inode_num = i]
                   ELSE IF \E k \in i .. tgt - 1 : t.inodes[k] = n
                        THEN [@[n] EXCEPT !.inode_num = @ + 1] ELSE @[n]]]

(* reorder_hard_links: the next child of the directory at the loop counter. *)
ReorderChild ==
  LET dir  == fs.inodes[at.i]
      list == IF IsDir(fs, dir) THEN fs.node[dir].children ELSE <<>>
      link == fs.node[list[at.it]]
  IN  /\ step = "reorder"
      /\ at.i <= Len(fs.inodes)
      /\ at.it <= Len(list)
      /\ IF link.mode = "resolved" /\ fs.node[link.target_node].inode_num > at.i
         THEN /\ fs' = MoveTo(fs, at.i, fs.node[link.target_node].inode_num)
              /\ at' = [i |-> at.i + 1, it |-> at.it + 1]
         ELSE fs' = fs /\ at' = [at EXCEPT !.it = @ + 1]
      /\ UNCHANGED <<step, ret>>

(* Mutant: a directory is looked through again and again. *)
ReorderAgain ==
  LET dir  == fs.inodes[at.i]
      list == IF IsDir(fs, dir) THEN fs.node[dir].children ELSE <<>>
  IN  /\ step = "reorder"
      /\ at.i <= Len(fs.inodes)
      /\ at.it > Len(list)
      /\ at' = [i |-> IF list = <<>> THEN at.i + 1 ELSE at.i, it |-> 1]
      /\ UNCHANGED <<fs, step, ret>>

(* The next inode, and the list of files when there is none. *)
ReorderNext ==
  LET dir  == fs.inodes[at.i]
      list == IF IsDir(fs, dir) THEN fs.node[dir].children ELSE <<>>
  IN  /\ step = "reorder"
      /\ at.i <= Len(fs.inodes)
      /\ at.it > Len(list)
      /\ at' = [i |-> at.i + 1, it |-> 1]
      /\ UNCHANGED <<fs, step, ret>>

(* file_list_dfs *)
FileList ==
  /\ step = "reorder"
  /\ at.i > Len(fs.inodes)
  /\ fs' = [fs EXCEPT !.files = SelectSeq(Preorder(fs), LAMBDA n : fs.node[n].mode = "file")]
  /\ step' = "done"
  /\ UNCHANGED <<ret, at>>

Finished == step \in {"done", "failed"} /\ UNCHANGED vars

PostProcess ==
  \/ SortRecursive
  \/ ResolveLink
  \/ NumberInodes
  \/ ReorderChild
  \/ ReorderNext
  \/ FileList

Init == fs = fstree_init /\ step = "build" /\ ret = "ok" /\ at = [i |-> 0, it |-> 0]

Next ==
  \/ \E path \in Paths, sb \in Stats : AddGeneric(path, sb)
  \/ \E path \in Paths, target \in Targets : AddHardLink(path, target)
  \/ PostProcess
  \/ FollowForever
  \/ Finished

(* fstree_post_process runs until it returns: weak fairness of PostProcess, *)
(* with the states in which it is enabled written out.                      *)
Running == step \in {"resolve", "reorder"}
PostProcessRuns == []<>~Running \/ []<><<Running>>_vars

Spec == Init /\ [][Next]_vars /\ PostProcessRuns

------------------------------------------------------------------------------

(* The objects have the shape the code gives them, and every list of        *)
(* children agrees with the parent pointers.                                *)
TypeOK ==
  /\ step \in {"build", "resolve", "endless", "reorder", "done", "failed"}
  /\ \A n \in DOMAIN fs.node :
       /\ fs.node[n].link_count \in 0 .. LinkCountMod - 1
       /\ IsInjective(fs.node[n].children)
       /\ \A c \in Children(fs, n) : c > n /\ fs.node[c].parent = n
       /\ n # Root => n \in Children(fs, fs.node[n].parent)

(* No directory ever has two entries of one name (fstree_add_generic and    *)
(* fstree_get_node_by_path look before they add).                           *)
NamesDistinct ==
  \A d \in DOMAIN fs.node : \A a, b \in Children(fs, d) :
     fs.node[a].name = fs.node[b].name => a = b

(* A call of fstree_add_generic or fstree_add_hard_link that finds the      *)
(* place taken, or a file in its way, leaves the tree as it was: it does    *)
(* not leave directories behind that it made on its way.                    *)
FailedAddChangesNothing ==
  [][step = "build" /\ step' = "build" /\ ret' \in {"EEXIST", "ENOTDIR"} => fs' = fs]_vars

(* The node an entry of a directory stands for. *)
Entry(t, c) == IF t.node[c].mode = "resolved" THEN t.node[c].target_node ELSE c

(* From the numbering on, "each node that has an inode number is mapped     *)
(* into the array at index inode_num - 1" (fstree_post_process), also while *)
(* reorder_hard_links moves inodes around, and every node but the links has *)
(* its place in it.                                                         *)
InodesMapped ==
  step \in {"reorder", "done"} =>
    /\ \A i \in DOMAIN fs.inodes : fs.node[fs.inodes[i]].inode_num = i
    /\ Range(fs.inodes) = {n \in DOMAIN fs.node : fs.node[n].mode # "resolved"}

(* When fstree_post_process is done, everything a directory lists comes     *)
(* before the directory, through hard links as well: the locations that go  *)
(* into the listing are known when it is written.                           *)
EntriesBeforeDirectory ==
  step = "done" =>
    \A d \in DOMAIN fs.node : \A c \in Children(fs, d) :
      fs.node[Entry(fs, c)].inode_num < fs.node[d].inode_num

(* When fstree_post_process is done, every list of children is in the order *)
(* that sqfs_dir_reader_find relies on, and the list of files holds every   *)
(* file once.                                                               *)
ListingsSorted ==
  step = "done" =>
    /\ \A d \in DOMAIN fs.node : LET list == fs.node[d].children IN
         \A i \in 1 .. Len(list) - 1 : NameLess(fs.node[list[i]].name, fs.node[list[i + 1]].name)
    /\ IsInjective(fs.files)
    /\ Range(fs.files) = {n \in DOMAIN fs.node : fs.node[n].mode = "file"}

(* When fstree_post_process is done, every link leads to a node that is     *)
(* neither a link nor a directory, and the link count of a node is the      *)
(* number of its names; that of a directory, two more than its entries.     *)
LinksCounted ==
  step = "done" =>
    \A n \in DOMAIN fs.node :
      LET names == {l \in DOMAIN fs.node : Entry(fs, l) = n /\ l # n}
      IN  CASE fs.node[n].mode = "dir"      -> fs.node[n].link_count = Len(fs.node[n].children) + 2
            [] fs.node[n].mode = "resolved" ->
                 fs.node[fs.node[n].target_node].mode \notin {"dir", "hardlink", "resolved"}
            [] OTHER                        -> fs.node[n].link_count = Cardinality(names) + 1

(* fstree_post_process returns: "Returns 0 on success, prints to stderr on  *)
(* failure."                                                                *)
PostProcessReturns == (step = "resolve") ~> (step \in {"done", "failed"})

(* fstree_post_process sorts, resolves, numbers and reorders any tree in a  *)
(* bounded number of steps, unless a chain of links comes back to a link    *)
(* other than the one it started from.                                      *)
PostProcessEnds == (step = "resolve") ~> (step \in {"done", "failed", "endless"})
=============================================================================
