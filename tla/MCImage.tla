------------------------------- MODULE MCImage -------------------------------
(***************************************************************************)
(* Images of lists of files that bring out what is special in the formats; *)
(* and, on its own, the tree they are made from, built by any sequence of  *)
(* calls.                                                                  *)
(***************************************************************************)
EXTENDS Image

A == <<1>>
B == <<1, 2>>
C == <<2>>
D == <<3>>

Line(keyword, path, uid, extra) ==
  [keyword |-> keyword, path |-> path, uid |-> <<uid>>, gid |-> <<0>>, extra |-> extra,
   xattr |-> <<>>]

Tagged(line, pairs) == [line EXCEPT !.xattr = pairs]
User(name, value) == [key |-> [prefix |-> "user", name |-> name], value |-> value]
Short == User(<<1>>, <<7>>)
Long(name) == User(name, <<7, 8>>)

(* One directory with an entry of every kind, added in no order. *)
AllKinds ==
  <<Line("file", <<B>>, 1, <<>>), Line("slink", <<A>>, 0, <<A, B>>),
    Line("nod", <<D>>, 0, [type |-> "bdev", rdev |-> 5]), Line("pipe", <<C>>, 1, <<>>),
    Line("sock", <<<<4>>>>, 0, <<>>)>>

(* Directories in directories, some of them empty, and links across. *)
Linked ==
  <<Line("file", <<C, A>>, 2, <<>>), Line("dir", <<A>>, 1, <<>>),
    Line("link", <<A, B>>, 0, <<C, A>>), Line("dir", <<C>>, 1, <<>>),
    Line("link", <<D>>, 0, <<A, B>>), Line("dir", <<B>>, 0, <<>>)>>

(* Attributes: equal sets, and a value that is worth storing once. *)
Attributes ==
  <<Tagged(Line("file", <<A>>, 0, <<>>), <<Short, Long(<<2>>)>>),
    Tagged(Line("dir", <<B>>, 0, <<>>), <<Long(<<2>>), Short>>),
    Tagged(Line("pipe", <<C>>, 0, <<>>), <<Long(<<3, 3>>)>>)>>

(* As many owners as the table holds, and one more. *)
AllOwners ==
  <<Line("pipe", <<A>>, 1, <<>>), Line("pipe", <<B>>, 2, <<>>), Line("pipe", <<C>>, 3, <<>>)>>
ManyOwners == Append(AllOwners, Line("pipe", <<D>>, 4, <<>>))

(* Lines that are refused. *)
Twice == <<Line("dir", <<A>>, 0, <<>>), Line("file", <<A>>, 0, <<>>)>>
Dangling == <<Line("link", <<A>>, 0, <<B>>)>>

Config(script, exportable, no_xattr, exists, overwrite) ==
  [script |-> script, exportable |-> exportable, no_xattr |-> no_xattr, exists |-> exists,
   overwrite |-> overwrite]

SomeConfigs ==
  {Config(script, exportable, FALSE, FALSE, FALSE) :
     script \in {AllKinds, Linked, Attributes}, exportable \in BOOLEAN}
  \cup {Config(script, FALSE, TRUE, exists, TRUE) :
     script \in {<<>>, Twice, Dangling, ManyOwners, AllOwners}, exists \in BOOLEAN}
  \cup {Config(<<>>, TRUE, no_xattr, TRUE, FALSE) : no_xattr \in BOOLEAN}
  \cup {Config(Attributes, TRUE, TRUE, FALSE, FALSE)}

(* Files as the block processor leaves them: one with a block and a         *)
(* fragment, and a large, sparse one.                                       *)
NewFile == set_frag_location(ZeroInode("file"), NoIndex, NoIndex)
OneFile ==
  [set_frag_location(set_file_block_start(set_file_size(NewFile, 3), 3), 0, 1) EXCEPT
     !.extra = <<2>>]
LargeFile ==
  [set_file_block_start(set_file_size(make_extended(NewFile), 9), 3) EXCEPT
     !.data["sparse"] = 2, !.extra = <<2, 0, 2, 2, 1>>]
SomeInodes == {OneFile, LargeFile}

Frag(n) == [start |-> n, fsize |-> 1, compressed |-> FALSE]
SomeFrags == {<<>>, <<Frag(1), Frag(2), Frag(3), Frag(4)>>}

------------------------------------------------------------------------------
(* Small trees: two names, one of them the beginning of the other. *)
SomePaths == {<<A>>, <<B>>, <<A, A>>, <<A, B>>, <<B, A>>}
SomeTargets == {<<A>>, <<B, Dot>>, <<A, B>>, <<DotDot, A>>}
SomeStats == {[mode |-> m, uid |-> 1, gid |-> 0, rdev |-> 0] : m \in {"dir", "file"}}

VARIABLE alone  \* is it the tree on its own?

Tree ==
  INSTANCE FsTree WITH Paths <- SomePaths, Targets <- SomeTargets, Stats <- SomeStats, MaxNodes <- 5

ASSUME TreeAssumption == Tree!FsTreeAssumption

writing == <<phase, cfg, live, destroy, out, file, wr, faults, rd>>

BothInit ==
  /\ alone \in BOOLEAN
  /\ ImageInit
  /\ alone => cfg = CHOOSE c \in Configs : TRUE

BothNext ==
  /\ alone' = alone
  /\ \/ alone /\ Tree!Next /\ UNCHANGED writing
     \/ ~alone /\ ImageNext

(* fstree_post_process runs until it returns. *)
Running == alone /\ Tree!Running
BothSpec ==
  /\ BothInit /\ [][BothNext]_<<alone, allvars>>
  /\ []<>~Running \/ []<><<Running>>_tree

(* The exit status of the program says whether there is an image: after a   *)
(* success the file is one that the readers accept, and after a failure it  *)
(* is gone (see Image).                                                     *)
StatusSaysImage == SuccessIsAccepted /\ NoImageAfterFailure

(* In a finished image every reference leads to what it is for: paths and   *)
(* the export table to inodes, the index of a large directory to its        *)
(* headers, and the attribute index of an inode to its attributes (see      *)
(* Image).                                                                  *)
ReferencesRight == InodesFound /\ IndexLeadsToHeaders /\ AttributesRight

(* The tree that fstree_post_process leaves is what the writer relies on:   *)
(* lists are sorted and hold no name twice, inode numbers and the array of  *)
(* the inodes agree (also while reorder_hard_links moves them), what a      *)
(* directory lists comes before it, and link counts count the names (see    *)
(* FsTree).                                                                 *)
TreeReady ==
  /\ Tree!TypeOK
  /\ Tree!NamesDistinct
  /\ Tree!InodesMapped
  /\ Tree!EntriesBeforeDirectory
  /\ Tree!ListingsSorted
  /\ Tree!LinksCounted

(* A call that finds the place taken or a file in its way leaves the tree   *)
(* as it was (see FsTree).                                                  *)
FailedAddChangesNothing == Tree!FailedAddChangesNothing

(* fstree_post_process ends, except for the chains of links described in    *)
(* FsTree.                                                                  *)
PostProcessEnds == alone => Tree!PostProcessEnds
=============================================================================
