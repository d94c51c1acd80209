------------------------------ MODULE MCTools ------------------------------
(***************************************************************************)
(* The tools, one at a time: sqfs2tar and tar2sqfs (TarTools), unpacking   *)
(* with rdsquashfs (Unpack), sqfsdiff (Diff), gensquashfs reading a        *)
(* directory (HostInput), and the main functions of the tools that read    *)
(* images (ReaderMains).  The variables that the one that runs does not    *)
(* have are not used.                                                      *)
(***************************************************************************)
EXTENDS MCTar

CONSTANTS
  Capability, MaxFaults, UnpackCases, \* of Unpack
  DiffCases,                          \* of Diff
  Hosts, Changes, MaxChanges, BufferSize, \* of HostInput
  Programs, MaxOptions                \* of ReaderMains

VARIABLES
  part,
  disk, faults,                                     \* Unpack
  pairs, report,                                    \* Diff
  host, before, one_fs, stack, cur, tree, changes,  \* HostInput
  tool, xattrs, wrap, op, cmdpath, given, pc, live, made, freed, status  \* ReaderMains

Restore == INSTANCE MCUnpack WITH Cases <- UnpackCases, SomeCapability <- Capability
Compare == INSTANCE Diff WITH Cases <- DiffCases
Scan == INSTANCE HostInput
Main == INSTANCE ReaderMains WITH Tools <- Programs

TarCases == SomeCases
Given == INSTANCE MCUnpack WITH Cases <- {}, SomeCapability <- Capability
RestoreCases == Given!SomeCases

------------------------------------------------------------------------------
(* Pairs of images: entries that are missing on either side, at the         *)
(* beginning, in the middle or at the end, of other types, with other       *)
(* contents; nodes that cannot be read; attributes that differ.             *)

Node(name, mode, content, children) ==
  [name |-> <<name>>, mode |-> mode, data |-> content, children |-> children, ext |-> FALSE,
   perm |-> 1, uid |-> 1, mtime |-> 1, inum |-> 1]
Leaf(name, mode, content) == Node(name, mode, content, <<>>)
Folder(name, children) == Node(name, "dir", <<>>, children)

FirstNodes ==
  {Leaf(1, "file", <<1, 2>>), Leaf(1, "slink", <<1>>), Leaf(1, "cdev", <<1>>),
   Folder(1, <<Leaf(5, "file", <<>>)>>)}
SecondNodes ==
  {Leaf(2, "file", <<1, 2>>), Leaf(2, "file", <<1, 3>>), Leaf(2, "slink", <<1>>),
   Leaf(2, "cdev", <<2>>), Folder(2, <<Leaf(5, "file", <<3>>)>>),
   [Leaf(2, "slink", <<2>>) EXCEPT !.ext = TRUE], Leaf(2, "slink", <<2>>)}
Folders ==
  {Folder(0, l) : l \in
     {<<>>} \cup {<<y>> : y \in SecondNodes} \cup {<<x, y>> : x \in FirstNodes, y \in SecondNodes}
       \cup {<<Leaf(1, "fifo", <<>>), y, Leaf(3, "file", <<4>>)>> : y \in SecondNodes}}
Changed(field) == Folder(0, <<[Folder(1, <<>>) EXCEPT ![field] = 2]>>)
Plain == Folder(0, <<Folder(1, <<>>)>>)
Super == [id |-> 1, flags |-> 1]
PairOf(old, new, opts, super, bad) ==
  [old |-> old, new |-> new, flags |-> opts, super |-> <<Super, super>>, bad |-> bad]

CompareCases ==
     {PairOf(x, y, f, Super, {}) : x, y \in Folders, f \in {{"extract"}, {"no_contents"}}}
  \cup {PairOf(x, y, {"extract"}, Super, b) : x \in {f \in Folders : Len(f.children) = 2}, y \in Folders,
                                           b \in {{<<"<", <<<<1>>>>>>}, {<<">", <<<<2>>, <<5>>>>>>}}}
  \cup {PairOf(Plain, Changed(f), g, s, {}) :
          f \in {"perm", "uid", "mtime", "inum"}, s \in {Super, [Super EXCEPT !.id = 2]},
          g \in SUBSET {"no_perm", "no_owner", "timestamp", "inode_num", "super"}}

------------------------------------------------------------------------------
(* Directories on the host, one with another file system mounted in it, and *)
(* what may take the place of an entry while it is read.                    *)

HostEntry(kind, dev, target, len, attrs) ==
  [kind |-> kind, dev |-> dev, target |-> target, len |-> len, attrs |-> attrs]
HostDir(dev) == HostEntry("dir", dev, <<>>, 0, <<>>)
HostFile(dev, len, attrs) == HostEntry("file", dev, <<>>, len, attrs)
HostLink(target) == HostEntry("link", 1, target, 0, <<>>)
Attr(value) == "user.a" :> value

SomeHosts ==
  {(<<>> :> HostDir(1)) @@ (<<"l">> :> HostLink(<<1, 2>>)) @@ (<<"f">> :> HostFile(1, 3, Attr(<<1>>))),
   (<<>> :> HostDir(1)) @@ (<<"d">> :> HostDir(1)) @@ (<<"d", "m">> :> HostDir(2))
     @@ (<<"d", "m", "g">> :> HostFile(2, 1, Attr(<<>>))),
   (<<>> :> HostDir(1)) @@ (<<"d">> :> HostDir(1)) @@ (<<"d", "f">> :> HostFile(1, 2, Attr(<<1, 2>>)))}
SomeChanges ==
  {HostFile(1, 1, Attr(<<>>)), HostFile(1, 4, Attr(<<1, 2>>)), HostFile(1, 3, Attr(<<1>>)),
   HostLink(<<1>>), HostLink(<<1, 2, 3>>), HostDir(1)}

------------------------------------------------------------------------------
unpackVars == <<disk, faults>>
diffVars == <<pairs, report>>
hostVars == <<host, before, one_fs, stack, cur, tree, changes>>
mainVars == <<tool, xattrs, wrap, op, cmdpath, given, pc, live, made, freed, status>>
tarVars == <<in, whole, fs, step, at, data, attr>>
toolVars == <<part, vars, unpackVars, diffVars, hostVars, mainVars>>

Unused == <<>>
NoTar == /\ in = Unused /\ whole = Unused /\ fs = Unused /\ step = Unused /\ at = Unused
         /\ data = Unused /\ attr = Unused
NoUnpack == disk = Unused /\ faults = Unused
NoDiff == pairs = Unused /\ report = Unused
NoHost == /\ host = Unused /\ before = Unused /\ one_fs = Unused /\ stack = Unused /\ cur = Unused
          /\ tree = Unused /\ changes = Unused
NoMain == /\ tool = Unused /\ xattrs = Unused /\ wrap = Unused /\ op = Unused /\ cmdpath = Unused
          /\ given = Unused /\ pc = Unused /\ live = Unused /\ made = Unused /\ freed = Unused
          /\ status = Unused

ToolsInit ==
  \/ part = "tar" /\ Init /\ NoUnpack /\ NoDiff /\ NoHost /\ NoMain
  \/ /\ part = "unpack" /\ Restore!Init /\ NoTar /\ NoDiff /\ NoHost /\ NoMain
     /\ out = Unused /\ ret = Unused
  \/ /\ part = "diff" /\ Compare!Init /\ NoTar /\ NoUnpack /\ NoHost /\ NoMain
     /\ todo = Unused
  \/ /\ part = "host" /\ Scan!Init /\ NoTar /\ NoUnpack /\ NoDiff /\ NoMain
     /\ case = Unused /\ out = Unused /\ ret = Unused
  \/ /\ part = "main" /\ Main!Init /\ NoTar /\ NoUnpack /\ NoDiff /\ NoHost
     /\ case = Unused /\ phase = Unused /\ todo = Unused /\ out = Unused /\ ret = Unused

(* The program has ended. *)
Ended ==
  \/ part = "unpack" /\ phase \in {"done", "failed"}
  \/ part = "diff" /\ phase = "out"
  \/ part = "host" /\ phase \in {"done", "failed"}
  \/ part = "main" /\ pc.at = "end"

ToolsNext ==
  /\ part' = part
  /\ \/ part = "tar" /\ Next /\ UNCHANGED <<unpackVars, diffVars, hostVars, mainVars>>
     \/ /\ part = "unpack" /\ Restore!Next
        /\ UNCHANGED <<tarVars, out, ret, diffVars, hostVars, mainVars>>
     \/ /\ part = "diff" /\ Compare!Next
        /\ UNCHANGED <<tarVars, todo, unpackVars, hostVars, mainVars>>
     \/ /\ part = "host" /\ Scan!Next
        /\ UNCHANGED <<tarVars, case, out, ret, unpackVars, diffVars, mainVars>>
     \/ /\ part = "main" /\ Main!Next
        /\ UNCHANGED <<tarVars, case, phase, todo, out, ret, unpackVars, diffVars, hostVars>>
     \/ Ended /\ UNCHANGED toolVars

ToolsSpec == ToolsInit /\ [][ToolsNext]_toolVars

------------------------------------------------------------------------------


(* tar2sqfs packs no partial file of an archive that is cut off (see        *)
(* TarTools).                                                               *)
TarNoPartialFiles == part = "tar" => NoPartialFiles


(* rdsquashfs leaves alone what was there before it (see Unpack).           *)
ForeignKept == part = "unpack" => Restore!ForeignKept



=============================================================================
