---------------------------- MODULE ReaderMains -----------------------------
(***************************************************************************)
(* The main functions of the tools that read an image: rdsquashfs          *)
(* (bin/rdsquashfs/rdsquashfs.c), sqfs2tar (bin/sqfs2tar/sqfs2tar.c) and   *)
(* sqfsdiff (bin/sqfsdiff/sqfsdiff.c), which opens two.  Each one makes    *)
(* its parts in an order of its own and leaves, when a call fails, through *)
(* a ladder of labels that destroys what was made.  The parts keep plain   *)
(* pointers to one another, so both what is destroyed and when matters.    *)
(* The options of rdsquashfs (bin/rdsquashfs/options.c) are read first.    *)
(***************************************************************************)
EXTENDS Integers, Sequences, FiniteSets, SequencesExt

CONSTANTS
    Tools,      \* which of "rdsquashfs", "sqfs2tar", "sqfsdiff" is run
    MaxOptions  \* bound: options on the command line of rdsquashfs

VARIABLES
    tool,
    xattrs,     \* the image has extended attributes and they are wanted
    wrap,       \* sqfs2tar compresses what it writes
    op,         \* the operation of rdsquashfs
    cmdpath,    \* its path: the option it was given with, "" if none
    given,      \* the options read so far
    pc,         \* [at: "options", "open", "work", "leave", "end", n: where]
    live,       \* the parts that exist
    made,       \* the parts that were made
    freed,      \* the parts that were destroyed, in order
    status

vars == <<tool, xattrs, wrap, op, cmdpath, given, pc, live, made, freed, status>>

-----------------------------------------------------------------------------
(* A part is a pair: its name, and a number where there are several.  A     *)
(* step makes a part or only checks something (None); "use" are the parts   *)
(* it reads; when it fails, the program goes to the label.                  *)

None == <<"none", 1>>

Part(name) == <<name, 1>>

Parts(names) == {Part(x) : x \in names}

Step(make, use, label) == [make |-> make, use |-> use, label |-> label]

\* What an existing part holds pointers to.
Uses(part) ==
    IF part[1] \in {"data", "dirrd", "xattr"}
    THEN {<<"file", part[2]>>, <<"cmp", part[2]>>}
    ELSE IF part[1] = "wrapper" THEN Parts({"stdout"}) ELSE {}

XattrSteps(label, label2) ==
    IF xattrs
    THEN <<Step(Part("xattr"), {}, label),
           Step(None, Parts({"xattr", "file", "cmp"}), label2)>>
    ELSE <<>>

RdSteps ==
    <<Step(Part("file"), {}, "out_cmd"), Step(None, Parts({"file"}), "out_file"),
      Step(Part("cmp"), {}, "out_file")>>
    \o XattrSteps("out_cmp", "out_xr")
    \o <<Step(Part("idtbl"), {}, "out_xr"),
         Step(None, Parts({"idtbl", "file", "cmp"}), "out_id"),
         Step(Part("dirrd"), Parts({"file", "cmp"}), "out_id"),
         Step(Part("data"), Parts({"file", "cmp"}), "out_dr"),
         Step(None, Parts({"data"}), "out_data"),
         Step(Part("tree"), Parts({"dirrd", "idtbl"}), "out_data")>>

\* The labels in their order, and what each destroys before it falls through.
Rungs(names) == [i \in DOMAIN names |-> <<names[i][1], Part(names[i][2])>>]


RdLadder ==
    Rungs(<<<<"out", "tree">>, <<"out_data", "data">>, <<"out_dr", "dirrd">>,
            <<"out_id", "idtbl">>, <<"out_xr", "xattr">>, <<"out_cmp", "cmp">>,
            <<"out_file", "file">>, <<"out_cmd", "path">>>>)

\* A compressing stream takes the place of the one it wraps.
TarSteps ==
    <<Step(Part("stdout"), {}, "out_dirs")>>
    \o (IF wrap THEN <<Step(Part("wrapper"), Parts({"stdout"}), "out_dirs")>>
        ELSE <<>>)
    \o <<Step(Part("file"), {}, "out_ostrm"), Step(None, Parts({"file"}), "out_fd"),
         Step(Part("cmp"), {}, "out_fd"), Step(Part("idtbl"), {}, "out_cmp"),
         Step(None, Parts({"idtbl", "file", "cmp"}), "out_id"),
         Step(Part("data"), Parts({"file", "cmp"}), "out_id"),
         Step(None, Parts({"data"}), "out_data"),
         Step(Part("dirrd"), Parts({"file", "cmp"}), "out_data")>>
    \o XattrSteps("out_dr", "out_xr")
    \o <<Step(Part("tree"), Parts({"dirrd", "idtbl"}), "out")>>

TarLadder ==
    Rungs(<<<<"out", "tree">>, <<"out_xr", "xattr">>, <<"out_dr", "dirrd">>,
            <<"out_data", "data">>, <<"out_id", "idtbl">>, <<"out_cmp", "cmp">>,
            <<"out_fd", "file">>, <<"out_ostrm", "out_file">>,
            <<"out_dirs", "none">>>>)

\* open_sfqs for image n.  When it fails it takes apart what it has made; where
\* not even the file could be opened there is nothing, and main goes on at
\* "closed".  A label of image n is a pair too.
open_sfqs(n, closed) ==
    LET I(name) == <<name, n>>
    IN  <<Step(I("file"), {}, closed), Step(None, {I("file")}, I("fail_file")),
          Step(I("cmp"), {}, I("fail_file")), Step(I("idtbl"), {}, I("fail_cmp")),
          Step(None, {I("idtbl"), I("file"), I("cmp")}, I("fail_id")),
          Step(I("dirrd"), {I("file"), I("cmp")}, I("fail_id")),
          Step(I("tree"), {I("dirrd"), I("idtbl")}, I("fail_dr")),
          Step(I("data"), {I("file"), I("cmp")}, I("fail_tree")),
          Step(None, {I("data")}, I("fail_data"))>>

\* The labels of open_sfqs; from the first one on they do what close_sfqs does.
close_sfqs(n) ==
    LET I(name) == <<name, n>>
    IN  <<<<I("fail_data"), I("data")>>, <<I("fail_tree"), I("tree")>>,
          <<I("fail_dr"), I("dirrd")>>, <<I("fail_id"), I("idtbl")>>,
          <<I("fail_cmp"), I("cmp")>>, <<I("fail_file"), I("file")>>>>

\* A second image that cannot be opened ends the program at once.
DiffStepsReturn == open_sfqs(1, <<"end", 1>>) \o open_sfqs(2, <<"end", 1>>)

DiffSteps == open_sfqs(1, <<"end", 1>>) \o open_sfqs(2, <<"fail_data", 1>>)

DiffLadder == close_sfqs(2) \o close_sfqs(1) \o <<<<<<"end", 1>>, None>>>>

Steps == CASE tool = "rdsquashfs" -> RdSteps
           [] tool = "sqfs2tar" -> TarSteps
           [] tool = "sqfsdiff" -> DiffSteps

Ladder == CASE tool = "rdsquashfs" -> RdLadder
            [] tool = "sqfs2tar" -> TarLadder
            [] tool = "sqfsdiff" -> DiffLadder

Rung(label) == CHOOSE i \in DOMAIN Ladder : Ladder[i][1] = label

At(where, n) == [at |-> where, n |-> n]

-----------------------------------------------------------------------------
(* The options of rdsquashfs: an operation with a path, "describe", which   *)
(* has none, or one of those that end the program.                          *)

PathOps == {"cat", "rdattr", "stat", "ls", "unpack"}

\* free of what may be NULL.
FreePath == IF cmdpath = None THEN <<>> ELSE <<cmdpath>>

Exit(s, gone) ==
    /\ pc' = At("end", 0) /\ status' = s
    /\ live' = live \ Range(gone) /\ freed' = freed \o gone
    /\ UNCHANGED <<op, cmdpath, made>>

\* get_path: the old path is freed first; a path that is not valid ends the
\* program, its copy freed.
PathOption(o, path, valid) ==
    IF valid
    THEN /\ op' = o /\ cmdpath' = path
         /\ freed' = freed \o FreePath
         /\ live' = (live \ Range(FreePath)) \cup {path}
         /\ made' = Append(made, path)
         /\ UNCHANGED <<pc, status>>
    ELSE Exit(1, FreePath)

DescribeOption ==
    /\ op' = "describe" /\ cmdpath' = None
    /\ freed' = freed \o FreePath
    /\ live' = live \ Range(FreePath)
    /\ UNCHANGED <<made, pc, status>>

process_command_line ==
    /\ pc.at = "options"
    /\ \/ /\ Len(given) < MaxOptions
          /\ \E o \in PathOps \cup {"describe", "help", "unknown"} :
                /\ given' = Append(given, o)
                /\ \/ /\ o \in PathOps
                      /\ \E valid \in BOOLEAN :
                            PathOption(o, <<"path", Len(given) + 1>>, valid)
                   \/ o = "describe" /\ DescribeOption
                   \/ o = "help" /\ Exit(0, FreePath)
                   \/ o = "unknown" /\ Exit(1, FreePath)
       \/ \* no operation, or no image
          Exit(1, FreePath) /\ UNCHANGED given
       \/ /\ op # "none"
          /\ pc' = At("open", 1)
          /\ UNCHANGED <<op, cmdpath, given, live, made, freed, status>>
    /\ UNCHANGED <<tool, xattrs, wrap>>

-----------------------------------------------------------------------------

Leave(label) == pc' = At("leave", Rung(label))

\* The next call of the ones that open the image, failing or not.
OpenStep ==
    /\ pc.at = "open"
    /\ LET s == Steps[pc.n]
       IN  \/ Leave(s.label) /\ UNCHANGED <<live, made>>
           \/ /\ pc' = IF pc.n = Len(Steps) THEN At("work", 1)
                       ELSE At("open", pc.n + 1)
              /\ IF s.make = None THEN UNCHANGED <<live, made>>
                 ELSE live' = live \cup {s.make} /\ made' = Append(made, s.make)
    /\ UNCHANGED <<tool, xattrs, wrap, op, cmdpath, given, freed, status>>

\* The work of the tool, after which everything is destroyed.
Work ==
    /\ pc.at = "work"
    /\ pc' = At("leave", 1)
    /\ status' \in IF tool = "sqfsdiff" THEN {0, 1, 2} ELSE {0, 1}
    /\ UNCHANGED <<tool, xattrs, wrap, op, cmdpath, given, live, made, freed>>

\* sqfs_destroy, or free where it may be NULL, of what a rung names: the
\* xattr readers, the tree of sqfs2tar and the path of rdsquashfs are tested;
\* a compressing stream destroys the one it wraps.
Gone(part) ==
    IF \/ part = None
       \/ part[1] = "xattr" /\ part \notin live
       \/ part[1] = "tree" /\ tool = "sqfs2tar" /\ part \notin live
    THEN <<>>
    ELSE IF part[1] = "path" THEN FreePath
    ELSE IF part[1] = "out_file"
    THEN IF Part("wrapper") \in live THEN <<Part("wrapper"), Part("stdout")>>
         ELSE <<Part("stdout")>>
    ELSE <<part>>

LeaveStep ==
    /\ pc.at = "leave"
    /\ LET gone == Gone(Ladder[pc.n][2])
       IN  freed' = freed \o gone /\ live' = live \ Range(gone)
    /\ pc' = IF pc.n = Len(Ladder) THEN At("end", 0) ELSE At("leave", pc.n + 1)
    /\ UNCHANGED <<tool, xattrs, wrap, op, cmdpath, given, made, status>>

Init == /\ tool \in Tools
        /\ xattrs \in (IF tool = "sqfsdiff" THEN {FALSE} ELSE BOOLEAN)
        /\ wrap \in (IF tool = "sqfs2tar" THEN BOOLEAN ELSE {FALSE})
        /\ op = "none" /\ cmdpath = None /\ given = <<>>
        /\ pc = IF tool = "rdsquashfs" THEN At("options", 0) ELSE At("open", 1)
        /\ live = {} /\ made = <<>> /\ freed = <<>>
        /\ status = IF tool = "sqfsdiff" THEN 2 ELSE 1

Next == process_command_line \/ OpenStep \/ Work \/ LeaveStep

Spec == Init /\ [][Next]_vars

-----------------------------------------------------------------------------

\* Whichever call fails, main of rdsquashfs, sqfs2tar and sqfsdiff has at its
\* end destroyed each part that it made exactly once and nothing that it did
\* not make.  (Where sqfs2tar cannot make its compressing stream, the stream to
\* be wrapped is left behind.)
DestroyedOnce ==
    /\ IsInjective(freed)
    /\ Range(freed) \subseteq Range(made)
    /\ pc.at = "end" =>
          \/ Range(freed) = Range(made)
          \/ wrap /\ Range(made) = Parts({"stdout"})

\* No part is used, and none holds a pointer, once what it needs is gone or
\* before it is there; with the path that rdsquashfs works on this goes for
\* the operation, which is the last one the command line names.
NothingDangles ==
    /\ \A part \in live : Uses(part) \subseteq live
    /\ pc.at = "open" => Steps[pc.n].use \subseteq live
    /\ pc.at = "work" /\ tool = "rdsquashfs" =>
          /\ op = Last(given)
          /\ cmdpath = IF op = "describe" THEN None ELSE <<"path", Len(given)>>
          /\ cmdpath # None => cmdpath \in live
=============================================================================
