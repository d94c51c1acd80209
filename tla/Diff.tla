-------------------------------- MODULE Diff --------------------------------
(***************************************************************************)
(* sqfsdiff: two trees are walked side by side.  node_compare calls itself *)
(* on the children and hands on the worst of what it was told, which is    *)
(* what a list of pairs still to be compared and one status do.            *)
(***************************************************************************)
EXTENDS Integers, Sequences, FiniteSets, SequencesExt, Names

CONSTANT Cases \* [old, new, flags, super, bad]: bad holds what cannot be read

VARIABLES
  case,
  phase,   \* "compare", "super", "out"
  pairs,   \* [a, b, path] still to be compared
  ret,     \* -1, 0 or 1
  report,  \* lines printed, [what, path]
  out      \* files extracted, [side, path, data]

vars == <<case, phase, pairs, ret, report, out>>

Flag(f) == f \in case.flags

Line(what, path) == [what |-> what, path |-> path]

------------------------------------------------------------------------------

(* extract: the contents of a file below the directory of its side. *)
extract(side, n, path) ==
  [ok |-> <<side, path>> \notin case.bad, out |-> {[side |-> side, path |-> path, data |-> n.data]}]

Extracted(sides) ==
  [ok |-> \A i \in DOMAIN sides : sides[i].ok,
   out |-> UNION {sides[i].out : i \in {j \in DOMAIN sides : \A k \in 1 .. j : sides[k].ok}}]

RECURSIVE print_omitted(_, _, _)

(* A node that only one side has, and all below it. *)
print_omitted(side, n, path) ==
  LET x    == IF Flag("extract") /\ n.mode = "file" THEN extract(side, n, path)
              ELSE [ok |-> TRUE, out |-> {}]
      self == [ok |-> x.ok, out |-> IF x.ok THEN x.out ELSE {}, report |-> <<Line(side, path)>>]
      join(s, c) == IF ~s.ok THEN s
                    ELSE LET r == print_omitted(side, c, Append(path, c.name))
                         IN  [ok |-> r.ok, out |-> s.out \cup r.out, report |-> s.report \o r.report]
  IN  FoldLeft(join, self, n.children)

(* The two lists of children, the places in them and what was printed; the  *)
(* result is 1 once an entry was left out. *)
Entries(old, new) ==
  [old |-> old, new |-> new, i |-> 1, j |-> 1, ret |-> 0, report |-> <<>>, out |-> {}]

Omit(s, side, n, path) ==
  LET r == print_omitted(side, n, Append(path, n.name))
  IN  [s EXCEPT !.ret = IF r.ok THEN 1 ELSE -1, !.report = @ \o r.report, !.out = @ \cup r.out]

Order(s) ==
  IF s.i > Len(s.old) THEN 1
  ELSE IF s.j > Len(s.new) THEN -1
  ELSE IF NameLess(s.old[s.i].name, s.new[s.j].name) THEN -1
  ELSE IF s.old[s.i].name = s.new[s.j].name THEN 0 ELSE 1


(* An entry is taken out of the list behind the one before it, and the one  *)
(* that follows is next. *)
Unlink(list, i) == [list |-> RemoveAt(list, i), at |-> i]

RECURSIVE compare_dir_entries(_, _)

compare_dir_entries(s, path) ==
  IF s.i > Len(s.old) /\ s.j > Len(s.new) THEN s
  ELSE IF Order(s) < 0
       THEN LET r == Omit(s, "<", s.old[s.i], path)
                u == Unlink(s.old, s.i)
            IN  IF r.ret < 0 THEN r ELSE compare_dir_entries([r EXCEPT !.old = u.list, !.i = u.at], path)
  ELSE IF Order(s) > 0
       THEN LET r == Omit(s, ">", s.new[s.j], path)
                u == Unlink(s.new, s.j)
            IN  IF r.ret < 0 THEN r ELSE compare_dir_entries([r EXCEPT !.new = u.list, !.j = u.at], path)
  ELSE compare_dir_entries([s EXCEPT !.i = @ + 1, !.j = @ + 1], path)

(* Mutant: the second file is not read to its end. *)
SameButLast(a, b) == Front(a) = Front(b)

(* A window of both files after the other. *)
SameContents(a, b) == a = b

compare_files(a, b, path) ==
  LET e == Extracted(<<extract("<", a, path), extract(">", b, path)>>)
      different == IF ~Flag("extract") THEN [ret |-> 1, out |-> {}]
                   ELSE [ret |-> IF e.ok THEN 1 ELSE -1, out |-> e.out]
  IN  IF Len(a.data) # Len(b.data) THEN different
      ELSE IF Flag("no_contents") \/ a.data = <<>> THEN [ret |-> 0, out |-> {}]
      ELSE IF {<<"<", path>>, <<">", path>>} \cap case.bad # {} THEN [ret |-> -1, out |-> {}]
      ELSE IF SameContents(a.data, b.data) THEN [ret |-> 0, out |-> {}]
      ELSE different

------------------------------------------------------------------------------
(* node_compare *)

(* What makes two nodes differ before their contents are looked at. *)
Differences(a, b) ==
     (IF a.ext # b.ext THEN {"basic or extended type"} ELSE {})
  \cup (IF ~Flag("no_perm") /\ a.perm # b.perm THEN {"permissions"} ELSE {})
  \cup (IF ~Flag("no_owner") /\ a.uid # b.uid THEN {"ownership"} ELSE {})
  \cup (IF Flag("timestamp") /\ a.mtime # b.mtime THEN {"timestamp"} ELSE {})
  \cup (IF Flag("inode_num") /\ a.inum # b.inum THEN {"inode number"} ELSE {})

Max01(a, b) == IF a < 0 \/ b < 0 THEN -1 ELSE IF a > 0 \/ b > 0 THEN 1 ELSE 0

(* The contents of two nodes of one type: what is found, and the pairs that *)
(* are compared next.  A link target is printed only. *)
Inside(a, b, path) ==
  LET c == compare_files(a, b, path)
  IN  With(compare_dir_entries(Entries(a.children, b.children), path), LAMBDA d :
        LET none == [ret |-> 0, report |-> <<>>, out |-> {}, pairs |-> <<>>]
        IN  CASE a.mode = "dir" ->
                   [ret |-> d.ret, report |-> d.report, out |-> d.out,
                    pairs |-> IF d.ret < 0 THEN <<>>
                              ELSE [i \in 1 .. (IF Len(d.old) < Len(d.new) THEN Len(d.old) ELSE Len(d.new)) |->
                                      [a |-> d.old[i], b |-> d.new[i], path |-> Append(path, d.old[i].name)]]]
              [] a.mode = "file" ->
                   [none EXCEPT !.ret = c.ret, !.out = c.out,
                                !.report = IF c.ret > 0 THEN <<Line("contents", path)>> ELSE <<>>]
              [] a.mode = "slink" ->
                   [none EXCEPT !.report = IF a.data # b.data THEN <<Line("target", path)>> ELSE <<>>]
              [] a.mode \in {"bdev", "cdev"} ->
                   [none EXCEPT !.ret = IF a.data # b.data THEN 1 ELSE 0,
                                !.report = IF a.data # b.data THEN <<Line("device", path)>> ELSE <<>>]
              [] OTHER -> none)

CompareNode ==
  LET p == Head(pairs)
      d == Differences(p.a, p.b)
      r == Inside(p.a, p.b, p.path)
      status == IF d # {} THEN 1 ELSE 0
  IN  /\ phase = "compare"
      /\ pairs # <<>>
      /\ IF p.a.mode # p.b.mode
         THEN /\ ret' = 1
              /\ report' = Append(report, Line("type", p.path))
              /\ pairs' = Tail(pairs)
              /\ UNCHANGED <<phase, out>>
         ELSE /\ ret' = Max01(ret, Max01(status, r.ret))
              /\ report' = report \o [i \in 1 .. Cardinality(d) |-> Line(SetToSeq(d)[i], p.path)] \o r.report
              /\ out' = out \cup r.out
              /\ pairs' = r.pairs \o Tail(pairs)
              /\ phase' = IF r.ret < 0 THEN "out" ELSE phase
      /\ case' = case

(* compare_super_blocks, if it was asked for and the trees are alike: a     *)
(* line for every field that differs. *)
compare_super_blocks ==
  /\ phase = "compare"
  /\ pairs = <<>>
  /\ phase' = "out"
  /\ IF ret = 0 /\ Flag("super") /\ case.super[1] # case.super[2]
     THEN /\ ret' = 1
          /\ report' = report \o SetToSeq({Line(f, <<>>) : f \in
                         {g \in DOMAIN case.super[1] : case.super[1][g] # case.super[2][g]}})
     ELSE UNCHANGED <<ret, report>>
  /\ UNCHANGED <<case, pairs, out>>

Init ==
  /\ case \in Cases
  /\ phase = "compare"
  /\ pairs = <<[a |-> case.old, b |-> case.new, path |-> <<>>]>>
  /\ ret = 0
  /\ report = <<>>
  /\ out = {}

Next == CompareNode \/ compare_super_blocks

Spec == Init /\ [][Next]_vars

Status == CASE ret < 0 -> 2 [] ret > 0 -> 1 [] OTHER -> 0

------------------------------------------------------------------------------

RECURSIVE Flat(_, _)
Flat(n, path) ==
  {[path |-> path, node |-> n]} \cup UNION {Flat(n.children[i], Append(path, n.children[i].name)) : i \in DOMAIN n.children}
Old == Flat(case.old, <<>>)
New == Flat(case.new, <<>>)
Paths(tree) == {e.path : e \in tree}
At(tree, path) == (CHOOSE e \in tree : e.path = path).node

(* A path below two nodes of different types is not looked at. *)
Looked(path) ==
  \A i \in 0 .. Len(path) - 1 :
    LET q == SubSeq(path, 1, i)
    IN  q \in Paths(Old) \cap Paths(New) => At(Old, q).mode = At(New, q).mode

Alike(a, b) ==
  /\ a.mode = b.mode
  /\ Differences(a, b) = {}
  /\ a.mode \in {"bdev", "cdev"} => a.data = b.data
  /\ a.mode = "file" => IF Flag("no_contents") THEN Len(a.data) = Len(b.data) ELSE a.data = b.data

SameTrees ==
  /\ Paths(Old) = Paths(New)
  /\ \A p \in Paths(Old) : Alike(At(Old, p), At(New, p))
SameSuper == Flag("super") => case.super[1] = case.super[2]
SameLinks ==
  \A p \in Paths(Old) \cap Paths(New) :
    Looked(p) /\ At(Old, p).mode = "slink" /\ At(New, p).mode = "slink" => At(Old, p).data = At(New, p).data

(* The exit status is 0 exactly when the images are alike in all that is    *)
(* compared, the targets of links aside, and 2 only when something could    *)
(* not be read or written.                                                  *)
StatusRightButLinks ==
  phase = "out" =>
    /\ Status # 2 => (Status = 0 <=> SameTrees /\ SameSuper)
    /\ Status = 2 => case.bad # {}

(* usage of sqfsdiff: "the two images are considered equal if each          *)
(* directory contains the same entries, symlink with the same paths have    *)
(* the same targets, ..." and "0 means equal, 1 means different, 2 means    *)
(* problem".                                                                *)
StatusRight == phase = "out" => (Status = 0 => SameTrees /\ SameSuper /\ SameLinks)

(* The lines that two nodes of one path call for. *)
Expected(p, a, b) ==
  IF a.mode # b.mode THEN {Line("type", p)}
  ELSE {Line(d, p) : d \in Differences(a, b)}
       \cup (IF a.mode = "file" /\ ~Alike([a EXCEPT !.ext = b.ext, !.perm = b.perm, !.uid = b.uid,
                                              !.mtime = b.mtime, !.inum = b.inum], b)
             THEN {Line("contents", p)} ELSE {})
       \cup (IF a.mode = "slink" /\ a.data # b.data THEN {Line("target", p)} ELSE {})
       \cup (IF a.mode \in {"bdev", "cdev"} /\ a.data # b.data THEN {Line("device", p)} ELSE {})

(* Every difference is printed, once, and nothing else is: an entry of one  *)
(* side only, whatever was taken out of the lists before it, and what two   *)
(* entries of one name do not have in common.                               *)
DifferencesReported ==
  phase = "out" /\ Status # 2 =>
    LET lines == SelectSeq(report, LAMBDA l : l.what \notin DOMAIN case.super[1])
    IN  /\ ToSet(lines) =
             UNION {Expected(p, At(Old, p), At(New, p)) : p \in {q \in Paths(Old) \cap Paths(New) : Looked(q)}}
               \cup {Line("<", p) : p \in {q \in Paths(Old) \ Paths(New) : Looked(q)}}
               \cup {Line(">", p) : p \in {q \in Paths(New) \ Paths(Old) : Looked(q)}}
        /\ IsInjective(lines)

(* --extract leaves the files that differ, of both sides and whole, and no  *)
(* others.                                                                  *)
ExtractedRight ==
  phase = "out" /\ Status # 2 =>
    \A side \in {"<", ">"} :
      LET mine   == IF side = "<" THEN Old ELSE New
          theirs == IF side = "<" THEN New ELSE Old
      IN  {x \in out : x.side = side}
            = {[side |-> side, path |-> e.path, data |-> e.node.data] : e \in
                 {f \in mine : /\ Flag("extract")
                               /\ f.node.mode = "file"
                               /\ Looked(f.path)
                               /\ \/ f.path \notin Paths(theirs)
                                  \/ LET g == At(theirs, f.path)
                                     IN  /\ g.mode = "file"
                                         /\ IF Flag("no_contents") THEN Len(g.data) # Len(f.node.data)
                                            ELSE g.data # f.node.data}}
=============================================================================
