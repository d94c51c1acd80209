------------------------------ MODULE MCUnpack ------------------------------
EXTENDS Unpack

CONSTANT SomeCapability

A == <<1>>
B == <<2>>
C == <<3>>

N(name, mode, perm, uid, data, children) ==
  [name |-> name, mode |-> mode, perm |-> perm, uid |-> uid, mtime |-> "then",
   xattr |-> IF mode = "file" THEN {"user", SomeCapability} ELSE {}, data |-> data, children |-> children]

Trees(uid) ==
  { N(<<>>, "dir", {"x"}, uid, <<>>,
      << N(A, "dir", {"r"}, uid, <<>>, << N(A, "file", {"r", "x", "s"}, uid, <<1, 0>>, <<>>),
                                         N(B, "dir", {}, uid, <<>>, <<>>),
                                         N(C, "slink", {}, uid, <<9>>, <<>>) >>),
         N(B, "file", {}, uid, <<0, 0, 2>>, <<>>),
         N(DotDot, "file", {"w"}, uid, <<3>>, <<>>) >>),
    N(<<>>, "dir", {"x"}, uid, <<>>,
      << N(A, "cdev", {"r"}, uid, <<>>, <<>>), N(B, "dir", {"s", "x"}, uid, <<>>, <<>>) >>),
    N(B, "file", {"s"}, uid, <<1>>, <<>>) }

Old(mode) ==
  [mode |-> mode, data |-> IF mode = "file" THEN <<[v |-> 7, hole |-> FALSE]>> ELSE <<>>,
   perm |-> {"r", "w", "x"}, uid |-> 1, mtime |-> "then", xattr |-> {}]
Disks ==
  {<<>>, [p \in {<<B>>} |-> Old("file")], [p \in {<<B>>} |-> Old("dir")], [p \in {<<A>>} |-> Old("dir")],
   [p \in {<<A>>, <<A, A>>} |-> IF p = <<A>> THEN Old("dir") ELSE Old("file")]}

SomeCases ==
  [tree : Trees(1) \cup Trees(2), disk : Disks, user : {0, 1},
   flags : SUBSET {"chmod", "chown", "times", "xattr"} \cup {{"no_sparse"}}]
SparseCases == [tree : Trees(1), disk : {<<>>}, user : {0}, flags : SUBSET {"no_sparse"}]
=============================================================================
