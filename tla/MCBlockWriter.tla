---------------------------- MODULE MCBlockWriter ----------------------------
(* Instances of WriterClient for TLC. *)
EXTENDS WriterClient

Block(data, checksum, flags) == [data |-> data, checksum |-> checksum, flags |-> flags]

(* B and C have the same size and checksum and different contents; D has    *)
(* the contents of A, but as the compressed form of other data.             *)
A == Block(<<1>>, 11, {})
B == Block(<<2, 3>>, 12, {})
C == Block(<<2, 4>>, 12, {})
D == Block(<<1>>, 13, {"IS_COMPRESSED"})
Hole == Block(<<0, 0>>, 0, {"IS_SPARSE"})

File(blks, sentinel, flags) == [blocks |-> blks, sentinel |-> sentinel, flags |-> flags]

(* Files without a block that occurs twice. *)
DistinctFiles ==
  {File(<<A>>, TRUE, {}), File(<<B>>, FALSE, {}), File(<<A, B>>, TRUE, {}),
   File(<<A, C>>, FALSE, {}), File(<<B, Hole, A>>, TRUE, {}), File(<<D, B>>, TRUE, {}),
   File(<<Hole>>, TRUE, {}), File(<<B>>, FALSE, {"FRAGMENT_BLOCK"}),
   File(<<A>>, FALSE, {"DONT_DEDUPLICATE"})}

(* The same block several times in a row. *)
RepeatingFiles == {File(<<A>>, TRUE, {}), File(<<A, A>>, TRUE, {}), File(<<B>>, TRUE, {})}

(* Two blocks, not to be deduplicated. *)
UndeduplicatedFiles == {File(<<A, B>>, FALSE, {"DONT_DEDUPLICATE"})}

(* To be aligned to the device block size. *)
AlignedFiles == {File(<<A, B>>, FALSE, {"ALIGN"}), File(<<B>>, FALSE, {})}

(* Nothing of the above is left out here. *)
Everything == DistinctFiles \cup RepeatingFiles \cup UndeduplicatedFiles \cup AlignedFiles

UnalignedEnd == {File(<<A>>, TRUE, {}), File(<<B>>, FALSE, {"ALIGN"})}
=============================================================================
