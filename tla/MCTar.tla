-------------------------------- MODULE MCTar --------------------------------
(* Images and archives that bring out what is special in the format. *)
EXTENDS TarTools

N(name, mode, inum) ==
  [name |-> name, mode |-> mode, uid |-> 1, gid |-> 0, rdev |-> 0, inum |-> inum, target |-> <<>>,
   data |-> <<>>, xattr |-> <<>>, children |-> <<>>, freed |-> FALSE]
Dir(name, inum, children) == [N(name, "dir", inum) EXCEPT !.children = children]
Bytes(s) == [i \in DOMAIN s |-> Byte(s[i])]
File(name, inum, s) == [N(name, "file", inum) EXCEPT !.data = Bytes(s)]
User(name, value) == [key |-> [prefix |-> "user", name |-> name], value |-> value]

A == <<1>>
B == <<2, 2>>
Long == <<3, 3, 3, 3, 3, 3>>

(* Every kind of node, and names and targets that do not fit. *)
Kinds ==
  Dir(<<>>, 9, <<[File(A, 1, <<7, 7, 0, 0, 5>>) EXCEPT !.xattr = <<User(<<1>>, <<5>>), User(<<2, 2>>, <<6, 6, 6>>)>>],
                 [N(B, "slink", 2) EXCEPT !.target = <<Long>>],
                 [N(<<2, 3>>, "cdev", 3) EXCEPT !.rdev = 7, !.uid = 70],
                 Dir(Long, 4, <<File(A, 5, <<7, 7, 7, 7>>), [N(B, "slink", 8) EXCEPT !.target = <<A>>]>>),
                 N(<<4>>, "fifo", 6)>>)

(* Links, an empty file, a name that is not sane and a socket. *)
Linked ==
  Dir(<<>>, 9, <<Dir(A, 8, <<File(A, 1, <<0, 0, 6>>), File(Long, 2, <<>>)>>), File(B, 1, <<0, 0, 6>>),
                 Dir(<<3>>, 7, <<File(Long, 2, <<>>)>>), File(<<4, Slash>>, 3, <<5>>), N(<<5>>, "sock", 4)>>)

Case(trees, as, codec) ==
  [trees |-> trees, as |-> as, from |-> as, codec |-> codec, no_links |-> FALSE, no_xattr |-> FALSE,
   dont_skip |-> FALSE, no_retarget |-> FALSE, foreign |-> <<>>, expect |-> {}]

(* A directory that was asked for twice. *)
One == Dir(<<>>, 9, <<Dir(A, 8, <<File(B, 2, <<6>>)>>), N(<<5>>, "fifo", 4)>>)
Two == Dir(<<>>, 9, <<Dir(A, 8, <<File(A, 1, <<5>>), File(B, 2, <<6>>)>>), File(B, 3, <<>>)>>)

Own ==
  {Case(<<t>>, as, "none") : t \in {Kinds, Linked}, as \in {NoRoot, <<B, A>>}}
  \cup {Case(<<Linked>>, NoRoot, "gzip"), Case(<<One, Two>>, NoRoot, "none"),
        [Case(<<Linked>>, <<A>>, "none") EXCEPT !.no_links = TRUE],
        [Case(<<Kinds>>, <<A>>, "none") EXCEPT !.no_xattr = TRUE, !.no_retarget = TRUE],
        [Case(<<Linked>>, NoRoot, "none") EXCEPT !.dont_skip = TRUE]}

------------------------------------------------------------------------------
(* Archives of others. *)

Hdr(type, name, size) ==
  [NoHeader EXCEPT !.name = name, !.type = type, !.size = write_number(size, SizeDigits), !.magic = "posix"]
Entry(h, bytes) ==
  Record("hdr", update_checksum(h)) \o bytes
  \o ZeroCells((R - (Len(bytes) % R)) % R)
Pax(pairs) ==
  LET lines == FlattenSeq([i \in DOMAIN pairs |-> PaxLine(pairs[i])])
  IN  Entry(Hdr("pax", <<A>>, Len(lines)), lines)
Pair(prefix, value) == [key |-> [prefix |-> prefix, name |-> <<>>], value |-> value]
Num(n) == Text(Digits(n, 10, 2))
Region(offset, count) == [offset |-> offset, count |-> count]
Lines(numbers) == FlattenSeq([i \in DOMAIN numbers |-> Bytes(Append(Num(numbers[i]), 10))])

Sparse == <<Region(2, 3), Region(7, 2), Region(11, 0)>>
Stored == Bytes(<<5, 6, 7, 8, 9>>)
Expanded == Bytes(<<0, 0, 5, 6, 7, 0, 0, 8, 9, 0, 0>>)

Old ==
  Record("hdr", update_checksum([Hdr("gnu_sparse", <<B>>, 5) EXCEPT !.magic = "gnu",
           !.sparse = SubSeq(Sparse, 1, 2), !.isextended = TRUE, !.realsize = write_number(11, SizeDigits)]))
  \o Record("ext", [sparse |-> SubSeq(Sparse, 3, 3), isextended |-> FALSE])
  \o Stored \o ZeroCells(3)

Pax00 ==
  Pax(<<Pair("sparse.size", Num(11)), Pair("path", <<Dot, B>>)>>
      \o FlattenSeq([i \in DOMAIN Sparse |-> <<Pair("sparse.offset", Num(Sparse[i].offset)),
                                               Pair("sparse.numbytes", Num(Sparse[i].count))>>]))
  \o Entry(Hdr("file", <<A>>, 5), Stored)

Pax01 ==
  Pax(<<Pair("sparse.map", FlattenSeq([i \in DOMAIN Sparse |-> <<Num(Sparse[i].offset), Num(Sparse[i].count)>>])),
        Pair("sparse.size", Num(11)), Pair("path", <<B>>), Pair("other", <<>>)>>)
  \o Entry(Hdr("file", <<A>>, 5), Stored)

Pax10 ==
  LET map == Lines(<<3>> \o FlattenSeq([i \in DOMAIN Sparse |-> <<Sparse[i].offset, Sparse[i].count>>]))
      front == map \o ZeroCells((R - (Len(map) % R)) % R)
  IN  Pax(<<Pair("sparse.major", <<>>), Pair("sparse.size", Num(11)), Pair("path", <<B>>)>>)
      \o Entry(Hdr("file", <<A>>, Len(front) + 5), front \o Stored)

(* Global headers, an entry of an unknown type, attributes as libarchive    *)
(* writes them, and a name in two fields.                                   *)
Various ==
  ZeroRecord \o Entry(Hdr("pax_global", <<A>>, 3), Bytes(<<1, 2, 3>>))
  \o Entry(Hdr("contiguous", <<<<9>>>>, 5), Bytes(<<1, 2, 3, 4, 5>>))
  \o Entry(Hdr("file", <<DotDot, A>>, 2), Bytes(<<3, 3>>))
  \o Pax(<<[key |-> [prefix |-> "libarchive", name |-> <<37, 54, 49>>], value |-> <<90, 103>>],
           Pair("uid", Num(99)), Pair("gid", Num(98)), Pair("size", Num(3)),
           [key |-> [prefix |-> "system", name |-> <<1>>], value |-> <<1>>]>>)
  \o Entry([Hdr("file", <<B>>, 0) EXCEPT !.prefix = <<A>>], Bytes(<<4, 5, 6>>))
  \o Pax(<<Pair("linkpath", <<A, B>>)>>) \o Entry(Hdr("link", <<Long>>, 0), <<>>)

ABdir == Thing(<<A>>, "dir", 0, 0, 0, <<>>, <<>>, <<>>)
ABfile(path) == Thing(path, "file", 99, 98, 0, <<>>, Bytes(<<4, 5, 6>>),
                      [prefix |-> "user", name |-> <<97>>] :> <<102>>)

Foreign(archive, expect) ==
  [Case(<<>>, NoRoot, "none") EXCEPT !.foreign = archive \o ZeroRecord \o ZeroRecord, !.expect = expect]

Others ==
  {Foreign(f \o Entry(Hdr("fifo", <<A>>, 0), <<>>),
           {Thing(<<B>>, "file", 0, 0, 0, <<>>, Expanded, <<>>),
            Thing(<<A>>, "fifo", 0, 0, 0, <<>>, <<>>, <<>>)}) :
     f \in {Old, Pax00, Pax01, Pax10}}
  \cup {Foreign(Various, {ABdir, ABfile(<<A, B>>), ABfile(<<Long>>)})}

SomeCases == Own \cup Others

SomeBlocks == [c \in Codecs |-> CASE c = "bzip2" -> 4 [] c = "gzip" -> 3 [] OTHER -> 2]
=============================================================================
