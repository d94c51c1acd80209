----------------------------- MODULE Conversions -----------------------------
(***************************************************************************)
(* The listing that rdsquashfs --describe prints, as gensquashfs           *)
(* --pack-file reads it: one line for a node, from the name on.  And a     *)
(* walk that tries the conversions of Numbers and of the listing on one    *)
(* number after the other and on every short text over a few characters.   *)
(***************************************************************************)
EXTENDS Numbers, Names

CONSTANTS
  FieldSizes, \* characters of a numeric field
  Radix,      \* 10: base of the lengths in a PAX header
  Small,      \* numbers up to this are all tried,
  Stride,     \* and then every so many
  Chars,      \* characters of the texts
  MaxChars    \* bound on their lengths

Quote == 34
Backslash == 92
Minus == 45
IsSpace(c) == c \in 9 .. 13 \cup {Space}

------------------------------------------------------------------------------
(* bin/rdsquashfs/describe.c *)


(* A path with a space or a quote in it is put in quotes, and a quote has a *)
(* backslash put before it. *)
print_name(name, dont_escape) ==
  IF dont_escape \/ ToSet(name) \cap {Space, Quote} = {} THEN name
  ELSE <<Quote>> \o FlattenSeq([i \in DOMAIN name |-> IF name[i] = Quote THEN <<Backslash, Quote>>
                                                       ELSE <<name[i]>>]) \o <<Quote>>

(* printf, which takes an id for an int. *)
PrintInt(v) ==
  LET digits(x) == Text(Digits(x, 10, num_digits(x, 10)))
  IN  IF v < UIntMod \div 2 THEN digits(v) ELSE <<Minus>> \o digits(UIntMod - v)

print_perm(n) ==
  <<Space, Digit(0)>> \o Text(Digits(n.perm, 8, num_digits(n.perm, 8)))
    \o <<Space>> \o PrintInt(n.uid) \o <<Space>> \o PrintInt(n.gid)

print_simple(n, extra) ==
  print_name(n.name, FALSE) \o print_perm(n) \o (IF extra = <<>> THEN <<>> ELSE <<Space>> \o extra)

------------------------------------------------------------------------------
(* lib/fstree/fstree_from_file.c *)

Bad == [ok |-> FALSE]
From(line, i) == SubSeq(line, i, Len(line))
CharAt(line, i) == IF i \in DOMAIN line THEN line[i] ELSE 0
SpaceRun(line) == Max({i \in 0 .. Len(line) : \A j \in 1 .. i : IsSpace(line[j])})
SkipBlank(line) == From(line, SpaceRun(line) + 1)

RECURSIVE Unquote(_, _, _)

(* Behind the first quote, up to the next one that has no backslash. *)
Unquote(line, i, got) ==
  IF CharAt(line, i) \in {0, Quote} THEN [path |-> got, end |-> i]
  ELSE IF line[i] = Backslash /\ CharAt(line, i + 1) \in {Quote, Backslash}
       THEN Unquote(line, i + 2, Append(got, line[i + 1]))
  ELSE Unquote(line, i + 1, Append(got, line[i]))

(* "isolate path": the path and what follows it. *)
isolate_path(line) ==
  LET q == Unquote(line, 2, <<>>)
      n == Max({i \in 0 .. Len(line) : \A j \in 1 .. i : ~IsSpace(line[j])})
      path == IF CharAt(line, 1) = Quote THEN q.path ELSE SubSeq(line, 1, n)
      end  == IF CharAt(line, 1) = Quote THEN q.end ELSE n
      closed == CharAt(line, 1) = Quote => CharAt(line, q.end) = Quote
  IN  IF ~closed \/ ~IsSpace(CharAt(line, end + 1)) \/ canonicalize_text(path) \in {<<-1>>, <<>>}
      THEN Bad
      ELSE [ok |-> TRUE, path |-> canonicalize_text(path), rest |-> SkipBlank(From(line, end + 1))]

(* A number of digits of a base, no more than a limit. *)
read_field(line, base, limit) ==
  LET n == DigitRun(line)
      v == Accumulate(Values(SubSeq(line, 1, n)), base, limit)
  IN  IF n = 0 \/ v < 0 \/ (\E i \in 1 .. n : line[i] - 48 >= base) THEN Bad
      ELSE [ok |-> TRUE, v |-> v, rest |-> From(line, n + 1)]

(* What there is to a line, which has its keyword taken off. *)
handle_line(line) ==
  LET p    == isolate_path(line)
      mode == read_field(p.rest, 8, 4095)
      uid  == read_field(SkipBlank(mode.rest), 10, UIntMod - 1)
      gid  == read_field(SkipBlank(uid.rest), 10, UIntMod - 1)
  IN  IF ~p.ok THEN Bad
      ELSE IF ~mode.ok THEN Bad
      ELSE IF ~IsSpace(CharAt(mode.rest, 1)) \/ ~uid.ok THEN Bad
      ELSE IF ~IsSpace(CharAt(uid.rest, 1)) \/ ~gid.ok THEN Bad
      ELSE [ok |-> TRUE, path |-> p.path, perm |-> mode.v, uid |-> uid.v, gid |-> gid.v,
            extra |-> IF IsSpace(CharAt(gid.rest, 1)) THEN SkipBlank(gid.rest) ELSE <<>>]

------------------------------------------------------------------------------
VARIABLES n, text

vars == <<n, text>>

Init == n = 0 /\ text = <<>>

NextNumber ==
  /\ text = <<>>
  /\ n < 256 ^ WordBytes \div 2 - Stride
  /\ n' = IF n < Small THEN n + 1 ELSE n + Stride
  /\ text' = text

NextText ==
  /\ n = 0
  /\ Len(text) < MaxChars
  /\ \E c \in Chars : text' = Append(text, c)
  /\ n' = n

Exhausted ==
  /\ \/ n >= 256 ^ WordBytes \div 2 - Stride
     \/ Len(text) = MaxChars
  /\ UNCHANGED vars

Next == NextNumber \/ NextText \/ Exhausted

Spec == Init /\ [][Next]_vars

------------------------------------------------------------------------------

(* decode_header takes a field with the highest bit set for negative. *)
Signed(v) == IF v >= Word \div 2 THEN v - Word ELSE v

(* What write_number and write_number_signed put into a field of a header,  *)
(* read_number and decode_header get out again, unless the number does not  *)
(* fit an unsigned int and still is written as digits.                      *)
FieldsRead ==
  \A d \in FieldSizes :
    /\ n < UIntMod \/ n >= 8 ^ d => Signed(read_number(write_number(n, d))) = n
    /\ d > WordBytes => Signed(read_number(write_number_signed(-n, d))) = -n \/ n = 0

(* write_header says the size of a file, whatever it is.                    *)
FieldsReadAlways == \A d \in FieldSizes : read_number(write_number(n, d)) = n

(* The length of a line of a PAX header counts its own digits:              *)
(* prefix_digit_len ends, and at the number of digits that the sum has.     *)
LengthsCountThemselves ==
  num_digits(n + prefix_digit_len(n, Radix), Radix) = prefix_digit_len(n, Radix)

Decimal(v) == Text(Digits(v, 10, num_digits(v, 10)))

(* parse_size gives the number a text stands for, times its suffix, or      *)
(* refuses it, which it does exactly for what a size_t does not hold and    *)
(* for what is no size.                                                     *)
SizesRight ==
  /\ parse_size(Decimal(n), 0) = (IF n <= SizeMax THEN n ELSE -1)
  /\ \A c \in DOMAIN SizeSuffixes :
       parse_size(Append(Decimal(n), c), 0)
         = (IF n <= SizeMax /\ n <= SizeMax \div SizeSuffixes[c] THEN n * SizeSuffixes[c] ELSE -1)
  /\ (\E i \in DOMAIN text : ~IsDigit(text[i]) /\ (i < Len(text) \/ i = 1))
       => parse_size(text, 0) = -1

(* "If reference is non-zero, the suffix '%' can be used to compute the     *)
(* result as a multiple of the reference value."                            *)
PercentRight == n <= 100 => parse_size(Append(Decimal(n), Percent), 100) = n

(* Reference: the text that a decoder is made for. *)
Sextet(v) ==
  CASE v < 26 -> v + 65 [] v \in 26 .. 51 -> v + 71 [] v \in 52 .. 61 -> v - 4
    [] v = 62 -> 43 [] OTHER -> 47
GroupText(bytes) ==
  LET v == FoldLeft(LAMBDA x, b : x * 256 + b, 0, bytes) * 256 ^ (3 - Len(bytes))
      d == Digits(v, 64, 4)
  IN  [i \in 1 .. 4 |-> IF i <= Len(bytes) + 1 THEN Sextet(d[i]) ELSE 61]
Base64(bytes) ==
  FlattenSeq([i \in 1 .. (Len(bytes) + 2) \div 3 |->
                GroupText(SubSeq(bytes, 3 * i - 2, Min({3 * i, Len(bytes)})))])
Hex(v) == IF v < 10 THEN v + 48 ELSE v + 55
UrlCoded(bytes) ==
  FlattenSeq([i \in DOMAIN bytes |->
    IF bytes[i] = Percent \/ bytes[i] > 127
    THEN <<Percent, Hex(bytes[i] \div 16), Hex(bytes[i] % 16)>> ELSE <<bytes[i]>>])

(* base64_decode and urldecode undo the encodings of attribute values and   *)
(* names, padded or not, at every length.                                   *)
AttributesDecoded ==
  /\ base64_decode(Base64(text)) = text
  /\ base64_decode(Meant(Base64(text))) = text
  /\ urldecode(UrlCoded(text)) = text

(* Components as Names has them: 0 is the dot. *)
Component(chars) == [i \in DOMAIN chars |-> IF chars[i] = Period THEN 0 ELSE chars[i]]
Components(chars) ==
  LET cuts == {0, Len(chars) + 1} \cup {i \in DOMAIN chars : chars[i] = Slash}
      order == SetToSortSeq(cuts, <)
  IN  [i \in 1 .. Len(order) - 1 |-> Component(SubSeq(chars, order[i] + 1, order[i + 1] - 1))]

(* canonicalize_name, which works on characters and in place, does what     *)
(* this project's other modules take it to do on components, and has        *)
(* nothing left to do the second time.                                      *)
CanonicalOnComponents ==
  LET c == canonicalize_text(text)
      r == canonicalize_name(Components(text))
  IN  IF c = <<-1>> THEN r.ret = "EINVAL"
      ELSE /\ r.ret = "ok"
           /\ r.path = (IF c = <<>> THEN <<>> ELSE Components(c))
           /\ canonicalize_text(c) = c

Listed(name, id, target) ==
  handle_line(print_simple([name |-> name, perm |-> id % 4096, uid |-> id, gid |-> id], target))
Read(name, id, target) ==
  [ok |-> TRUE, path |-> name, perm |-> id % 4096, uid |-> id, gid |-> id, extra |-> target]
(* What sqfs_tree_node_get_path and canonicalize_name give a node. *)
IsNodePath(t) == t # <<>> /\ canonicalize_text(t) = t

(* gensquashfs reads from a line that rdsquashfs prints the path, the ids,  *)
(* the permissions and the target of the node, spaces and quotes in the     *)
(* path included, unless there are backslashes in it, or an id is too large *)
(* for an int, or the target begins with a space.                           *)
ListingReadBut ==
  /\ n < UIntMod \div 2 => Listed(<<65>>, n, <<66>>) = Read(<<65>>, n, <<66>>)
  /\ IsNodePath(text) /\ Backslash \notin ToSet(text) => Listed(text, 1, <<>>) = Read(text, 1, <<>>)
  /\ text # <<>> /\ ~IsSpace(text[1]) => Listed(<<65>>, 1, text) = Read(<<65>>, 1, text)

(* rdsquashfs.1: "Produce a file listing from the image compatible with the *)
(* format consumed by gensquashfs."                                         *)
ListingRead == IsNodePath(text) => Listed(text, 1, <<>>) = Read(text, 1, <<>>)
=============================================================================
