------------------------------- MODULE Numbers -------------------------------
(***************************************************************************)
(* Numbers and names as text: the fields of tar headers, sizes on command  *)
(* lines, encoded attribute names and values, and paths.                   *)
(*                                                                         *)
(* Text is a sequence of characters, and these are their codes.            *)
(***************************************************************************)
EXTENDS Integers, Sequences, SequencesExt, FiniteSetsExt

CONSTANTS
  UIntMod,   \* 2^32: what an unsigned int is counted modulo
  WordBytes, \* 8: bytes of an sqfs_u64
  SizeMax,   \* SIZE_MAX
  Kilo       \* 1024

ASSUME NumbersAssumption ==
  /\ UIntMod \in Nat \ {0} /\ WordBytes \in Nat \ {0}
  /\ SizeMax \in Nat /\ Kilo \in Nat \ {0}

Word == 256 ^ WordBytes
Space == 32
Digit(d) == 48 + d
IsOctal(c) == c \in 48 .. 55
IsDigit(c) == c \in 48 .. 57

------------------------------------------------------------------------------
(* lib/tar/write_header.c and number.c *)

(* The n last digits of a value. *)
Digits(value, base, n) == [i \in 1 .. n |-> (value \div base ^ (n - i)) % base]
Text(digits) == [i \in DOMAIN digits |-> Digit(digits[i])]

(* memset, and the low bytes; the first one gets its highest bit set. *)
write_binary(value, digits) ==
  LET bytes == [i \in 1 .. digits |-> IF digits - i >= WordBytes THEN 0
                                      ELSE (value \div 256 ^ (digits - i)) % 256]
  IN  [bytes EXCEPT ![1] = IF @ >= 128 THEN @ ELSE @ + 128]

(* Mutant: the number may use one digit more than there is. *)
WriteNumberWide(value, digits) ==
  IF value < 8 ^ (digits + 1) THEN Text(Digits(value % UIntMod, 8, digits))
  ELSE write_binary(value, digits)

(* Octal digits and a space, octal digits only, or binary; sprintf gets an  *)
(* unsigned int.                                                            *)
write_number(value, digits) ==
  IF value < 8 ^ (digits - 1) THEN Append(Text(Digits(value % UIntMod, 8, digits - 1)), Space)
  ELSE IF value < 8 ^ digits THEN Text(Digits(value % UIntMod, 8, digits))
  ELSE write_binary(value, digits)

write_number_signed(value, digits) ==
  IF value < 0 THEN write_binary((Word + value) % Word, digits) ELSE write_number(value, digits)

(* The run of characters that pass a test begins a text. *)
SkipSpaces(str) ==
  LET n == Max({i \in 0 .. Len(str) : \A j \in 1 .. i : str[j] = Space})
  IN  SubSeq(str, n + 1, Len(str))
OctalRun(str) == Max({i \in 0 .. Len(str) : \A j \in 1 .. i : IsOctal(str[j])})
DigitRun(str) == Max({i \in 0 .. Len(str) : \A j \in 1 .. i : IsDigit(str[j])})

(* Digits of a base to a number, -1 when a step would go beyond the limit. *)
Accumulate(digits, base, limit) ==
  FoldLeft(LAMBDA v, d : IF v < 0 \/ v > (limit - d) \div base THEN -1 ELSE v * base + d, 0, digits)

Values(str) == [i \in DOMAIN str |-> str[i] - 48]

read_octal(str) ==
  LET s == SkipSpaces(str)
  IN  Accumulate(Values(SubSeq(s, 1, OctalRun(s))), 8, Word - 1)

(* A first byte of 0xFF stands for a negative number. *)
BinaryStep(v, x) ==
  LET ov == v \div 256 ^ (WordBytes - 1)
  IN  IF v < 0 \/ (ov # 0 /\ ov # 255) THEN -1 ELSE (v * 256 + x) % Word

read_binary(str) ==
  LET x == str[1] % 128
  IN  IF str[1] = 255 THEN FoldLeft(BinaryStep, Word - 1, str)
      ELSE IF Len(str) > WordBytes /\ x # 0 THEN -1
      ELSE FoldLeft(BinaryStep, 0, <<x>> \o Tail(str))

read_number(str) == IF str[1] >= 128 THEN read_binary(str) ELSE read_octal(str)

(* Here the last digit may wrap around. *)
pax_read_decimal(str) ==
  FoldLeft(LAMBDA v, d : IF v < 0 \/ v > (Word - 1) \div 10 THEN -1 ELSE (v * 10 + d) % Word,
           0, Values(SubSeq(str, 1, DigitRun(str))))

(* num_digits, and the number of digits that a length has when it counts    *)
(* them, too.                                                               *)
num_digits(num, base) ==
  LET count[x \in 0 .. num] == IF x < base THEN 1 ELSE 1 + count[x \div base] IN count[num]

(* Mutant: the digits of the length alone. *)
PrefixOfRest(len, base) == num_digits(len, base)

prefix_digit_len(len, base) ==
  LET go[n \in 0 .. len + base] ==
        IF num_digits(len + n, base) = n THEN n ELSE go[num_digits(len + n, base)]
  IN  go[0]

------------------------------------------------------------------------------
(* lib/common/parse_size.c; the result is -1 when the text is refused. *)

Percent == 37
SizeSuffixes == (107 :> Kilo) @@ (109 :> Kilo ^ 2) @@ (103 :> Kilo ^ 3)

MulOv(acc, x) == IF acc < 0 \/ acc > SizeMax \div x THEN -1 ELSE acc * x

(* Mutant: the product with the suffix wraps around. *)
ParseSizeWraps(str, reference) ==
  LET n   == DigitRun(str)
      acc == Accumulate(Values(SubSeq(str, 1, n)), 10, SizeMax)
  IN  IF n = 0 THEN -1
      ELSE IF Len(str) = n THEN acc
      ELSE IF str[n + 1] \in DOMAIN SizeSuffixes /\ Len(str) = n + 1
           THEN (acc * SizeSuffixes[str[n + 1]]) % (SizeMax + 1)
      ELSE -1

(* A per cent sign is taken into account and then in the way. *)
parse_size(str, reference) ==
  LET n    == DigitRun(str)
      acc  == Accumulate(Values(SubSeq(str, 1, n)), 10, SizeMax)
      c    == str[n + 1]
      size == IF Len(str) = n THEN acc
              ELSE IF c \in DOMAIN SizeSuffixes THEN MulOv(acc, SizeSuffixes[c])
              ELSE IF c = Percent /\ reference # 0 THEN MulOv(acc, reference) \div 100
              ELSE -1
      used == IF Len(str) > n /\ c # Percent THEN n + 1 ELSE n
  IN  IF n = 0 \/ used < Len(str) THEN -1 ELSE size

------------------------------------------------------------------------------
(* lib/tar/base64.c and urldecode.c *)

(* The value of a digit; sextets of base64 are upper case letters, lower    *)
(* case letters, digits, and two more.                                      *)
convert(c) ==
  CASE c \in 65 .. 90  -> c - 65
    [] c \in 97 .. 122 -> c - 71
    [] IsDigit(c)      -> c + 4
    [] c = 43          -> 62
    [] c \in {47, 45}  -> 63
    [] OTHER           -> 0

(* "=" or "_" end the text. *)
Meant(text) ==
  LET ends == {i \in DOMAIN text : text[i] \in {61, 95}}
  IN  IF ends = {} THEN text ELSE SubSeq(text, 1, Min(ends) - 1)

(* Mutant: an incomplete group gives a byte too many. *)
BytesRoundedUp(group) ==
  LET v == FoldLeft(LAMBDA x, c : x * 64 + convert(c), 0, group) * 64 ^ (4 - Len(group))
  IN  SubSeq(Digits(v, 256, 3), 1, (Len(group) * 3 + 3) \div 4)

(* Up to four digits are up to three bytes; one digit is none. *)
GroupBytes(group) ==
  LET v == FoldLeft(LAMBDA x, c : x * 64 + convert(c), 0, group) * 64 ^ (4 - Len(group))
  IN  IF Len(group) < 2 THEN <<>> ELSE SubSeq(Digits(v, 256, 3), 1, (Len(group) * 3) \div 4)

base64_decode(text) ==
  LET m == Meant(text)
  IN  FlattenSeq([i \in 1 .. (Len(m) + 3) \div 4 |-> GroupBytes(SubSeq(m, 4 * i - 3, Min({4 * i, Len(m)})))])

IsXdigit(c) == IsDigit(c) \/ c \in 65 .. 70 \/ c \in 97 .. 102
xdigit(c) == CASE IsDigit(c) -> c - 48 [] c \in 65 .. 70 -> c - 55 [] OTHER -> c - 87

urldecode(text) ==
  LET go[i \in 1 .. Len(text) + 1] ==
        IF i > Len(text) THEN <<>>
        ELSE IF text[i] = Percent /\ i + 2 <= Len(text) /\ IsXdigit(text[i + 1]) /\ IsXdigit(text[i + 2])
             THEN <<xdigit(text[i + 1]) * 16 + xdigit(text[i + 2])>> \o go[i + 3]
        ELSE <<text[i]>> \o go[i + 1]
  IN  go[1]

------------------------------------------------------------------------------
(* lib/fstree/canonicalize_name.c, on characters. *)

Slash == 47
Period == 46

(* No slash at the ends, and never two in a row. *)
normalize_slashes(name) ==
  LET keep == {i \in DOMAIN name :
                 \/ name[i] # Slash
                 \/ /\ \E j \in 1 .. i - 1 : name[j] # Slash
                    /\ i < Len(name) /\ name[i + 1] # Slash}
      order == SetToSortSeq(keep, <)
  IN  [k \in DOMAIN order |-> name[order[k]]]

(* "src" runs over the text, what it does not leave out is copied. *)
CopyComponents(name) ==
  LET at(i) == IF i <= Len(name) THEN name[i] ELSE 0
      end(i) == Min({j \in i .. Len(name) : name[j] = Slash} \cup {Len(name)})
      go[src \in 1 .. Len(name) + 1] ==
        IF src > Len(name) THEN <<>>
        ELSE IF at(src) = Period /\ at(src + 1) = 0 THEN <<>>
        ELSE IF at(src) = Period /\ at(src + 1) = Slash THEN go[src + 2]
        ELSE IF at(src) = Period /\ at(src + 1) = Period /\ at(src + 2) \in {0, Slash} THEN <<-1>>
        ELSE SubSeq(name, src, end(src)) \o go[end(src) + 1]
  IN  go[1]

(* Mutant: the slash in front of a dot at the end stays. *)
CanonicalizeOnce(name) ==
  LET copy == CopyComponents(normalize_slashes(name))
  IN  IF Contains(copy, -1) THEN <<-1>> ELSE copy

(* <<-1>> when the name is refused. *)
canonicalize_text(name) ==
  LET copy == CopyComponents(normalize_slashes(name))
  IN  IF Contains(copy, -1) THEN <<-1>> ELSE normalize_slashes(copy)
=============================================================================
