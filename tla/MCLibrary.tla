----------------------------- MODULE MCLibrary -----------------------------
(***************************************************************************)
(* The libraries that the tools share, one at a time: streams with and     *)
(* without a compressor, the conversions of numbers and texts, compressors *)
(* and their options, hash table and tree, and the file that images are    *)
(* written to.  One of them runs; the others stay where they start.        *)
(***************************************************************************)
EXTENDS IoFile

CONSTANTS
  BufSz, CodecBlock, Contents, Pieces, Flags,           \* of StreamUse
  UIntMod, WordBytes, SizeMax, Kilo, FieldSizes, Radix, \* of Conversions
  Small, Stride, Chars, MaxChars,
  IntMod, BlockSizes, Numerals, Sizes, MaxOptions, BlockLen, Lengths, \* of Compressors
  Keys, Numbers, MaxInserts, MaxFails                   \* of Containers

VARIABLES
  part,
  phase, use, from, out, stored, in, got,
  n, text,
  id, block_size, options, tries, flags,
  ht, want, full, tree, numbers, inserts, fails

Stream == INSTANCE StreamUse WITH disk <- stored
Conversion == INSTANCE Conversions
Compressor == INSTANCE Compressors
Container == INSTANCE Containers

streamVars == <<phase, use, from, out, stored, in, got>>
conversionVars == <<n, text>>
compressorVars == <<id, block_size, options, tries, flags>>
containerVars == <<ht, want, full, tree, numbers, inserts, fails>>
libraryVars == <<part, streamVars, conversionVars, compressorVars, containerVars, vars>>

------------------------------------------------------------------------------
(* Instances *)

Cells == INSTANCE Streams WITH CodecBlock <- <<>>
T(s) == [i \in DOMAIN s |-> Cells!Byte(s[i])]

(* Data with holes at the end, in the middle and at the beginning, and text. *)
SomeContents ==
  {T(<<0, 0, 1, 2, 0>>), T(<<1, 2, 0, 0, 3, 4, 5>>), T(<<1, 2, 3, 0, 0, 0>>), <<>>,
   T(<<3, 4>>), T(<<97, 10, 32, 13, 10, 97, 97, 97, 97, 13, 10, 97>>), T(<<97, 97, 10, 13, 10>>)}
SomeBlocks == [c \in Cells!Codecs |-> CASE c = "bzip2" -> 4 [] c = "gzip" -> 3 [] OTHER -> 2]
SomeFlags == {{}, {"ltrim"}, {"rtrim", "skip_empty"}}

(* Space, quote, percent, period, slash, a digit, backslash, and a byte     *)
(* that is no ASCII character.                                              *)
SomeChars == {32, 34, 37, 46, 47, 53, 92, 255}

(* -1 stands for a failure of the library. *)
SomeLengths == {-1, 0, 2, 3, 4, 5}

(* Hashes that collide in the small tables, and two keys of one hash. *)
SomeKeys ==
  {[hash |-> 0, id |-> 1], [hash |-> 5, id |-> 1], [hash |-> 35, id |-> 1], [hash |-> 35, id |-> 2],
   [hash |-> 7, id |-> 1], [hash |-> 3, id |-> 1]}

SomeStarts == {<<>>, <<1>>, <<1, 2, 3>>}
SomeBuffers == {<<1>>, <<1, 2>>, <<2, 1, 3>>}

------------------------------------------------------------------------------
Parts == {"streams", "conversions", "compressors", "containers", "output"}

LibraryInit ==
  /\ part \in Parts
  /\ Stream!Init
  /\ part # "streams" => use = CHOOSE u \in [plain : Contents, codec : {"none"}, sink : {"pipe"},
                                             sparse : {FALSE}] : TRUE
  /\ Compressor!Init
  /\ part # "compressors" => id = "gzip" /\ block_size = CHOOSE b \in BlockSizes : TRUE
  /\ Conversion!Init /\ Container!Init /\ Init

(* Calls, options and insertions come to an end with the bounds. *)
Stopped == part \in {"compressors", "containers", "output"} /\ UNCHANGED libraryVars

LibraryNext ==
  /\ part' = part
  /\ \/ /\ part = "streams" /\ Stream!Next
        /\ UNCHANGED <<conversionVars, compressorVars, containerVars, vars>>
     \/ /\ part = "conversions" /\ Conversion!Next
        /\ UNCHANGED <<streamVars, compressorVars, containerVars, vars>>
     \/ /\ part = "compressors" /\ Compressor!Next
        /\ UNCHANGED <<streamVars, conversionVars, containerVars, vars>>
     \/ /\ part = "containers" /\ Container!Next
        /\ UNCHANGED <<streamVars, conversionVars, compressorVars, vars>>
     \/ /\ part = "output" /\ Next
        /\ UNCHANGED <<streamVars, conversionVars, compressorVars, containerVars>>
     \/ Stopped

(* A program that reads a stream goes on until it is done with it. *)
Running == part = "streams" /\ Stream!Running
LibrarySpec ==
  LibraryInit /\ [][LibraryNext]_libraryVars /\ ([]<>~Running \/ []<><<Running>>_streamVars)

------------------------------------------------------------------------------
(* Properties of the parts *)


(* A stream comes to its end or fails, also when it is cut short (see       *)
(* StreamUse).                                                              *)
StreamsEnd == part = "streams" => Stream!StreamsEnd

(* A number is read as the one that was written, up to the limits of its    *)
(* field: header fields in octal and binary (write_number, read_number),    *)
(* lengths of PAX records that count themselves (prefix_digit_len), and     *)
(* sizes on the command line (parse_size; see Conversions).                 *)
NumbersRight ==
  part = "conversions" =>
    Conversion!FieldsRead /\ Conversion!LengthsCountThemselves /\ Conversion!SizesRight


(* The options a compressor is given can be used, the ones it writes can be *)
(* read and are the ones that were used, and of the results it tried it     *)
(* returns the shortest (see Compressors).                                  *)
CompressorsRight ==
  part = "compressors" =>
    Compressor!OptionsReadBack /\ Compressor!AcceptedIsCreatedBut /\ Compressor!NoBetterTry

(* Hash table and red-black tree find what was inserted, with the last      *)
(* value, whatever was inserted or failed before; the table refuses a key   *)
(* only when it is full, and the tree is balanced (see Containers).         *)
ContainersRight ==
  part = "containers" =>
    Container!StoredIsFound /\ Container!RefusedOnlyWhenFull /\ Container!TreeRight
=============================================================================
