----------------------------- MODULE Compressors -----------------------------
(***************************************************************************)
(* The compressors of lib/sqfs/comp and lib/common/comp_lzo.c: options on  *)
(* the command line, the configuration they make, the options that end up  *)
(* in the image, and how a block is compressed with one setting after the  *)
(* other.  Sizes of blocks and dictionaries are in units of 4 KiB.         *)
(***************************************************************************)
EXTENDS Integers, Sequences, FiniteSets, Bitwise, SequencesExt

CONSTANTS
  IntMod,      \* 2^20: units that an int counts modulo
  BlockSizes,  \* of the images
  Numerals,    \* numbers given to options
  Sizes,       \* numbers given to dictsize
  MaxOptions,  \* bound on the number of options
  BlockLen,    \* bytes of the block to be compressed
  Lengths      \* bytes it may be compressed to

Ids == {"gzip", "lzma", "lzo", "xz", "lz4", "zstd"}
MaxAlg == 4 \* SQFS_LZO1X_999, the last one

(* One of the filters of xz, and two of the strategies of gzip, stand for   *)
(* the others. *)
FlagsOf(id) ==
  CASE id = "gzip" -> {"default", "filtered"} [] id = "xz" -> {"x86", "extreme"}
    [] id = "lzma" -> {"extreme"} [] id = "lz4" -> {"hc"} [] OTHER -> {}

MinDict == 2
MaxDict == 256

------------------------------------------------------------------------------
(* comp/compressor.c *)

NoConfig ==
  [id |-> "none", flags |-> {}, block_size |-> 0, level |-> 0, window |-> 0, alg |-> 0, dict |-> 0,
   lc |-> 0, lp |-> 0, pb |-> 0]

Defaults(id, block_size) ==
  LET lz == [NoConfig EXCEPT !.lc = 3, !.lp = 0, !.pb = 2,
                             !.dict = IF block_size < MinDict THEN MinDict ELSE block_size]
  IN  CASE id = "gzip" -> [NoConfig EXCEPT !.level = 9, !.window = 15]
        [] id = "lzo"  -> [NoConfig EXCEPT !.alg = MaxAlg, !.level = 8]
        [] id = "zstd" -> [NoConfig EXCEPT !.level = 15]
        [] id = "xz"   -> [lz EXCEPT !.level = 6]
        [] id = "lzma" -> [lz EXCEPT !.level = 5]
        [] id = "lz4"  -> NoConfig

sqfs_compressor_config_init(id, block_size, flags) ==
  IF flags \subseteq FlagsOf(id) \cup {"uncompress"}
  THEN [Defaults(id, block_size) EXCEPT !.id = id, !.flags = flags, !.block_size = block_size]
  ELSE NoConfig

(* The bits of a size without the lowest one are none, or the one above it. *)
is_dict_size_valid(size) ==
  LET x == IF size = 0 THEN 0 ELSE size & (size - 1)
  IN  x = 0 \/ size = (x | shiftR(x, 1))

LzmaRanges(cfg) ==
  /\ is_dict_size_valid(cfg.dict)
  /\ cfg.lc + cfg.lp <= 4
  /\ cfg.pb <= 4
  /\ cfg.level <= 9
  /\ cfg.dict \in MinDict .. MaxDict

gzip_compressor_create(cfg) == cfg.level \in 1 .. 9 /\ cfg.window \in 8 .. 15
xz_compressor_create(cfg) == LzmaRanges(cfg)
lzma_compressor_create(cfg) == LzmaRanges(cfg) /\ cfg.lc <= 4 /\ cfg.lp <= 4
lz4_compressor_create(cfg) == cfg.level = 0
zstd_compressor_create(cfg) == cfg.level \in 1 .. 22
lzo_compressor_create(cfg) ==
  cfg.alg <= MaxAlg /\ (IF cfg.alg = MaxAlg THEN cfg.level <= 9 ELSE cfg.level = 0)

(* sqfs_compressor_create: whether there is a compressor of this kind. *)
sqfs_compressor_create(cfg) ==
  /\ cfg.id \in Ids
  /\ cfg.flags \subseteq FlagsOf(cfg.id) \cup {"uncompress"}
  /\ CASE cfg.id = "gzip" -> gzip_compressor_create(cfg)
       [] cfg.id = "xz"   -> xz_compressor_create(cfg)
       [] cfg.id = "lzma" -> lzma_compressor_create(cfg)
       [] cfg.id = "lz4"  -> lz4_compressor_create(cfg)
       [] cfg.id = "zstd" -> zstd_compressor_create(cfg)
       [] cfg.id = "lzo"  -> lzo_compressor_create(cfg)

------------------------------------------------------------------------------
(* Options in the image: the size of the block that holds them, which is    *)
(* what tells them apart, and the fields. *)
None == [size |-> 0, a |-> 0, b |-> 0, flags |-> {}]

gzip_write_options(cfg) ==
  IF cfg.level = 9 /\ cfg.window = 15 /\ cfg.flags = {} THEN None
  ELSE [size |-> 8, a |-> cfg.level, b |-> cfg.window, flags |-> cfg.flags]
(* Mutant: a dictionary of the default size is left out with the filters. *)
XzOptionsBySize(cfg) ==
  IF cfg.dict = cfg.block_size THEN None
  ELSE [size |-> 8, a |-> cfg.dict, b |-> 0, flags |-> cfg.flags \ {"extreme"}]
xz_write_options(cfg) ==
  IF cfg.flags = {} /\ cfg.dict = cfg.block_size THEN None
  ELSE [size |-> 8, a |-> cfg.dict, b |-> 0, flags |-> cfg.flags \ {"extreme"}]
lz4_write_options(cfg) == [size |-> 8, a |-> 1, b |-> 0, flags |-> cfg.flags]
zstd_write_options(cfg) ==
  IF cfg.level = 15 THEN None ELSE [size |-> 4, a |-> cfg.level, b |-> 0, flags |-> {}]
lzo_write_options(cfg) ==
  IF cfg.alg = MaxAlg /\ cfg.level = 8 THEN None
  ELSE [size |-> 8, a |-> cfg.alg, b |-> IF cfg.alg = MaxAlg THEN cfg.level ELSE 0, flags |-> {}]

write_options(cfg) ==
  CASE cfg.id = "gzip" -> gzip_write_options(cfg) [] cfg.id = "xz" -> xz_write_options(cfg)
    [] cfg.id = "lz4" -> lz4_write_options(cfg) [] cfg.id = "zstd" -> zstd_write_options(cfg)
    [] cfg.id = "lzo" -> lzo_write_options(cfg) [] cfg.id = "lzma" -> None

(* read_options: the configuration of the compressor behind it, NoConfig    *)
(* for an error. *)
gzip_read_options(cfg, o) ==
  IF o.a \in 1 .. 9 /\ o.b \in 8 .. 15 /\ o.flags \subseteq FlagsOf("gzip")
  THEN [cfg EXCEPT !.level = o.a, !.window = o.b, !.flags = o.flags \cup {"uncompress"}] ELSE NoConfig
xz_read_options(cfg, o) ==
  IF is_dict_size_valid(o.a) /\ o.flags \subseteq FlagsOf("xz")
  THEN [cfg EXCEPT !.dict = o.a, !.flags = o.flags \cup {"uncompress"}] ELSE NoConfig
lz4_read_options(cfg, o) == IF o.a = 1 THEN cfg ELSE NoConfig
zstd_read_options(cfg, o) == cfg
lzo_read_options(cfg, o) ==
  IF (o.a < MaxAlg /\ o.b = 0) \/ (o.a = MaxAlg /\ o.b \in 1 .. 9)
  THEN [cfg EXCEPT !.alg = o.a, !.level = o.b] ELSE NoConfig

OptionSize(id) == IF id = "zstd" THEN 4 ELSE 8

read_options(cfg, o) ==
  IF cfg.id = "lzma" \/ o.size # OptionSize(cfg.id) THEN NoConfig
  ELSE CASE cfg.id = "gzip" -> gzip_read_options(cfg, o) [] cfg.id = "xz" -> xz_read_options(cfg, o)
         [] cfg.id = "lz4" -> lz4_read_options(cfg, o) [] cfg.id = "zstd" -> zstd_read_options(cfg, o)
         [] cfg.id = "lzo" -> lzo_read_options(cfg, o)

------------------------------------------------------------------------------
(* common/comp_opt.c *)

opt_available(id) ==
  CASE id = "gzip" -> {"window", "level"} [] id \in {"xz", "lzma"} -> {"level", "dictsize", "lc", "lp", "pb"}
    [] id = "zstd" -> {"level"} [] id = "lzo" -> {"level", "algorithm"} [] id = "lz4" -> {}

value_range(id, opt) ==
  CASE opt = "dictsize" -> MinDict .. MaxDict
    [] opt = "window"   -> 8 .. 15
    [] opt \in {"lc", "lp", "pb"} -> 0 .. 4
    [] OTHER -> CASE id = "gzip" -> 1 .. 9 [] id = "zstd" -> 1 .. 22 [] OTHER -> 0 .. 9

(* One option of the list, [key, v]; a key that is no option is a flag. *)
SetOption(cfg, o) ==
  LET v == IF o.key = "dictsize" THEN o.v % IntMod ELSE o.v
  IN  IF cfg = NoConfig THEN cfg
      ELSE IF o.key \in FlagsOf(cfg.id) THEN [cfg EXCEPT !.flags = @ \cup {o.key}]
      ELSE IF o.key \notin opt_available(cfg.id) THEN NoConfig
      ELSE IF o.key = "algorithm" THEN IF o.v <= MaxAlg THEN [cfg EXCEPT !.alg = o.v] ELSE NoConfig
      ELSE IF v \notin value_range(cfg.id, o.key) THEN NoConfig
      ELSE CASE o.key = "level" -> [cfg EXCEPT !.level = v] [] o.key = "window" -> [cfg EXCEPT !.window = v]
             [] o.key = "dictsize" -> [cfg EXCEPT !.dict = v] [] o.key = "lc" -> [cfg EXCEPT !.lc = v]
             [] o.key = "lp" -> [cfg EXCEPT !.lp = v] [] o.key = "pb" -> [cfg EXCEPT !.pb = v]

(* Mutant: each of lc and lp is looked at by itself only. *)
AnySum(id, block_size, options) ==
  FoldLeft(SetOption, sqfs_compressor_config_init(id, block_size, {}), options)

compressor_cfg_init_options(id, block_size, options) ==
  LET cfg == FoldLeft(SetOption, sqfs_compressor_config_init(id, block_size, {}), options)
  IN  IF id \in {"xz", "lzma"} /\ cfg.lc + cfg.lp > 4 THEN NoConfig ELSE cfg

------------------------------------------------------------------------------
(* do_block, compressing.  A try is one call of the library: -1 when it     *)
(* fails, 0 when its result does not fit, or the length of the result.      *)

TooLong(ret) == IF ret >= BlockLen THEN 0 ELSE ret

Better(ret, smallest) == ret > 0 /\ (smallest = 0 \/ ret < smallest)

(* Mutant: a first try that made the block no smaller is the best one. *)
XzFirstWins(tries, flags) ==
  LET one(s, f) == IF TooLong(tries[f]) > 0 /\ TooLong(tries[f]) < s.smallest
                   THEN [smallest |-> TooLong(tries[f]), selected |-> f] ELSE s
      first == <<"none", FALSE>>
      order == <<<<"none", TRUE>>, <<"x86", FALSE>>, <<"x86", TRUE>>>>
      asked == SelectSeq(order, LAMBDA t : (t[2] => "extreme" \in flags) /\ t[1] \in flags \cup {"none"})
      best  == FoldLeft(one, [smallest |-> TooLong(tries[first]), selected |-> first], asked)
  IN  IF tries[first] < 0 \/ flags = {} THEN TooLong(tries[first])
      ELSE IF best.smallest = 0 THEN 0 ELSE TooLong(tries[best.selected])

(* Without a filter, and with each; both with and without the extreme       *)
(* preset if it is asked for; the best of them is done again. *)
xz_comp_block(tries, flags) ==
  LET one(s, f) == IF Better(TooLong(tries[f]), s.smallest)
                   THEN [smallest |-> TooLong(tries[f]), selected |-> f] ELSE s
      first == <<"none", FALSE>>
      order == <<<<"none", TRUE>>, <<"x86", FALSE>>, <<"x86", TRUE>>>>
      asked == SelectSeq(order, LAMBDA t : (t[2] => "extreme" \in flags) /\ t[1] \in flags \cup {"none"})
      best  == FoldLeft(one, [smallest |-> TooLong(tries[first]), selected |-> first], asked)
  IN  IF tries[first] < 0 \/ flags = {} THEN TooLong(tries[first])
      ELSE IF best.smallest = 0 THEN 0 ELSE TooLong(tries[best.selected])

try_compress(ret) == IF ret > BlockLen THEN 0 ELSE ret

lzma_comp_block(tries, flags) ==
  LET plain   == try_compress(tries[<<"none", FALSE>>])
      extreme == try_compress(tries[<<"none", TRUE>>])
  IN  IF plain < 0 \/ "extreme" \notin flags THEN plain
      ELSE IF extreme < 0 \/ Better(extreme, plain) THEN extreme
      ELSE plain

(* find_strategy: -1, or the strategy with the shortest result; the default *)
(* one where none fits. *)
gzip_comp_block(tries, flags) ==
  LET asked == SelectSeq(<<"default", "filtered">>, LAMBDA f : f \in flags)
      one(s, f) == IF s.smallest < 0 \/ tries[<<f, FALSE>>] < 0 THEN [s EXCEPT !.smallest = -1]
                   ELSE IF Better(tries[<<f, FALSE>>], s.smallest)
                        THEN [smallest |-> tries[<<f, FALSE>>], selected |-> f] ELSE s
      best == FoldLeft(one, [smallest |-> 0, selected |-> "default"], asked)
  IN  IF best.smallest < 0 THEN -1 ELSE TooLong(tries[<<best.selected, FALSE>>])

lz4_comp_block(tries, flags) == tries[<<IF "hc" \in flags THEN "hc" ELSE "none", FALSE>>]
zstd_comp_block(tries) == TooLong(tries[<<"none", FALSE>>])
lzo_comp_block(tries) == TooLong(tries[<<"none", FALSE>>])

TriesOf(id) ==
  CASE id = "xz"   -> {"none", "x86"} \X BOOLEAN
    [] id = "lzma" -> {"none"} \X BOOLEAN
    [] id = "gzip" -> {"default", "filtered"} \X {FALSE}
    [] id = "lz4"  -> {"none", "hc"} \X {FALSE}
    [] OTHER       -> {"none"} \X {FALSE}

do_block(id, tries, flags) ==
  CASE id = "xz" -> xz_comp_block(tries, flags) [] id = "lzma" -> lzma_comp_block(tries, flags)
    [] id = "gzip" -> gzip_comp_block(tries, flags) [] id = "lz4" -> lz4_comp_block(tries, flags)
    [] id = "zstd" -> zstd_comp_block(tries) [] id = "lzo" -> lzo_comp_block(tries)

------------------------------------------------------------------------------
(* Use: every list of a few options, with every compressor, and every block *)
(* that the settings compress to different lengths.                         *)

VARIABLES id, block_size, options, tries, flags

vars == <<id, block_size, options, tries, flags>>

Options ==
     {[key |-> f, v |-> 0] : f \in UNION {FlagsOf(i) : i \in Ids}}
  \cup [key : {"window", "level", "algorithm", "lc", "lp", "pb"}, v : Numerals]
  \cup [key : {"dictsize"}, v : Sizes]

Init ==
  /\ id \in Ids
  /\ block_size \in BlockSizes
  /\ options = <<>>
  /\ tries = <<>>
  /\ flags = {}

AddOption ==
  /\ tries = <<>>
  /\ Len(options) < MaxOptions
  /\ compressor_cfg_init_options(id, block_size, options) # NoConfig
  /\ \E o \in Options : options' = Append(options, o)
  /\ UNCHANGED <<id, block_size, tries, flags>>

(* A block, and the flags to compress it with. *)
TakeBlock ==
  /\ tries = <<>>
  /\ options = <<>>
  /\ flags' \in SUBSET FlagsOf(id)
  /\ tries' \in [TriesOf(id) -> Lengths]
  /\ UNCHANGED <<id, block_size, options>>

Next == AddOption \/ TakeBlock

Spec == Init /\ [][Next]_vars

------------------------------------------------------------------------------

Cfg == compressor_cfg_init_options(id, block_size, options)
Opened == sqfs_compressor_config_init(id, block_size, {"uncompress"})
Written == write_options(Cfg)

(* What a reader knows of the settings that the image was written with. *)
Known(cfg) ==
  CASE id = "gzip" -> <<cfg.level, cfg.window, cfg.flags \ {"uncompress"}>>
    [] id = "xz"   -> <<cfg.dict, cfg.flags \ {"uncompress", "extreme"}>>
    [] id = "lzo"  -> <<cfg.alg, IF cfg.alg = MaxAlg THEN cfg.level ELSE 0>>
    [] OTHER       -> <<>>

(* An image that can be written can be opened: the compressor can be        *)
(* created from what the super block says, and the options that were        *)
(* written are read, and are the ones that were used.  Options are left out *)
(* only where the defaults of the reader are the same.  lzo1x_999 at level  *)
(* 0 can be written and not be read.                                        *)
OptionsReadBack ==
  LET r == read_options(Opened, Written)
  IN  Cfg # NoConfig /\ sqfs_compressor_create(Cfg) /\ ~(id = "lzo" /\ Cfg.alg = MaxAlg /\ Cfg.level = 0) =>
        /\ sqfs_compressor_create(Opened)
        /\ IF Written = None THEN Known(Opened) = Known(Cfg)
           ELSE r # NoConfig /\ Known(r) = Known(Cfg)

(* What the command line takes, the compressor takes, but for sizes of      *)
(* dictionaries that are no sum of a power of two and its half, and for     *)
(* what is said about lzo.                                                  *)
AcceptedIsCreatedBut ==
  Cfg # NoConfig /\ is_dict_size_valid(Cfg.dict) /\ (id = "lzo" => Cfg.alg = MaxAlg)
    => sqfs_compressor_create(Cfg)

(* comp_opt.c, of the level of lzo: "Ignored if algorithm is not            *)
(* lzo1x_999."                                                              *)
LevelIgnored ==
  id = "lzo" /\ Cfg # NoConfig /\ Cfg.alg < MaxAlg => sqfs_compressor_create(Cfg)

Ret == do_block(id, tries, flags)
Tried ==
  {t \in TriesOf(id) : /\ t[2] => "extreme" \in flags
                       /\ t[1] \in flags \/ (t[1] = "none" /\ "hc" \notin flags)}

(* No setting that was asked for makes the block shorter than what          *)
(* do_block returns, and where it returns 0, none makes it shorter at all.  *)
NoBetterTry ==
  tries # <<>> /\ Ret >= 0 =>
    \A t \in Tried : tries[t] \in 1 .. BlockLen - 1 => Ret # 0 /\ Ret <= tries[t]

(* compressor.h, of do_block: "The value 0 means the output buffer was too  *)
(* small when extracting or that the result is larger than the input when   *)
(* compressing."                                                            *)
LargerIsZero == tries # <<>> => Ret <= BlockLen
=============================================================================
