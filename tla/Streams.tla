------------------------------- MODULE Streams -------------------------------
(***************************************************************************)
(* Buffered streams: lib/fstream.  An input stream has a buffer that its   *)
(* precache function fills, from a file or by decompressing what another   *)
(* stream holds; an output stream writes to a file or compresses into      *)
(* another one.                                                            *)
(*                                                                         *)
(* Data is a sequence of cells [k, v]: bytes, and the pieces of compressed *)
(* data (a magic number, block lengths, block contents, an end mark).      *)
(***************************************************************************)
EXTENDS Integers, Sequences, SequencesExt, FiniteSetsExt, Names

CONSTANTS
  BufSz,     \* BUFSZ
  CodecBlock \* CodecBlock[c]: bytes that compressor c collects before it puts out a block

Cell(k, v) == [k |-> k, v |-> v]
Byte(b) == Cell("byte", b)
ZeroCells(n) == [i \in 1 .. n |-> Byte(0)]
IsZero(cells) == \A i \in DOMAIN cells : cells[i].k = "byte" /\ cells[i].v = 0

Codecs == {"gzip", "xz", "zstd", "bzip2"}

(* The buffer of zstd's input holds a whole block (128K of 256K). *)
ASSUME StreamsAssumption ==
  /\ BufSz \in Nat \ {0}
  /\ CodecBlock \in [Codecs -> Nat \ {0}]
  /\ CodecBlock["zstd"] + 2 <= BufSz

------------------------------------------------------------------------------
(* The compression libraries: a block is put out when it is full or when    *)
(* the data ends, as much as there is room for.                             *)

Block(bytes) ==
  <<Cell("len", Len(bytes))>> \o [i \in DOMAIN bytes |-> Cell("stored", bytes[i])]

encoder_init(codec) ==
  [codec |-> codec, pend |-> <<>>, out |-> <<Cell("magic", codec)>>, ended |-> FALSE]

RECURSIVE encode(_, _, _, _)
encode(e, in, room, finish) ==
  LET now  == SubSeq(e.out, 1, Min({room, Len(e.out)}))
      rest == [e EXCEPT !.out = SubSeq(@, Len(now) + 1, Len(@))]
      pend == Append(rest.pend, Head(in))
  IN  With(IF in # <<>>
           THEN encode(IF Len(pend) = CodecBlock[e.codec]
                       THEN [rest EXCEPT !.pend = <<>>, !.out = Block(pend)]
                       ELSE [rest EXCEPT !.pend = pend],
                       Tail(in), room - Len(now), finish)
           ELSE encode([rest EXCEPT !.pend = <<>>, !.ended = TRUE,
                          !.out = Block(rest.pend) \o <<Cell("end", 0)>>],
                       in, room - Len(now), finish), LAMBDA more :
        IF rest.out # <<>> \/ (in = <<>> /\ (~finish \/ rest.ended))
        THEN [e |-> rest, in |-> in, out |-> now]
        ELSE [more EXCEPT !.out = now \o @])

decoder_init == [need |-> -1, block |-> <<>>, out |-> <<>>, done |-> FALSE, bad |-> FALSE]

Feed(d, c) ==
  CASE c.k = "magic"                 -> d
    [] c.k = "len" /\ c.v > 0        -> [d EXCEPT !.need = c.v, !.block = <<>>]
    [] c.k = "len"                   -> d
    [] c.k = "end"                   -> [d EXCEPT !.done = TRUE]
    [] c.k = "stored" /\ d.need > 1  -> [d EXCEPT !.need = @ - 1, !.block = Append(@, c.v)]
    [] c.k = "stored"                -> [d EXCEPT !.need = -1, !.out = Append(d.block, c.v)]
    [] OTHER                         -> [d EXCEPT !.bad = TRUE]

RECURSIVE decode(_, _, _)
decode(d, in, room) ==
  LET now  == SubSeq(d.out, 1, Min({room, Len(d.out)}))
      rest == [d EXCEPT !.out = SubSeq(@, Len(now) + 1, Len(@))]
      more == decode(Feed(rest, Head(in)), Tail(in), room - Len(now))
  IN  IF rest.out # <<>> \/ in = <<>> \/ rest.done \/ rest.bad
      THEN [d |-> rest, in |-> in, out |-> now]
      ELSE [more EXCEPT !.out = now \o @]

------------------------------------------------------------------------------
(* Input streams: istream.c, unix/istream.c and uncompress.  A file ends    *)
(* with end-of-file or with a read error.                                   *)

istream_open_file(data, end) ==
  [kind |-> "file", rest |-> data, end |-> end, buf |-> <<>>, off |-> 0, eof |-> FALSE]

Ok(s)   == [ret |-> "ok", s |-> s]
Fail(s) == [ret |-> "error", s |-> s]

(* Reading goes on until the buffer is full or there is no more. *)
file_precache(s) ==
  LET n == Min({BufSz - Len(s.buf), Len(s.rest)})
      t == [s EXCEPT !.buf = @ \o SubSeq(s.rest, 1, n), !.rest = SubSeq(@, n + 1, Len(@))]
  IN  IF Len(t.buf) < BufSz /\ s.end = "error" THEN Fail(t) ELSE Ok(t)

istream_compressor_create(wrapped, codec) ==
  [kind |-> codec, wrapped |-> wrapped, dec |-> decoder_init, buf |-> <<>>, off |-> 0,
   eof |-> FALSE]

(* Mutant: what is left in the buffer is not moved to its beginning. *)
CompactDrops(s) == [s EXCEPT !.buf = <<>>, !.off = 0]

(* What was read from the buffer makes room. *)
Compact(s) == [s EXCEPT !.buf = SubSeq(@, s.off + 1, Len(@)), !.off = 0]

(* One call of the library, on what the wrapped stream has. *)
Inflate(s, w) ==
  With(decode(s.dec, w.buf, BufSz - Len(s.buf)), LAMBDA r :
    [s EXCEPT !.wrapped = [w EXCEPT !.off = Len(w.buf) - Len(r.in)], !.dec = r.d,
              !.buf = @ \o r.out, !.eof = r.d.done /\ r.d.out = <<>>])

(* The wrapped stream is a file. *)
PrecacheWrapped(w) == IF w.eof THEN Ok(Compact(w)) ELSE file_precache(Compact(w))

RECURSIVE gzip_precache(_), bzip2_precache(_)

(* bzip2.c: until the buffer is full or the data ends.  The library asks    *)
(* for more input by doing nothing.                                         *)
bzip2_precache(s) ==
  LET p == PrecacheWrapped(s.wrapped)
  IN  With(Inflate(s, p.s), LAMBDA t :
        IF p.ret # "ok" THEN Fail([s EXCEPT !.wrapped = p.s])
        ELSE IF Len(s.buf) = BufSz THEN Ok([s EXCEPT !.wrapped = p.s])
        ELSE IF t.dec.bad THEN Fail(t)
        ELSE IF t.eof THEN Ok(t)
        ELSE IF t.wrapped.off = 0 /\ t.buf = s.buf THEN [ret |-> "endless", s |-> t]
        ELSE bzip2_precache(t))

(* Mutant: a library that can do no more is called again. *)
GzipIgnoresBufError(s) == bzip2_precache(s)

(* gzip.c: until the library can do no more. *)
gzip_precache(s) ==
  LET p == PrecacheWrapped(s.wrapped)
  IN  With(Inflate(s, p.s), LAMBDA t :
        IF p.ret # "ok" THEN Fail([s EXCEPT !.wrapped = p.s])
        ELSE IF t.dec.bad THEN Fail(t)
        ELSE IF t.eof \/ (t.wrapped.off = 0 /\ t.buf = s.buf) THEN Ok(t)
        ELSE gzip_precache(t))

(* xz.c has the same loop. *)
xz_precache(s) == gzip_precache(s)

(* zstd.c: one call, and no end. *)
zstd_precache(s) ==
  LET p == PrecacheWrapped(s.wrapped)
  IN  With([Inflate(s, p.s) EXCEPT !.eof = FALSE], LAMBDA t :
        IF p.ret # "ok" THEN Fail([s EXCEPT !.wrapped = p.s])
        ELSE IF t.dec.bad THEN Fail(t) ELSE Ok(t))

istream_precache(strm) ==
  LET s == Compact(strm)
  IN  CASE s.eof             -> Ok(s)
        [] s.kind = "file"   -> file_precache(s)
        [] s.kind = "bzip2"  -> bzip2_precache(s)
        [] s.kind = "zstd"   -> zstd_precache(s)
        [] s.kind = "xz"     -> xz_precache(s)
        [] s.kind = "gzip"   -> gzip_precache(s)

RECURSIVE istream_read(_, _)

(* Up to n bytes; fewer are the end of the stream. *)
istream_read(s, n) ==
  With(IF s.off >= Len(s.buf) THEN istream_precache(s) ELSE Ok(s), LAMBDA p :
    LET diff == Min({n, Len(p.s.buf) - p.s.off})
        data == SubSeq(p.s.buf, p.s.off + 1, p.s.off + diff)
        rest == istream_read([p.s EXCEPT !.off = @ + diff], n - diff)
    IN  IF n = 0 THEN [ret |-> "ok", s |-> s, data |-> <<>>]
        ELSE IF p.ret # "ok" THEN [ret |-> p.ret, s |-> p.s, data |-> <<>>]
        ELSE IF p.s.buf = <<>> THEN [ret |-> "ok", s |-> p.s, data |-> <<>>]
        ELSE [rest EXCEPT !.data = data \o @])

RECURSIVE istream_skip(_, _)

(* To skip past the end is an error. *)
istream_skip(s, n) ==
  With(IF s.off >= Len(s.buf) THEN istream_precache(s) ELSE Ok(s), LAMBDA p :
    LET diff == Min({n, Len(p.s.buf) - p.s.off})
    IN  IF n = 0 THEN Ok(s)
        ELSE IF p.ret # "ok" THEN p
        ELSE IF p.s.buf = <<>> THEN Fail(p.s)
        ELSE istream_skip([p.s EXCEPT !.off = @ + diff], n - diff))

(* Without a probe that says otherwise, the magic number tells. *)
istream_detect_compressor(s, probed) ==
  LET p == istream_precache(s)
  IN  [ret |-> p.ret, s |-> p.s,
       codec |-> IF probed \/ p.s.buf = <<>> \/ p.s.buf[1].k # "magic" THEN "none"
                 ELSE p.s.buf[1].v]

------------------------------------------------------------------------------
(* get_line.c *)

LF == Byte(10)
CR == Byte(13)
IsSpace(c) == c.v \in {10, 13, 32}

ltrim(line) ==
  LET n == Max({i \in 0 .. Len(line) : \A j \in 1 .. i : IsSpace(line[j])})
  IN  SubSeq(line, n + 1, Len(line))
rtrim(line) == Reverse(ltrim(Reverse(line)))

trim(line, flags) ==
  LET l == IF "ltrim" \in flags THEN ltrim(line) ELSE line
  IN  IF "rtrim" \in flags THEN rtrim(l) ELSE l


Breaks(buf) == {i \in DOMAIN buf : buf[i] = LF}

RECURSIVE GetLine(_, _, _, _)

GetLine(strm, line, skipped, flags) ==
  With(istream_precache(strm), LAMBDA p :
    LET s    == p.s
        ends == Breaks(s.buf)
        i    == IF ends = {} THEN Len(s.buf) ELSE Min(ends) - 1
        n    == IF ends # {} /\ i > 0 /\ s.buf[i] = CR THEN i - 1 ELSE i
        so   == line \o SubSeq(s.buf, 1, n)
        next == [s EXCEPT !.off = IF ends = {} THEN i ELSE i + 1]
        got(l) == [ret |-> "line", s |-> next, line |-> l, skipped |-> skipped]
        stop(why) == [ret |-> why, s |-> s, line |-> <<>>, skipped |-> skipped]
    IN  IF p.ret # "ok" THEN stop(p.ret)
        ELSE IF s.buf = <<>>
        THEN IF line = <<>> \/ (trim(line, flags) = <<>> /\ "skip_empty" \in flags) THEN stop("eof")
             ELSE [got(trim(line, flags)) EXCEPT !.s = s]
        ELSE IF ends = {} THEN GetLine(next, so, skipped, flags)
        ELSE IF trim(so, flags) = <<>> /\ "skip_empty" \in flags
             THEN GetLine(next, <<>>, skipped + 1, flags)
        ELSE got(trim(so, flags)))

(* The next line; skipped is what is added to the line number. *)
istream_get_line(s, flags) == GetLine(s, <<>>, 0, flags)

------------------------------------------------------------------------------
(* Output streams: ostream.c, unix/ostream.c and compress.  A sink is a     *)
(* file, opened for sparse output or not, or a pipe.                        *)

ostream_open_file(sink, sparse) ==
  [kind |-> sink, sparse |-> sparse, data |-> <<>>, pos |-> 0, sparse_count |-> 0, size |-> 0]

(* write(2) behind a hole that lseek left. *)
WriteAt(data, pos, bytes) ==
  [i \in 1 .. Max({Len(data), pos + Len(bytes)}) |->
     IF i > pos /\ i <= pos + Len(bytes) THEN bytes[i - pos]
     ELSE IF i <= Len(data) THEN data[i] ELSE Byte(0)]

file_append(o, bytes) ==
  LET at == o.pos + o.sparse_count
  IN  IF bytes = <<>> THEN o
      ELSE [o EXCEPT !.data = WriteAt(@, at, bytes), !.pos = at + Len(bytes), !.sparse_count = 0,
                     !.size = @ + Len(bytes)]

file_append_sparse(o, n) == [o EXCEPT !.sparse_count = @ + n, !.size = @ + n]

(* Mutant: a hole at the end is forgotten. *)
FlushKeepsSize(o) == [ret |-> IF o.kind = "pipe" THEN "error" ELSE "ok", o |-> o]

(* ftruncate, and fsync, which a pipe does not have. *)
file_flush(o) ==
  [ret |-> IF o.kind = "pipe" THEN "error" ELSE "ok",
   o |-> IF o.sparse_count > 0
         THEN [o EXCEPT !.data = [i \in 1 .. o.size |-> IF i <= Len(@) THEN @[i] ELSE Byte(0)]]
         ELSE o]

ostream_compressor_create(wrapped, codec) ==
  [kind |-> codec, wrapped |-> wrapped, enc |-> encoder_init(codec), inbuf |-> <<>>]

RECURSIVE gzip_flush_inbuf(_, _, _), zstd_flush_inbuf(_, _), bzip2_flush_inbuf(_, _)

(* gzip.c: while the output buffer comes back full. *)
gzip_flush_inbuf(c, in, finish) ==
  With(encode(c.enc, in, BufSz, finish), LAMBDA r :
    LET d == [c EXCEPT !.enc = r.e, !.wrapped = file_append(@, r.out)]
    IN  IF Len(r.out) = BufSz THEN gzip_flush_inbuf(d, r.in, finish)
        ELSE [d EXCEPT !.inbuf = <<>>])

(* xz.c has the same loop. *)
xz_flush_inbuf(c, in, finish) == gzip_flush_inbuf(c, in, finish)

(* zstd.c: once, or until there is nothing left to be put out. *)
zstd_flush_inbuf(c, finish) ==
  With(encode(c.enc, c.inbuf, BufSz, finish), LAMBDA r :
    LET d == [c EXCEPT !.enc = r.e, !.wrapped = file_append(@, r.out), !.inbuf = r.in]
    IN  IF finish /\ ~(r.e.ended /\ r.e.out = <<>>) THEN zstd_flush_inbuf(d, finish) ELSE d)

(* bzip2.c: until the data ends or there is no more input. *)
bzip2_flush_inbuf(c, finish) ==
  With(encode(c.enc, c.inbuf, BufSz, finish), LAMBDA r :
    LET d == [c EXCEPT !.enc = r.e, !.wrapped = file_append(@, r.out), !.inbuf = r.in]
    IN  IF r.in = <<>> THEN d ELSE bzip2_flush_inbuf(d, finish))

flush_inbuf(c, finish) ==
  CASE c.kind = "gzip"  -> gzip_flush_inbuf(c, c.inbuf, finish)
    [] c.kind = "xz"    -> xz_flush_inbuf(c, c.inbuf, finish)
    [] c.kind = "zstd"  -> zstd_flush_inbuf(c, finish)
    [] c.kind = "bzip2" -> bzip2_flush_inbuf(c, finish)

RECURSIVE comp_append(_, _)

comp_append(c, bytes) ==
  With(IF Len(c.inbuf) >= BufSz THEN flush_inbuf(c, FALSE) ELSE c, LAMBDA d :
    LET n == Min({BufSz - Len(d.inbuf), Len(bytes)})
    IN  IF bytes = <<>> THEN c
        ELSE comp_append([d EXCEPT !.inbuf = @ \o SubSeq(bytes, 1, n)],
                         SubSeq(bytes, n + 1, Len(bytes))))

comp_flush(c) ==
  With(IF c.inbuf = <<>> THEN c ELSE flush_inbuf(c, TRUE), LAMBDA d :
    LET f == file_flush(d.wrapped)
    IN  [ret |-> f.ret, o |-> [d EXCEPT !.wrapped = f.o]])

ostream_append(o, bytes) == IF o.kind \in Codecs THEN comp_append(o, bytes) ELSE file_append(o, bytes)

(* append_sparse_fallback: zero bytes, where there are no holes. *)
ostream_append_sparse(o, n) ==
  IF o.kind = "file" /\ o.sparse THEN file_append_sparse(o, n) ELSE ostream_append(o, ZeroCells(n))

ostream_flush(o) == IF o.kind \in Codecs THEN comp_flush(o) ELSE file_flush(o)

(* What is on disk. *)
Sunk(o) == IF o.kind \in Codecs THEN o.wrapped.data ELSE o.data

RECURSIVE ostream_append_from_istream(_, _, _)

(* Up to n bytes of a stream, buffer by buffer. *)
ostream_append_from_istream(o, s, n) ==
  With(IF s.off >= Len(s.buf) THEN istream_precache(s) ELSE Ok(s), LAMBDA p :
    LET diff == Min({n, Len(p.s.buf) - p.s.off})
        rest == ostream_append_from_istream(
                  ostream_append(o, SubSeq(p.s.buf, p.s.off + 1, p.s.off + diff)),
                  [p.s EXCEPT !.off = @ + diff], n - diff)
        stop(why, t) == [ret |-> why, o |-> o, s |-> t, total |-> 0]
    IN  IF n = 0 THEN stop("ok", s)
        ELSE IF p.ret # "ok" THEN stop(p.ret, p.s)
        ELSE IF p.s.buf = <<>> THEN stop("ok", p.s)
        ELSE [rest EXCEPT !.total = @ + diff])
=============================================================================
