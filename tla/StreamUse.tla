------------------------------ MODULE StreamUse ------------------------------
(***************************************************************************)
(* What the tools do with the streams: data is appended to an output       *)
(* stream, in pieces and with holes, and flushed; what is then on disk,    *)
(* perhaps cut short, is opened, recognised and read, skipped or taken     *)
(* line by line.                                                           *)
(***************************************************************************)
EXTENDS Streams

CONSTANTS
  Contents, \* what is written
  Pieces,   \* the sizes of the requests
  Flags     \* sets of flags of istream_get_line

VARIABLES
  phase, \* "write", "closed", "read", "lines", "eof", "failed" or "endless"
  use,   \* [plain, codec, sink, sparse]: what is written, and where to
  from,  \* the input stream that the data comes from
  out,   \* the output stream
  disk,  \* [data, cut, end, text, flags]: what there is to read, as text or not
  in,    \* the input stream that reads it
  got    \* what was delivered: bytes, with Skipped for those skipped, or lines

vars == <<phase, use, from, out, disk, in, got>>

Skipped == Cell("skipped", 0)
NoDisk == [data |-> <<>>, cut |-> FALSE, end |-> "eof", text |-> FALSE, flags |-> {}]
Nowhere == ostream_open_file("file", FALSE)
Nothing == istream_open_file(<<>>, "eof")

Init ==
  /\ phase = "write"
  /\ use \in [plain : Contents, codec : Codecs \cup {"none"}, sink : {"file", "pipe"},
              sparse : BOOLEAN]
  /\ use.sparse => use.sink = "file" /\ use.codec = "none"
  /\ from = istream_open_file(use.plain, "eof")
  /\ out = LET file == ostream_open_file(use.sink, use.sparse)
           IN  IF use.codec = "none" THEN file ELSE ostream_compressor_create(file, use.codec)
  /\ disk = NoDisk /\ in = Nothing /\ got = <<>>

Left == SubSeq(from.buf, from.off + 1, Len(from.buf)) \o from.rest

AppendPiece ==
  /\ phase = "write" /\ Left # <<>>
  /\ \E n \in Pieces :
       With(ostream_append_from_istream(out, from, n), LAMBDA r :
         out' = r.o /\ from' = r.s)
  /\ UNCHANGED <<phase, use, disk, in, got>>

AppendHole ==
  /\ phase = "write"
  /\ \E n \in Pieces :
       /\ IsPrefix(ZeroCells(n), Left)
       /\ out' = ostream_append_sparse(out, n)
       /\ from' = istream_skip(from, n).s
  /\ UNCHANGED <<phase, use, disk, in, got>>

(* A tool that cannot flush its output fails.  The file may lose its end    *)
(* afterwards, and reading may fail there.                                  *)
Close ==
  /\ phase = "write" /\ Left = <<>>
  /\ phase' = IF ostream_flush(out).ret = "ok" THEN "closed" ELSE "failed"
  /\ \E n \in 0 .. Len(Sunk(ostream_flush(out).o)), end \in {"eof", "error"} :
       LET data == Sunk(ostream_flush(out).o)
       IN  disk' = [data |-> SubSeq(data, 1, n), cut |-> n < Len(data), end |-> end,
                     text |-> FALSE, flags |-> {}]
  /\ from' = Nothing /\ out' = Nowhere
  /\ UNCHANGED <<use, in, got>>

Text == \A i \in DOMAIN use.plain : use.plain[i].v \in {10, 13, 32, 97}

Open ==
  /\ phase = "closed"
  /\ \E text \in BOOLEAN, flags \in Flags :
       With(istream_detect_compressor(istream_open_file(disk.data, disk.end), FALSE), LAMBDA d :
         /\ text => Text
         /\ in' = IF d.ret = "ok" /\ d.codec # "none"
                  THEN istream_compressor_create(d.s, d.codec) ELSE d.s
         /\ phase' = IF d.ret # "ok" THEN "failed" ELSE IF text THEN "lines" ELSE "read"
         /\ disk' = IF text THEN [disk EXCEPT !.text = TRUE, !.flags = flags] ELSE disk)
  /\ UNCHANGED <<use, from, out, got>>

Read ==
  /\ phase = "read"
  /\ \E n \in Pieces :
       LET r == istream_read(in, n)
       IN  /\ in' = r.s
           /\ got' = got \o r.data
           /\ phase' = CASE r.ret = "endless"   -> "endless"
                         [] r.ret = "error"     -> "failed"
                         [] Len(r.data) < n     -> "eof"
                         [] OTHER               -> "read"
  /\ UNCHANGED <<use, from, out, disk>>

Skip ==
  /\ phase = "read"
  /\ \E n \in Pieces :
       LET r == istream_skip(in, n)
       IN  /\ in' = r.s
           /\ got' = IF r.ret = "ok" THEN got \o [i \in 1 .. n |-> Skipped] ELSE got
           /\ phase' = CASE r.ret = "endless" -> "endless"
                         [] r.ret = "error"   -> "failed"
                         [] OTHER             -> "read"
  /\ UNCHANGED <<use, from, out, disk>>

ReadLine ==
  /\ phase = "lines"
  /\ LET r == istream_get_line(in, disk.flags)
     IN  /\ in' = r.s
         /\ got' = IF r.ret = "line" THEN Append(got, r.line) ELSE got
         /\ phase' = CASE r.ret = "endless" -> "endless"
                       [] r.ret = "line"    -> "lines"
                       [] r.ret = "eof"     -> "eof"
                       [] OTHER             -> "failed"
  /\ UNCHANGED <<use, from, out, disk>>

(* A precache that never comes back. *)
RunOn == phase = "endless" /\ UNCHANGED vars
Finished == phase \in {"eof", "failed"} /\ UNCHANGED vars

Next == AppendPiece \/ AppendHole \/ Close \/ Open \/ Read \/ Skip \/ ReadLine \/ RunOn \/ Finished

(* The program runs until it is done: weak fairness of Next, whose steps    *)
(* are possible in every phase but these.                                   *)
Running == phase \in {"write", "closed", "read", "lines"}
Fairness == []<>~Running \/ []<><<Running>>_vars

Spec == Init /\ [][Next]_vars /\ Fairness

------------------------------------------------------------------------------
(* Safety *)

(* Whatever mix of istream_read and istream_skip takes it out, through     *)
(* whatever compressor it went in, each byte is delivered at its place: the *)
(* data of a stream that was cut short is a beginning of what was written. *)
InOrder ==
  ~disk.text => /\ Len(got) <= Len(use.plain)
                /\ \A i \in DOMAIN got : got[i] \in {use.plain[i], Skipped}

Whole == ~disk.cut /\ disk.end = "eof"

(* ostream_flush processes all pending, buffered data and puts it to disk:  *)
(* what is there is complete, holes and the end of the compressed data      *)
(* included.                                                                *)
FlushedIsWhole ==
  phase = "closed" /\ Whole /\ use.plain # <<>> =>
    IF use.codec = "none" THEN disk.data = use.plain
    ELSE LET d == decode(decoder_init, disk.data, Len(use.plain))
         IN  d.d.done /\ d.out = use.plain

(* bzip2 data that does not fit the output buffer at once. *)
LargeBzip2 == use.codec = "bzip2" /\ Len(use.plain) + 3 > BufSz

(* It does, but for such data, and all of it is then delivered: no hole at  *)
(* the end is lost, no compressor keeps a rest, and no precache function    *)
(* takes an empty buffer for the end.                                       *)
SmallIsWhole ==
  LargeBzip2 \/ (/\ FlushedIsWhole
                 /\ phase = "eof" /\ Whole /\ ~disk.text => Len(got) = Len(use.plain))

(* The lines that the text has. *)
LinesOf(text, flags) ==
  LET ends  == {i \in DOMAIN text : text[i] = LF}
              \cup (IF text = <<>> \/ Last(text) = LF THEN {} ELSE {Len(text) + 1})
      begin(e) == Max({0} \cup {i \in ends : i < e}) + 1
      raw(e) == SubSeq(text, begin(e),
                       IF e > begin(e) /\ e <= Len(text) /\ text[e - 1] = CR THEN e - 2 ELSE e - 1)
      keep  == {e \in ends : trim(raw(e), flags) # <<>> \/ "skip_empty" \notin flags}
      order == SetToSortSeq(keep, <)
  IN  [i \in DOMAIN order |-> trim(raw(order[i]), flags)]

(* istream_get_line cuts a text into the lines it has, however they lie in  *)
(* the buffer, and none of them includes its line break.                    *)
LinesRight ==
  phase = "eof" /\ Whole /\ disk.text => got = LinesOf(use.plain, disk.flags)

(* It does, but for the CR of a line break that the buffer ends in.         *)
LinesRightButCR ==
  phase = "eof" /\ Whole /\ disk.text /\ ~LargeBzip2 =>
    LET lines == LinesOf(use.plain, disk.flags)
    IN  /\ Len(got) = Len(lines)
        /\ \A i \in DOMAIN got : got[i] \in {lines[i], Append(lines[i], CR)}

------------------------------------------------------------------------------
(* Liveness *)

(* A stream, cut short or not, comes to its end or fails: no precache       *)
(* function waits for data that will not come.  bzip2's does when its input *)
(* ends early, as it does for data that did not fit the output buffer.      *)
StreamsEnd ==
  phase \in {"read", "lines"} /\ ~LargeBzip2 /\ ~(use.codec = "bzip2" /\ disk.cut)
    ~> phase \in {"eof", "failed"}
=============================================================================
