--------------------------------- MODULE Tar ---------------------------------
(***************************************************************************)
(* Tar archives: lib/tar.  An archive is a sequence of records of R cells. *)
(* A header fills a record; its text and numbers are fields of the value   *)
(* of the first cell.  Names too long for it, and attributes, are in       *)
(* records of their own in front of it, and the contents come behind it.   *)
(***************************************************************************)
EXTENDS Streams, Numbers, Names

CONSTANTS
  R,          \* TAR_RECORD_SIZE
  NameMax,    \* 100: names from this length on get a header of their own
  LenMax,     \* TAR_MAX_PATH_LEN, TAR_MAX_SYMLINK_LEN, TAR_MAX_PAX_LEN, TAR_MAX_SPARSE_ENT
  IdDigits,   \* characters of the fields of owner and device numbers
  SizeDigits, \* characters of the size field
  DevMod,     \* minor device numbers
  Radix       \* 10: base of the lengths in a PAX header

ASSUME TarAssumption ==
  R \in Nat \ {0} /\ NameMax \in Nat /\ DevMod \in Nat \ {0} /\ Radix \in Nat \ {0, 1}

Fill(n) == [i \in 1 .. n |-> Cell("rest", 0)]
Record(k, v) == <<Cell(k, v)>> \o Fill(R - 1)
ZeroRecord == ZeroCells(R)

(* strlen: the components and the slashes between them. *)
PathLen(path) == FoldLeft(LAMBDA n, c : n + Len(c), Len(path) - 1, path)

makedev(maj, min) == maj * DevMod + min
major(dev) == dev \div DevMod
minor(dev) == dev % DevMod

------------------------------------------------------------------------------
(* Writing *)

padd_file(o, size) ==
  IF size % R = 0 THEN o ELSE ostream_append(o, ZeroCells(R - (size % R)))

(* checksum.c: a sum over all bytes of the header. *)
get_checksum(h) ==
  FoldLeft(LAMBDA x, y : x + y, Len(h.name) + Len(h.link),
           h.uid \o h.gid \o h.size \o h.devmajor \o h.devminor)
update_checksum(h) == [h EXCEPT !.chksum = get_checksum(h)]
is_checksum_valid(h) == h.chksum = get_checksum(h)

NoHeader ==
  [name |-> <<>>, prefix |-> <<>>, uid |-> write_number(0, IdDigits), gid |-> write_number(0, IdDigits),
   size |-> write_number(0, SizeDigits), type |-> "file", link |-> <<>>, magic |-> "gnu",
   devmajor |-> write_number(0, IdDigits), devminor |-> write_number(0, IdDigits),
   sparse |-> <<>>, isextended |-> FALSE, realsize |-> write_number(0, SizeDigits), chksum |-> 0]

write_header(o, sb, name, slink_target, type) ==
  LET dev == IF sb.mode \in {"bdev", "cdev"} THEN sb.rdev ELSE 0
      h   == [NoHeader EXCEPT !.name = name, !.link = slink_target, !.type = type,
                !.uid = write_number(sb.uid, IdDigits), !.gid = write_number(sb.gid, IdDigits),
                !.size = write_number(IF sb.mode = "file" THEN sb.size ELSE 0, SizeDigits),
                !.devmajor = write_number(major(dev), IdDigits),
                !.devminor = write_number(minor(dev), IdDigits)]
  IN  ostream_append(o, Record("hdr", update_checksum(h)))

(* A text of some length. *)
Payload(text, len) == <<Cell("text", text)>> \o Fill(len - 1)

(* The names made from the counter do not matter. *)
Counted == <<<<103>>, <<110>>>>

write_gnu_header(o, orig, payload, len, type) ==
  LET sb == [orig EXCEPT !.mode = "file", !.size = len]
  IN  padd_file(ostream_append(write_header(o, sb, Counted, <<>>, type), Payload(payload, len)), len)

(* A line of a PAX header: its length, as many characters as that has, and  *)
(* the rest.                                                                *)
LineLen(kv) ==
  LET len == Len(kv.key.name) + Len(kv.value) + 3
  IN  len + prefix_digit_len(len, Radix)
PaxLine(kv) ==
  LET len == LineLen(kv)
      n   == num_digits(len, Radix)
  IN  [i \in 1 .. n |-> Cell("len", len)] \o <<Cell("kv", kv)>>
      \o Fill(Len(kv.key.name) + Len(kv.value) + 2)

write_schily_xattr(o, orig, xattr) ==
  LET total == FoldLeft(LAMBDA n, kv : n + LineLen(kv), 0, xattr)
      sb    == [orig EXCEPT !.mode = "file", !.size = total]
      lines == FlattenSeq([i \in DOMAIN xattr |-> PaxLine(xattr[i])])
  IN  padd_file(ostream_append(write_header(o, sb, Counted, <<>>, "pax"), lines), total)

TarTypes == {"file", "slink", "cdev", "bdev", "dir", "fifo"}

(* ret is 1 for what cannot be stored; the headers in front are written. *)
write_tar_header(o, sb, name, target, xattr) ==
  LET x    == IF xattr = <<>> THEN o ELSE write_schily_xattr(o, sb, xattr)
      long == sb.mode = "slink" /\ sb.size >= NameMax
  IN  With(IF long THEN write_gnu_header(x, sb, target, sb.size, "gnu_slink") ELSE x, LAMBDA l :
        LET n    == IF PathLen(name) >= NameMax
                    THEN write_gnu_header(l, sb, name, PathLen(name), "gnu_path") ELSE l
            link == IF sb.mode = "slink" /\ ~long THEN target ELSE <<>>
        IN  IF sb.mode \notin TarTypes THEN [o |-> n, ret |-> 1]
            ELSE [o |-> write_header(n, sb, IF PathLen(name) >= NameMax THEN Counted ELSE name, link, sb.mode),
                  ret |-> 0])

write_hard_link(o, sb, name, target) ==
  LET l == IF PathLen(target) >= NameMax
           THEN write_gnu_header(o, sb, target, PathLen(target), "gnu_slink") ELSE o
      n == IF PathLen(name) >= NameMax
           THEN write_gnu_header(l, sb, name, PathLen(name), "gnu_path") ELSE l
  IN  write_header(n, [sb EXCEPT !.mode = "link"],
                   IF PathLen(name) >= NameMax THEN Counted ELSE name,
                   IF PathLen(target) >= NameMax THEN Counted ELSE target, "link")

------------------------------------------------------------------------------
(* Reading *)

skip_padding(s, size) == IF size % R = 0 THEN Ok(s) ELSE istream_skip(s, R - (size % R))

skip_entry(s, size) ==
  istream_skip(s, IF size % R = 0 THEN size ELSE size + R - (size % R))

record_to_memory(s, size) ==
  With(istream_read(s, size), LAMBDA r :
    LET p == skip_padding(r.s, size)
    IN  IF r.ret # "ok" \/ Len(r.data) < size THEN [r EXCEPT !.ret = "error"]
        ELSE [ret |-> p.ret, s |-> p.s, data |-> r.data])

(* clear_header: nothing is known. *)
clear_header ==
  [name |-> <<>>, link_target |-> <<>>, linked |-> FALSE, sparse |-> <<>>, actual_size |-> 0,
   record_size |-> 0, size |-> 0, unknown_record |-> FALSE, is_hard_link |-> FALSE,
   xattr |-> <<>>, mode |-> "none", uid |-> 0, gid |-> 0, rdev |-> 0]

(* What GNU and PAX headers said of the next entry. *)
TextOf(data) == IF data[1].k = "text" THEN data[1].v ELSE <<>>

(* read_sparse_map: offsets and counts, in turn. *)
read_sparse_map(numbers) ==
  [i \in 1 .. Len(numbers) \div 2 |->
     [offset |-> pax_read_decimal(numbers[2 * i - 1]), count |-> pax_read_decimal(numbers[2 * i])]]

(* The last "=" is taken to be the one between the key and the value. *)
SplitAtLast(kv) ==
  LET at == {i \in DOMAIN kv.value : kv.value[i] = 61}
      i  == Max(at)
  IN  IF at = {} THEN kv
      ELSE [key |-> [kv.key EXCEPT !.name = @ \o <<61>> \o SubSeq(kv.value, 1, i - 1)],
            value |-> SubSeq(kv.value, i + 1, Len(kv.value))]

(* One line.  A number that is too large, and a list of an odd length, are  *)
(* refused.  p is [ret, out, set, offset, listing].                         *)
PaxField(p, kv) ==
  LET num  == pax_read_decimal(kv.value)
      bad  == [p EXCEPT !.ret = "error"]
      set(o, flag) == [p EXCEPT !.out = o, !.set = @ \cup {flag}]
  IN  CASE p.ret # "ok"              -> p
        [] kv.key.prefix = "uid"     -> IF num < 0 THEN bad ELSE set([p.out EXCEPT !.uid = num], "uid")
        [] kv.key.prefix = "gid"     -> IF num < 0 THEN bad ELSE set([p.out EXCEPT !.gid = num], "gid")
        [] kv.key.prefix = "size"    -> IF num < 0 THEN bad
                                        ELSE set([p.out EXCEPT !.record_size = num], "size")
        [] kv.key.prefix = "path"    -> set([p.out EXCEPT !.name = kv.value], "name")
        [] kv.key.prefix = "linkpath" ->
             set([p.out EXCEPT !.link_target = kv.value, !.linked = TRUE], "link")
        [] kv.key.prefix = "sparse.map" ->
             IF kv.value = <<>> \/ Len(kv.value) % 2 # 0 \/ \E i \in DOMAIN kv.value :
                  pax_read_decimal(kv.value[i]) < 0 THEN bad
             ELSE [p EXCEPT !.out.sparse = read_sparse_map(kv.value), !.listing = FALSE]
        [] kv.key.prefix = "sparse.size" ->
             IF num < 0 THEN bad ELSE set([p.out EXCEPT !.actual_size = num], "sparse_size")
        [] kv.key.prefix = "sparse.major" -> set(p.out, "sparse_1_x")
        [] kv.key.prefix = "sparse.offset" -> IF num < 0 THEN bad ELSE [p EXCEPT !.offset = num]
        [] kv.key.prefix = "sparse.numbytes" ->
             IF num < 0 THEN bad
             ELSE [p EXCEPT !.listing = TRUE,
                            !.out.sparse = Append(IF p.listing THEN @ ELSE <<>>,
                                                  [offset |-> p.offset, count |-> num])]
        [] kv.key.prefix = "other"   -> p
        [] kv.key.prefix = "libarchive" ->
             [p EXCEPT !.out.xattr =
                <<[key |-> [prefix |-> "user", name |-> urldecode(kv.key.name)],
                   value |-> base64_decode(kv.value)]>> \o @]
        [] OTHER                     -> [p EXCEPT !.out.xattr = <<SplitAtLast(kv)>> \o @]

RECURSIVE PaxLines(_, _)

PaxLines(p, data) ==
  LET len  == data[1].v
      line == SubSeq(data, 1, len)
      kvs  == SelectSeq(line, LAMBDA c : c.k = "kv")
  IN  IF data = <<>> \/ p.ret # "ok" THEN p
      ELSE IF data[1].k # "len" THEN [p EXCEPT !.ret = "error"]
      ELSE IF len <= 0 \/ len > Len(data) \/ kvs = <<>> THEN [p EXCEPT !.ret = "error"]
      ELSE PaxLines(PaxField(p, kvs[1].v), SubSeq(data, len + 1, Len(data)))

read_pax_header(s, size, out) ==
  With(record_to_memory(s, size), LAMBDA r :
    LET p == PaxLines([ret |-> "ok", out |-> out, set |-> {}, offset |-> 0, listing |-> FALSE], r.data)
    IN  IF r.ret # "ok" THEN [ret |-> "error", s |-> r.s, out |-> out, set |-> {}]
        ELSE [ret |-> p.ret, s |-> r.s, out |-> p.out, set |-> p.set])

RECURSIVE read_gnu_old_sparse(_, _, _)

(* The map in the header, and in the records behind it. *)
read_gnu_old_sparse(s, list, isextended) ==
  LET r == istream_read(s, R)
  IN  IF ~isextended THEN [ret |-> IF list = <<>> THEN "error" ELSE "ok", s |-> s, list |-> list]
      ELSE IF r.ret # "ok" \/ Len(r.data) < R THEN [ret |-> "error", s |-> r.s, list |-> list]
      ELSE IF r.data[1].k # "ext" THEN [ret |-> "error", s |-> r.s, list |-> list]
      ELSE read_gnu_old_sparse(r.s, list \o r.data[1].v.sparse, r.data[1].v.isextended)

(* A number and a line break: [used, value], 0 if there is more to come and *)
(* -1 if that is not what there is.                                         *)
DecodeNumber(cells) ==
  LET str == [i \in DOMAIN cells |-> IF cells[i].k = "byte" THEN cells[i].v ELSE 0]
      n   == DigitRun(str)
  IN  IF n = 0 \/ n = Len(str) THEN [used |-> 0, value |-> 0]
      ELSE IF str[n + 1] # 10 THEN [used |-> -1, value |-> 0]
      ELSE [used |-> n + 1, value |-> Accumulate(Values(SubSeq(str, 1, n)), 10, SizeMax)]

RECURSIVE SparseNumbers(_, _, _, _, _)

(* n numbers from the rest of a record and the ones behind it. *)
SparseNumbers(s, left, size, n, got) ==
  LET d == DecodeNumber(left)
      r == istream_read(s, R)
      e == DecodeNumber(left \o r.data)
      bad == [ret |-> "error", s |-> s, size |-> size, got |-> got]
  IN  IF n = 0 THEN [bad EXCEPT !.ret = "ok"]
      ELSE IF d.used < 0 \/ d.value < 0 THEN bad
      ELSE IF d.used > 0
           THEN SparseNumbers(s, SubSeq(left, d.used + 1, Len(left)), size, n - 1, Append(got, d.value))
      ELSE IF size < R \/ r.ret # "ok" \/ Len(r.data) < R \/ e.used <= 0 \/ e.value < 0 THEN bad
      ELSE SparseNumbers(r.s, SubSeq(left \o r.data, e.used + 1, Len(left) + R), size - R, n - 1,
                         Append(got, e.value))

(* GNU 1.0: the map is in front of the data. *)
read_gnu_new_sparse(s, out) ==
  LET r == istream_read(s, R)
      c == DecodeNumber(r.data)
  IN  With(SparseNumbers(r.s, SubSeq(r.data, c.used + 1, R), out.record_size - R, 2 * c.value, <<>>), LAMBDA m :
        LET bad == [ret |-> "error", s |-> r.s, out |-> out]
        IN  IF out.record_size < R \/ r.ret # "ok" \/ Len(r.data) < R THEN bad
            ELSE IF c.used <= 0 \/ c.value <= 0 \/ c.value > LenMax \/ m.ret # "ok" THEN bad
            ELSE [ret |-> "ok", s |-> m.s,
                  out |-> [out EXCEPT !.record_size = m.size,
                             !.sparse = [i \in 1 .. c.value |->
                                           [offset |-> m.got[2 * i - 1], count |-> m.got[2 * i]]]]])

(* What the headers in front did not set comes from the header itself. *)
decode_header(h, set, out) ==
  LET size == IF "size" \in set THEN out.record_size ELSE read_number(h.size)
      uid  == IF "uid" \in set THEN out.uid ELSE read_number(h.uid)
      gid  == IF "gid" \in set THEN out.gid ELSE read_number(h.gid)
      maj  == read_number(h.devmajor)
      min  == read_number(h.devminor)
      linked == h.type \in {"link", "slink"} /\ "link" \notin set
  IN  IF Min({size, uid, gid, maj, min}) < 0 THEN [ret |-> "error", out |-> out]
      ELSE [ret |-> "ok",
            out |-> [out EXCEPT
              !.name = IF "name" \in set THEN @
                       ELSE IF h.prefix # <<>> /\ h.magic = "posix" THEN h.prefix \o h.name ELSE h.name,
              !.record_size = size, !.uid = uid, !.gid = gid, !.rdev = makedev(maj, min),
              !.link_target = IF linked THEN h.link ELSE @, !.linked = linked \/ @,
              !.mode = IF h.type \in {"file", "gnu_sparse"} THEN "file" ELSE h.type,
              !.is_hard_link = h.type = "link",
              !.unknown_record = h.type \notin TarTypes \cup {"link", "gnu_sparse"}]]

(* The sizes, when the map of a sparse file is known. *)
Sized(r) ==
  IF r.out.sparse # <<>> THEN [r EXCEPT !.out.size = r.out.actual_size]
  ELSE [r EXCEPT !.out.size = r.out.record_size, !.out.actual_size = r.out.record_size]

(* The entry itself, after all that comes in front of it. *)
ReadEntryHeader(s, h, out, set) ==
  With(read_gnu_old_sparse(s, h.sparse, h.isextended), LAMBDA old :
    LET o   == IF h.type = "gnu_sparse"
               THEN [out EXCEPT !.sparse = old.list, !.actual_size = read_number(h.realsize)] ELSE out
        d   == decode_header(h, set, o)
        t   == IF h.type = "gnu_sparse" THEN old.s ELSE s
    IN  With(read_gnu_new_sparse(t, d.out), LAMBDA new :
          LET bad == [ret |-> "error", s |-> t, out |-> clear_header]
          IN  IF h.type = "gnu_sparse" /\ (old.ret # "ok" \/ o.actual_size < 0) THEN bad
              ELSE IF d.ret # "ok" THEN bad
              ELSE IF "sparse_1_x" \notin set THEN Sized([ret |-> "ok", s |-> t, out |-> d.out])
              ELSE IF new.ret # "ok" THEN bad ELSE Sized(new)))

RECURSIVE ReadHeader(_, _, _, _)

ReadHeader(s, out, set, prev_was_zero) ==
  With(istream_read(s, R), LAMBDA r :
    LET h    == r.data[1].v
        size == read_number(h.size)
        m    == record_to_memory(r.s, size)
        x    == read_pax_header(r.s, size, clear_header)
        stop(why, t) == [ret |-> why, s |-> t, out |-> clear_header]
        fits == size >= 1 /\ size <= LenMax
    IN  IF r.ret # "ok" THEN stop("error", r.s)
        ELSE IF Len(r.data) < R THEN stop("eof", r.s)
        ELSE IF IsZero(r.data)
             THEN IF prev_was_zero THEN stop("eof", r.s) ELSE ReadHeader(r.s, out, set, TRUE)
        ELSE IF r.data[1].k # "hdr" THEN stop("error", r.s)
        ELSE IF h.magic = "unknown" \/ ~is_checksum_valid(h) THEN stop("error", r.s)
        ELSE CASE h.type = "gnu_slink" ->
                    IF ~fits \/ m.ret # "ok" THEN stop("error", m.s)
                    ELSE ReadHeader(m.s, [out EXCEPT !.link_target = TextOf(m.data), !.linked = TRUE],
                                    set \cup {"link"}, FALSE)
               [] h.type = "gnu_path" ->
                    IF ~fits \/ m.ret # "ok" THEN stop("error", m.s)
                    ELSE ReadHeader(m.s, [out EXCEPT !.name = TextOf(m.data)], set \cup {"name"}, FALSE)
               [] h.type = "pax_global" ->
                    IF size < 0 THEN stop("error", r.s)
                    ELSE ReadHeader(skip_entry(r.s, size).s, out, set, FALSE)
               [] h.type = "pax" ->
                    IF ~fits \/ x.ret # "ok" THEN stop("error", x.s)
                    ELSE ReadHeader(x.s, x.out, x.set, FALSE)
               [] OTHER -> ReadEntryHeader(r.s, h, out, set))

read_header(s) == ReadHeader(s, clear_header, {}, FALSE)
=============================================================================
