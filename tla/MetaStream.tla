------------------------------ MODULE MetaStream ------------------------------
(***************************************************************************)
(* The meta data blocks that inodes, directories and tables are stored in: *)
(* lib/sqfs/meta_writer.c and lib/sqfs/meta_reader.c, as operators on the  *)
(* two objects and on the file they share.                                 *)
(*                                                                         *)
(* The file is a sequence of cells; the cell at offset o is file[o + 1].   *)
(* A structure fills a fixed number of cells, and the two byte header of a *)
(* meta data block is one cell.                                            *)
(***************************************************************************)
EXTENDS Integers, Sequences, SequencesExt, FiniteSets, Names

CONSTANT MetaBlockSize  \* SQFS_META_BLOCK_SIZE, in cells

ASSUME MetaStreamAssumption == MetaBlockSize \in Nat \ {0}

(* 0xFFFFFFFF, where an index means that there is none. *)
NoIndex == -1

(* A structure of n cells. *)
Pack(struct, n) == [i \in 1 .. n |-> [part |-> i, of |-> struct]]

(* What a program sees that looks at other bytes as a structure. *)
Garbage == [garbage |-> TRUE]

Unpack(cells) ==
  IF cells # <<>> /\ cells = Pack(cells[1].of, Len(cells)) THEN cells[1].of ELSE Garbage

(* One cell for every character. *)
NameCells(name) == [i \in DOMAIN name |-> [part |-> 1, of |-> [char |-> name[i]]]]
CellsName(cells) == [i \in DOMAIN cells |-> cells[i].of.char]

(* The compressor: some blocks become one cell, others do not get smaller. *)
do_block(data) ==
  IF Len(data) > 1 /\ data[1].part = 1 THEN Pack([zip |-> data], 1) ELSE <<>>

(* A block as it is stored: the header and the possibly compressed data. *)
meta_block(data) ==
  LET zipped == do_block(data)
      stored == IF zipped # <<>> THEN zipped ELSE data
  IN  Pack([size |-> Len(stored), compressed |-> zipped # <<>>], 1) \o stored

------------------------------------------------------------------------------
(* The writer.  A call works on a state s of the writer m, the file, the    *)
(* result so far, and what is going to happen to the next blocks that are   *)
(* flushed: "ok", "compress" (no memory, or the compressor fails) or "io".  *)

meta_writer_create(keep) ==
  [data |-> <<>>, block_offset |-> 0, list |-> <<>>, keep |-> keep]

Calling(m, file, fates) == [m |-> m, file |-> file, ret |-> "ok", fates |-> fates]

get_position(m) == [block |-> m.block_offset, offset |-> Len(m.data)]

(* Mutant: the block is not counted when it is kept in memory. *)
FlushKeepsPosition(s) ==
  LET blk == meta_block(s.m.data)
  IN  IF s.m.data = <<>> THEN s
      ELSE IF s.m.keep THEN [s EXCEPT !.m.data = <<>>, !.m.list = Append(@, blk)]
      ELSE [s EXCEPT !.m.data = <<>>, !.m.block_offset = @ + Len(blk), !.file = @ \o blk]

meta_writer_flush(s) ==
  With(meta_block(s.m.data), LAMBDA blk :
    LET fate  == IF s.fates = <<>> THEN "ok" ELSE Head(s.fates)
        after == [s EXCEPT !.fates = IF @ = <<>> THEN @ ELSE Tail(@),
                           !.m.data = <<>>, !.m.block_offset = @ + Len(blk)]
    IN  IF s.m.data = <<>> THEN s
        ELSE IF fate = "compress" THEN [s EXCEPT !.ret = "error", !.fates = Tail(@)]
        ELSE IF s.m.keep THEN [after EXCEPT !.m.list = Append(@, blk)]
        ELSE IF fate = "io" THEN [after EXCEPT !.ret = "error"]
        ELSE [after EXCEPT !.file = @ \o blk])

Full(s) == Len(s.m.data) = MetaBlockSize

AppendCell(s, cell) ==
  With(IF s.ret = "ok" /\ Full(s) THEN meta_writer_flush(s) ELSE s, LAMBDA f :
    IF f.ret = "ok" THEN [f EXCEPT !.m.data = Append(@, cell)] ELSE f)

meta_writer_append(s, cells) ==
  With(FoldLeft(AppendCell, s, cells), LAMBDA r :
    IF r.ret = "ok" /\ Full(r) THEN meta_writer_flush(r) ELSE r)

(* The blocks kept in memory are written until a write fails; what is left  *)
(* stays in the list.  failing is the number of the write that fails, or 0. *)
write_to_file(s, failing) ==
  LET n == IF failing \in DOMAIN s.m.list THEN failing - 1 ELSE Len(s.m.list)
  IN  [s EXCEPT !.file = @ \o FlattenSeq(SubSeq(s.m.list, 1, n)),
                !.m.list = SubSeq(@, n + 1, Len(@)),
                !.ret = IF n < Len(s.m.list) THEN "error" ELSE "ok"]

------------------------------------------------------------------------------
(* The reader.  "header", "payload" and "unpack" are the steps of fetching  *)
(* a block that may fail.                                                   *)

meta_reader_create(start, limit) ==
  [start |-> start, limit |-> limit, data |-> <<>>, data_used |-> 0,
   block_offset |-> 0, next_block |-> 0, offset |-> 0]

CellsAt(file, offset, n) ==
  IF offset + n <= Len(file) THEN SubSeq(file, offset + 1, offset + n) ELSE <<>>

(* memcpy to the start of a buffer. *)
Overwrite(buffer, cells) == cells \o SubSeq(buffer, Len(cells) + 1, Len(buffer))

HeaderAt(file, offset) ==
  LET h == Unpack(CellsAt(file, offset, 1))
  IN  IF "compressed" \in DOMAIN h THEN h ELSE [size |-> MetaBlockSize + 1, compressed |-> FALSE]

meta_reader_seek(m, file, block_start, offset, fault) ==
  With(HeaderAt(file, block_start), LAMBDA hdr :
    LET raw    == CellsAt(file, block_start + 1, hdr.size)
    IN  With(IF hdr.compressed THEN raw[1].of.zip ELSE raw, LAMBDA data :
          LET loaded == [m EXCEPT !.data = Overwrite(@, data), !.data_used = Len(data)]
              error(r) == [m |-> r, ret |-> "error"]
          IN  IF block_start < m.start \/ block_start >= m.limit THEN error(m)
              ELSE IF block_start = m.block_offset
                   THEN IF offset >= m.data_used THEN error(m)
                        ELSE [m |-> [m EXCEPT !.offset = offset], ret |-> "ok"]
              ELSE IF fault = "header" \/ hdr.size > MetaBlockSize
                      \/ block_start + 1 + hdr.size > m.limit THEN error(m)
              ELSE IF fault = "payload" \/ (fault = "unpack" /\ hdr.compressed)
                   THEN error([m EXCEPT !.data = Overwrite(@, raw)])
              ELSE IF offset >= Len(data) THEN error(loaded)
              ELSE [m |-> [loaded EXCEPT !.block_offset = block_start, !.offset = offset,
                                         !.next_block = block_start + 1 + hdr.size],
                    ret |-> "ok"]))

(* One cell of a read; beyond what was ever loaded the buffer is zero. *)
ReadCell(s, i) ==
  With(IF s.m.data_used = s.m.offset
       THEN meta_reader_seek(s.m, s.file, s.m.next_block, 0, s.fault)
       ELSE [m |-> s.m, ret |-> "ok"], LAMBDA k :
    LET cell == IF k.m.offset < Len(k.m.data) THEN k.m.data[k.m.offset + 1]
                ELSE [part |-> 1, of |-> Garbage]
    IN  IF s.ret # "ok" THEN s
        ELSE IF k.ret # "ok" THEN [s EXCEPT !.m = k.m, !.ret = k.ret]
        ELSE [s EXCEPT !.m = [k.m EXCEPT !.offset = @ + 1], !.out = Append(@, cell)])

meta_reader_read(m, file, size, fault) ==
  FoldLeft(ReadCell, [m |-> m, file |-> file, fault |-> fault, ret |-> "ok", out |-> <<>>],
           [i \in 1 .. size |-> i])
=============================================================================
