----------------------------- MODULE DataReader -----------------------------
(***************************************************************************)
(* The data reader: lib/sqfs/data_reader.c.  It reads file contents from   *)
(* an image through two caches of one block each, one for data blocks and  *)
(* one for fragment blocks.                                                *)
(*                                                                         *)
(* A read goes through the blocks of the file one by one; pc is "read"     *)
(* meanwhile, and every block it needs may turn out to be unreadable.      *)
(* Inodes are the records of BlockProcessor, with the size of the file.    *)
(***************************************************************************)
EXTENDS BlockProcessor

CONSTANT ReadFaults  \* which steps of the reader may fail: "io", "alloc"

VARIABLES
  image,              \* the image: a sequence of cells
  frag_tbl,           \* the fragment table of the reader: <<location, size>>
  data_block, current_block,
  frag_block, current_frag_index,
  pc,                 \* "idle" or "read"
  args,               \* the inode, offset and size of the last call
  rd,                 \* the locals of the read call: i, off, offset, size
  buffer,             \* what the call has put into the caller's buffer
  ret                 \* "ok" or "error"

cache  == <<data_block, current_block, frag_block, current_frag_index>>
reader == <<frag_tbl, cache, pc, args, rd, buffer, ret>>

(* A buffer that is not allocated. *)
None == <<-1>>

NoArgs == [call |-> "none", inode |-> NewInode, filesz |-> 0, offset |-> 0, size |-> 0]

ReaderInit ==
  /\ frag_tbl = <<>>
  /\ data_block = None /\ current_block = 0
  /\ frag_block = None /\ current_frag_index = 0
  /\ pc = "idle" /\ args = NoArgs
  /\ rd = [i |-> 0, off |-> 0, offset |-> 0, size |-> 0]
  /\ buffer = <<>> /\ ret = "ok"

------------------------------------------------------------------------------
SQFS_ON_DISK_BLOCK_SIZE(size) == size % Uncompressed

SQFS_IS_BLOCK_COMPRESSED(size) == size < Uncompressed

SQFS_IS_SPARSE_BLOCK(size) == SQFS_ON_DISK_BLOCK_SIZE(size) = 0

Zeros(n) == [k \in 1 .. n |-> 0]

(* External: the inverse of the compressor of BlockProcessor. *)
uncompress(data) ==
  IF Len(data) = 1 /\ data[1] >= 100
  THEN [k \in 1 .. data[1] \div 100 |-> data[1] % 100] ELSE <<>>

(* The range lies in the image. *)
InImage(off, n) == off + n <= Len(image)

(* Mutant: a block that was not compressed is as long as a block may be. *)
RejectFullBlock(off, size, max_size) ==
  LET n   == SQFS_ON_DISK_BLOCK_SIZE(size)
      raw == SubSeq(image, off + 1, off + n)
  IN  CASE SQFS_IS_SPARSE_BLOCK(size) -> Zeros(max_size)
        [] ~SQFS_IS_SPARSE_BLOCK(size) /\ (n >= max_size \/ ~InImage(off, n)) -> None
        [] OTHER -> IF SQFS_IS_BLOCK_COMPRESSED(size) THEN uncompress(raw) ELSE raw

(* get_block: what is in the buffer afterwards, or None if it fails. *)
get_block(off, size, max_size) ==
  LET n   == SQFS_ON_DISK_BLOCK_SIZE(size)
      raw == SubSeq(image, off + 1, off + n)
  IN  CASE SQFS_IS_SPARSE_BLOCK(size) -> Zeros(max_size)
        [] ~SQFS_IS_SPARSE_BLOCK(size) /\ (n > max_size \/ ~InImage(off, n)) -> None
        [] OTHER ->
             IF ~SQFS_IS_BLOCK_COMPRESSED(size) THEN raw
             ELSE IF Len(uncompress(raw)) \in 1 .. max_size THEN uncompress(raw) ELSE None

(* The buffer of a cached block is as long as a block and starts as zeros;  *)
(* copying beyond the end of the data copies those.                         *)
Copy(buf, offset, n) ==
  SubSeq(buf \o Zeros(MaxBlockSize), offset + 1, offset + n)

(* Mutant: a failed read leaves the old block behind. *)
CacheOldBlock(location, size) ==
  IF data_block # None /\ current_block = location
  THEN UNCHANGED <<data_block, current_block>>
  ELSE /\ current_block' = location
       /\ data_block' \in {get_block(location, size, MaxBlockSize), data_block}

precache_data_block(location, size) ==
  IF data_block # None /\ current_block = location
  THEN UNCHANGED <<data_block, current_block>>
  ELSE /\ current_block' = location
       /\ \/ data_block' = get_block(location, size, MaxBlockSize)
          \/ "io" \in ReadFaults /\ data_block' = None

(* A failing lookup in the fragment table leaves the cache alone. *)
NoEntry(idx) == idx \notin 0 .. Len(frag_tbl) - 1

precache_fragment_block(idx) ==
  IF frag_block # None /\ idx = current_frag_index
  THEN UNCHANGED <<frag_block, current_frag_index>>
  ELSE /\ ~NoEntry(idx)
       /\ current_frag_index' = idx
       /\ \/ frag_block' = get_block(frag_tbl[idx + 1][1], frag_tbl[idx + 1][2], MaxBlockSize)
          \/ "io" \in ReadFaults /\ frag_block' = None

LookupFails(idx) == NoEntry(idx) /\ ~(frag_block # None /\ idx = current_frag_index)

(* load_fragment_table, given the table that is stored in the image. *)
load_fragment_table(table) ==
  /\ pc = "idle"
  /\ frag_block' = None
  /\ \/ frag_tbl' = table /\ current_frag_index' = Len(table) /\ ret' = "ok"
     \/ /\ "io" \in ReadFaults
        /\ frag_tbl' = <<>> /\ current_frag_index' = 0 /\ ret' = "error"
  /\ args' = NoArgs /\ buffer' = <<>>
  /\ UNCHANGED <<image, data_block, current_block, pc, rd>>

------------------------------------------------------------------------------
(* The single block interface. *)
Sum(n, Value(_)) == FoldLeft(LAMBDA acc, k : acc + Value(k), 0, [k \in 1 .. n |-> k])

(* The space that the first n blocks of the inode take in the image. *)
OnDisk(ino, n) == Sum(n, LAMBDA k : SQFS_ON_DISK_BLOCK_SIZE(ino.extra[k]))

Returns(a, buf) ==
  /\ args' = a
  /\ buffer' = IF buf = None THEN <<>> ELSE buf
  /\ ret' = IF buf = None THEN "error" ELSE "ok"

data_reader_get_block(ino, filesz, index) ==
  LET left == filesz - index * MaxBlockSize
      unpacked_size == IF left < MaxBlockSize THEN left ELSE MaxBlockSize
      a == [call |-> "block", inode |-> ino, filesz |-> filesz, offset |-> index, size |-> 0]
  IN  /\ pc = "idle"
      /\ \/ index >= Len(ino.extra) /\ Returns(a, None)
         \/ /\ index < Len(ino.extra)
            /\ Returns(a, get_block(ino.start + OnDisk(ino, index), ino.extra[index + 1],
                                    unpacked_size))
         \/ index < Len(ino.extra) /\ "io" \in ReadFaults /\ Returns(a, None)
      /\ UNCHANGED <<image, frag_tbl, cache, pc, rd>>

data_reader_get_fragment(ino, filesz) ==
  LET frag_sz == filesz % MaxBlockSize
      a == [call |-> "fragment", inode |-> ino, filesz |-> filesz, offset |-> 0, size |-> 0]
  IN  /\ pc = "idle"
      /\ \/ /\ Len(ino.extra) * MaxBlockSize >= filesz
            /\ Returns(a, <<>>)
            /\ UNCHANGED <<frag_block, current_frag_index>>
         \/ /\ Len(ino.extra) * MaxBlockSize < filesz /\ LookupFails(ino.frag[1])
            /\ Returns(a, None)
            /\ UNCHANGED <<frag_block, current_frag_index>>
         \/ /\ Len(ino.extra) * MaxBlockSize < filesz
            /\ precache_fragment_block(ino.frag[1])
            /\ \/ Returns(a, IF frag_block' = None \/ ino.frag[2] + frag_sz > MaxBlockSize
                             THEN None ELSE Copy(frag_block', ino.frag[2], frag_sz))
               \/ "alloc" \in ReadFaults /\ Returns(a, None)
      /\ UNCHANGED <<image, frag_tbl, data_block, current_block, pc, rd>>

------------------------------------------------------------------------------
(* sqfs_data_reader_read: clip the range to the file and find the first     *)
(* block ...                                                                *)
data_reader_read(ino, filesz, offset, size) ==
  LET clipped == IF filesz - offset < size THEN filesz - offset ELSE size
      skip == LET q == IF offset = 0 THEN 0 ELSE (offset - 1) \div MaxBlockSize
              IN  IF q < Len(ino.extra) THEN q ELSE Len(ino.extra)
      a == [call |-> "read", inode |-> ino, filesz |-> filesz, offset |-> offset, size |-> size]
  IN  /\ pc = "idle"
      /\ args' = a /\ buffer' = <<>>
      /\ \/ (offset >= filesz \/ clipped = 0) /\ ret' = "ok" /\ UNCHANGED <<pc, rd>>
         \/ /\ offset < filesz /\ clipped # 0
            /\ pc' = "read"
            /\ rd' = [i |-> skip, off |-> ino.start + OnDisk(ino, skip),
                      offset |-> offset - skip * MaxBlockSize, size |-> clipped]
            /\ UNCHANGED ret
      /\ UNCHANGED <<image, frag_tbl, cache>>

Fails == pc' = "idle" /\ ret' = "error" /\ UNCHANGED <<rd, buffer>>

(* ... copy from the data blocks ... *)
ReadBlock ==
  LET ino  == args.inode
      size == ino.extra[rd.i + 1]
      left == MaxBlockSize - rd.offset
      diff == IF rd.size < left THEN rd.size ELSE left
      Advance(data, n) ==
        /\ buffer' = buffer \o data
        /\ rd' = [i |-> rd.i + 1, off |-> rd.off + n, offset |-> 0, size |-> rd.size - diff]
        /\ UNCHANGED <<pc, ret>>
  IN  /\ pc = "read" /\ rd.i < Len(ino.extra) /\ rd.size > 0
      /\ \/ /\ SQFS_IS_SPARSE_BLOCK(size)
            /\ Advance(Zeros(diff), 0)
            /\ UNCHANGED cache
         \/ /\ ~SQFS_IS_SPARSE_BLOCK(size)
            /\ precache_data_block(rd.off, size)
            /\ IF data_block' = None THEN Fails
               ELSE Advance(Copy(data_block', rd.offset, diff), SQFS_ON_DISK_BLOCK_SIZE(size))
            /\ UNCHANGED <<frag_block, current_frag_index>>
      /\ UNCHANGED <<image, frag_tbl, args>>

(* ... and the rest from the fragment. *)
ReadTail ==
  LET ino == args.inode
      at  == ino.frag[2] + rd.offset
  IN  /\ pc = "read" /\ rd.i >= Len(ino.extra) /\ rd.size > 0
      /\ \/ /\ LookupFails(ino.frag[1]) /\ Fails
            /\ UNCHANGED <<frag_block, current_frag_index>>
         \/ /\ precache_fragment_block(ino.frag[1])
            /\ IF frag_block' = None THEN Fails
               ELSE IF at + rd.size > Len(frag_block') THEN Fails
               ELSE /\ buffer' = buffer \o Copy(frag_block', at, rd.size)
                    /\ pc' = "idle" /\ ret' = "ok" /\ UNCHANGED rd
      /\ UNCHANGED <<image, frag_tbl, data_block, current_block, args>>

ReadReturns ==
  /\ pc = "read" /\ rd.size = 0
  /\ pc' = "idle" /\ ret' = "ok"
  /\ UNCHANGED <<image, frag_tbl, cache, args, rd, buffer>>
=============================================================================
