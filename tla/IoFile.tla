------------------------------- MODULE IoFile -------------------------------
(***************************************************************************)
(* The file every reader and writer of an image works on                   *)
(* (lib/sqfs/unix/io_file.c): reads and writes at an offset, made of as    *)
(* many system calls as it takes, each of which may transfer less than it  *)
(* was asked to, be interrupted or fail; and a size kept beside the file,  *)
(* from which the writers take the place of everything they append.        *)
(***************************************************************************)
EXTENDS Integers, Sequences

CONSTANTS
    Starts,     \* what the file may hold when it is opened
    Buffers,    \* what is written
    MaxOffset,  \* bound: offsets used
    MaxCalls    \* bound: calls made on the file

\* Nobody writes an empty buffer beyond the end of the file.
ASSUME IoFileAssumption ==
    /\ Starts \subseteq Seq(Nat)
    /\ Buffers \subseteq Seq(Nat) \ {<<>>}
    /\ MaxOffset \in Nat

VARIABLES
    disk,       \* the bytes of the file
    size,       \* file->size
    readonly,
    open,       \* sqfs_open_file has returned the file
    call,       \* the call in progress
    ret,        \* its result: "none" while it runs
    failed,     \* some write has failed
    calls

vars == <<disk, size, readonly, open, call, ret, failed, calls>>

Size == Len(disk)

\* The file with bytes at an offset; a gap before them reads as zeros.
Put(f, offset, bytes) ==
    [i \in 1 .. (IF offset + Len(bytes) > Len(f) THEN offset + Len(bytes)
                 ELSE Len(f)) |->
        IF i > offset /\ i <= offset + Len(bytes) THEN bytes[i - offset]
        ELSE IF i <= Len(f) THEN f[i] ELSE 0]

Call(op, offset, buffer, left) ==
    [op |-> op, offset |-> offset, buffer |-> buffer, size |-> left,
     from |-> offset, len |-> left, data |-> buffer]

Idle == Call("none", 0, <<>>, 0)

-----------------------------------------------------------------------------

\* sqfs_open_file: a file opened for writing must be new, unless it may be
\* overwritten, and is empty then.
sqfs_open_file ==
    /\ ~open
    /\ \E start \in Starts, ro \in BOOLEAN, overwrite \in BOOLEAN, there \in BOOLEAN :
          /\ ro => there
          /\ ~ro /\ there => overwrite
          /\ disk' = IF ro THEN start ELSE <<>>
          /\ size' = Len(disk')
          /\ readonly' = ro
    /\ open' = TRUE
    /\ UNCHANGED <<call, ret, failed, calls>>

Start(c) ==
    /\ open /\ call.op = "none" /\ calls < MaxCalls
    /\ call' = c /\ ret' = "none" /\ calls' = calls + 1
    /\ UNCHANGED <<disk, size, readonly, open, failed>>

Return(r) ==
    /\ ret' = r
    /\ call' = [call EXCEPT !.op = "none"]
    /\ UNCHANGED <<readonly, open, calls>>

Begin ==
    \/ \E offset \in 0 .. MaxOffset, b \in Buffers :
          Start(Call("write", offset, b, Len(b)))
    \/ \E offset \in 0 .. MaxOffset, n \in 1 .. MaxOffset :
          Start(Call("read", offset, <<>>, n))
    \/ \E n \in 0 .. MaxOffset : Start(Call("truncate", n, <<>>, 0))

\* A call that goes on at the offset it began with.
AdvanceBuffer(c, n) ==
    [c EXCEPT !.buffer = IF c.op = "write" THEN SubSeq(@, n + 1, Len(@)) ELSE @,
              !.size = @ - n]

\* pwrite takes n bytes: the buffer, the offset and the rest move on.
Advance(c, n) ==
    [c EXCEPT !.buffer = IF c.op = "write" THEN SubSeq(@, n + 1, Len(@)) ELSE @,
              !.size = @ - n, !.offset = @ + n]

WriteSome ==
    /\ call.op = "write" /\ call.size > 0 /\ ~readonly
    /\ \E n \in 1 .. call.size :
          /\ disk' = Put(disk, call.offset, SubSeq(call.buffer, 1, n))
          /\ call' = Advance(call, n)
    /\ UNCHANGED <<size, readonly, open, ret, failed, calls>>

\* The size becomes the end of every write.
EndIsSize(end) == end

SizeAfter(end) == IF end >= size THEN end ELSE size

WriteDone ==
    /\ call.op = "write" /\ call.size = 0
    /\ size' = SizeAfter(call.offset)
    /\ Return("ok")
    /\ UNCHANGED <<disk, failed>>

\* pread gives up to n bytes, none at the end of the file.
ReadSome ==
    /\ call.op = "read" /\ call.size > 0 /\ call.offset < Size
    /\ \E n \in 1 .. call.size :
          /\ call.offset + n <= Size
          /\ call' = [Advance(call, n) EXCEPT
                         !.buffer = call.buffer \o
                            SubSeq(disk, call.offset + 1, call.offset + n)]
    /\ UNCHANGED <<disk, size, readonly, open, ret, failed, calls>>

ReadEnd ==
    /\ call.op = "read" /\ call.size > 0 /\ call.offset >= Size
    /\ Return("out_of_bounds")
    /\ UNCHANGED <<disk, size, failed>>

ReadDone ==
    /\ call.op = "read" /\ call.size = 0
    /\ Return("ok")
    /\ UNCHANGED <<disk, size, failed>>

\* A system call that fails; one on a file that is open for reading always.
\* (One that is interrupted is made again, and nothing has changed.)
CallFails ==
    /\ call.op \in {"read", "write"} /\ call.size > 0
    /\ Return("io") \/ (call.op = "write" /\ Return("out_of_bounds"))
    /\ failed' = (failed \/ call.op = "write")
    /\ UNCHANGED <<disk, size>>

stdio_truncate ==
    /\ call.op = "truncate"
    /\ \/ /\ ~readonly
          /\ disk' = IF call.offset <= Size THEN SubSeq(disk, 1, call.offset)
                     ELSE Put(disk, call.offset, <<>>)
          /\ size' = call.offset
          /\ Return("ok")
       \/ Return("io") /\ UNCHANGED <<disk, size>>
    /\ UNCHANGED failed

Init == /\ disk = <<>> /\ size = 0 /\ readonly = FALSE /\ open = FALSE
        /\ call = Idle /\ ret = "none" /\ failed = FALSE /\ calls = 0

Next == \/ sqfs_open_file \/ Begin
        \/ WriteSome \/ WriteDone \/ ReadSome \/ ReadEnd \/ ReadDone
        \/ CallFails \/ stdio_truncate

Spec == Init /\ [][Next]_vars

-----------------------------------------------------------------------------

\* A call that succeeds has transferred all of its range, however the system
\* has divided it: what was written is in the file, what was read is what the
\* file holds.
TransfersWhole ==
    ret = "ok" =>
        /\ call.from + call.len <= Size
        /\ SubSeq(disk, call.from + 1, call.from + call.len) =
               IF call.data # <<>> THEN call.data ELSE call.buffer

\* The size that stdio_get_size gives, where the writers append next, is never
\* beyond the end of the file, and is the end unless a write has failed half
\* way; no write makes it smaller.
SizeIsTheEnd ==
    /\ size <= Size
    /\ call.op = "none" /\ ~failed => size = Size
=============================================================================
