---------------------------- MODULE IoFile_proofs ----------------------------
(***************************************************************************)
(* For any contents, buffers, offsets and number of calls, and any way the *)
(* system divides the transfers: the size that is kept beside the file is  *)
(* the end of the file, and a call that succeeds has transferred all of    *)
(* its range.                                                              *)
(***************************************************************************)
EXTENDS IoFile, SequenceTheorems, TLAPS

Ops == {"none", "read", "write", "truncate"}
Calls == [op : Ops, offset : Nat, buffer : Seq(Nat), size : Nat, from : Nat, len : Nat, data : Seq(Nat)]

LargerOf(a, b) == IF a > b THEN a ELSE b

TypeInv == disk \in Seq(Nat) /\ size \in Nat /\ call \in Calls

(* A write of data at offset from has got to offset o, with b left: what    *)
(* was taken from the buffer is in the file f, and the rest is still in the *)
(* buffer.                                                                  *)
Written(f, from, o, b, data) ==
  /\ from <= o /\ o + Len(b) = from + Len(data)
  /\ \A i \in 1 .. Len(b) : b[i] = data[o - from + i]
  /\ o > from => o <= Len(f)
  /\ \A i \in 1 .. o - from : f[from + i] = data[i]

(* The file ended at n when the write began: now it ends there, or where    *)
(* the write has got to.                                                    *)
Extends(f, n, from, o) == Len(f) = IF o > from THEN LargerOf(n, o) ELSE n

(* A read from offset from has got to offset o: the buffer b holds what the *)
(* file does.                                                               *)
Fetched(f, from, o, b) ==
  /\ from <= o /\ Len(b) = o - from
  /\ o > from => o <= Len(f)
  /\ \A i \in 1 .. o - from : b[i] = f[from + i]

WriteInv ==
  call.op = "write" =>
    /\ Written(disk, call.from, call.offset, call.buffer, call.data)
    /\ call.len = Len(call.data) /\ call.len > 0 /\ call.size = Len(call.buffer)
    /\ ~failed => Extends(disk, size, call.from, call.offset)

ReadInv ==
  call.op = "read" =>
    /\ Fetched(disk, call.from, call.offset, call.buffer)
    /\ call.data = <<>> /\ call.len > 0 /\ call.offset + call.size = call.from + call.len

(* The file f holds the n bytes t at offset o. *)
Holds(f, o, n, t) ==
  /\ o + n <= Len(f) /\ Len(t) = n
  /\ \A i \in 1 .. n : f[o + i] = t[i]

TruncateInv ==
  call.op = "truncate" =>
    call.from = call.offset /\ call.len = 0 /\ call.data = <<>> /\ call.buffer = <<>>

(* After a call. *)
DoneInv ==
  /\ call.op # "none" => ret = "none"
  /\ ret = "ok" =>
       Holds(disk, call.from, call.len, IF call.data # <<>> THEN call.data ELSE call.buffer)

SizeInv ==
  /\ size <= Len(disk)
  /\ call.op # "write" /\ ~failed => size = Len(disk)

(* No call is made of a file that is not open. *)
OpenInv == ~open => call.op = "none" /\ ret = "none"

IInv == TypeInv /\ OpenInv /\ WriteInv /\ ReadInv /\ TruncateInv /\ DoneInv /\ SizeInv

------------------------------------------------------------------------------

(* A function on 1 .. n is a sequence of length n. *)
LEMMA FunctionIsSeq ==
  ASSUME NEW n \in Nat, NEW s \in [1 .. n -> Nat]
  PROVE  s \in Seq(Nat) /\ Len(s) = n
OBVIOUS

(* Put, which stands for pwrite, gives a file that ends at the end of what  *)
(* was written or where it ended, holds the bytes and leaves the others.    *)
LEMMA PutWrites ==
  ASSUME NEW f \in Seq(Nat), NEW o \in Nat, NEW b \in Seq(Nat)
  PROVE  /\ Put(f, o, b) \in Seq(Nat)
         /\ Len(Put(f, o, b)) = LargerOf(o + Len(b), Len(f))
         /\ \A i \in 1 .. Len(b) : Put(f, o, b)[o + i] = b[i]
         /\ \A i \in 1 .. Len(f) : i <= o => Put(f, o, b)[i] = f[i]
<1> DEFINE n == IF o + Len(b) > Len(f) THEN o + Len(b) ELSE Len(f)
           v(i) == IF i > o /\ i <= o + Len(b) THEN b[i - o] ELSE IF i <= Len(f) THEN f[i] ELSE 0
<1>1. n \in Nat /\ n = LargerOf(o + Len(b), Len(f))
  BY DEF LargerOf
<1>2. \A i \in 1 .. n : v(i) \in Nat
  OBVIOUS
<1>3. Put(f, o, b) = [i \in 1 .. n |-> v(i)]
  BY DEF Put
<1> HIDE DEF n
<1>4. Put(f, o, b) \in Seq(Nat) /\ Len(Put(f, o, b)) = n
  <2>1. Put(f, o, b) \in [1 .. n -> Nat]
    BY <1>2, <1>3
  <2> QED BY <1>1, <2>1, FunctionIsSeq
<1>5. \A i \in 1 .. n : Put(f, o, b)[i] = v(i)
  BY <1>3
<1>6. \A i \in 1 .. Len(b) : o + i \in 1 .. n /\ v(o + i) = b[i]
  BY DEF n
<1>7. \A i \in 1 .. Len(f) : i \in 1 .. n /\ (i <= o => v(i) = f[i])
  BY DEF n
<1> QED BY <1>1, <1>4, <1>5, <1>6, <1>7

(* The n elements of a sequence after the first m. *)
LEMMA Slice ==
  ASSUME NEW s \in Seq(Nat), NEW m \in Nat, NEW n \in Nat, m + n <= Len(s)
  PROVE  /\ SubSeq(s, m + 1, m + n) \in Seq(Nat)
         /\ Len(SubSeq(s, m + 1, m + n)) = n
         /\ \A i \in 1 .. n : SubSeq(s, m + 1, m + n)[i] = s[m + i]
<1> DEFINE a == m + 1
           z == m + n
<1>1. a \in Int /\ z \in Int /\ \A i \in a .. z : s[i] \in Nat
  OBVIOUS
<1>2. z - a + 1 = n /\ (a <= z <=> n > 0) /\ \A i \in 1 .. n : a + i - 1 = m + i
  OBVIOUS
<1> HIDE DEF a, z
<1>3. /\ SubSeq(s, a, z) \in Seq(Nat)
      /\ Len(SubSeq(s, a, z)) = IF a <= z THEN z - a + 1 ELSE 0
      /\ \A i \in 1 .. z - a + 1 : SubSeq(s, a, z)[i] = s[a + i - 1]
  BY <1>1, SubSeqProperties
<1>4. Len(SubSeq(s, a, z)) = n /\ \A i \in 1 .. n : SubSeq(s, a, z)[i] = s[m + i]
  BY <1>2, <1>3
<1> QED BY <1>3, <1>4 DEF a, z

(* The outcome of one pwrite of n bytes. *)
WritesOn(f, from, o, b, data, n) ==
  LET g == Put(f, o, SubSeq(b, 1, n))
      c == SubSeq(b, n + 1, Len(b))
  IN  /\ g \in Seq(Nat) /\ Len(g) = LargerOf(o + n, Len(f))
      /\ c \in Seq(Nat) /\ Len(c) = Len(b) - n
      /\ Written(g, from, o + n, c, data)

(* One pwrite of a call that writes data from offset from, has got to       *)
(* offset o and has b left, takes n bytes.                                  *)
LEMMA WriteStep ==
  ASSUME NEW f \in Seq(Nat), NEW from \in Nat, NEW o \in Nat, NEW b \in Seq(Nat),
         NEW data \in Seq(Nat), NEW n \in Nat, n <= Len(b), n > 0,
         Written(f, from, o, b, data)
  PROVE  WritesOn(f, from, o, b, data, n)
<1> DEFINE g == Put(f, o, SubSeq(b, 1, n))
           c == SubSeq(b, n + 1, Len(b))
<1>0. /\ from <= o /\ o + Len(b) = from + Len(data)
      /\ \A i \in 1 .. Len(b) : b[i] = data[o - from + i]
      /\ o > from => o <= Len(f)
      /\ \A i \in 1 .. o - from : f[from + i] = data[i]
  BY DEF Written
<1> DEFINE t == SubSeq(b, 1, n)
<1>1. t \in Seq(Nat) /\ Len(t) = n /\ \A i \in 1 .. n : t[i] = b[i]
  BY Slice, 0 \in Nat, 0 + n = n, 0 + 1 = 1, \A i \in 1 .. n : 0 + i = i
<1>2. c \in Seq(Nat) /\ Len(c) = Len(b) - n /\ \A i \in 1 .. Len(b) - n : c[i] = b[n + i]
  <2> DEFINE r == Len(b) - n
  <2>1. r \in Nat /\ n + r = Len(b) /\ n + r <= Len(b)
    OBVIOUS
  <2> HIDE DEF r
  <2>2. /\ SubSeq(b, n + 1, n + r) \in Seq(Nat) /\ Len(SubSeq(b, n + 1, n + r)) = r
        /\ \A i \in 1 .. r : SubSeq(b, n + 1, n + r)[i] = b[n + i]
    BY <2>1, Slice
  <2>3. c = SubSeq(b, n + 1, n + r)
    BY <2>1
  <2> HIDE DEF c
  <2> QED BY <2>2, <2>3 DEF r
<1> HIDE DEF t, c
<1>3. /\ g \in Seq(Nat) /\ Len(g) = LargerOf(o + n, Len(f))
      /\ \A i \in 1 .. n : g[o + i] = t[i]
      /\ \A i \in 1 .. Len(f) : i <= o => g[i] = f[i]
  <2>1. g = Put(f, o, t)
    BY DEF t
  <2>2. /\ Put(f, o, t) \in Seq(Nat) /\ Len(Put(f, o, t)) = LargerOf(o + Len(t), Len(f))
        /\ \A i \in 1 .. Len(t) : Put(f, o, t)[o + i] = t[i]
        /\ \A i \in 1 .. Len(f) : i <= o => Put(f, o, t)[i] = f[i]
    BY <1>1, PutWrites
  <2> HIDE DEF g
  <2> QED BY <1>1, <2>1, <2>2
<1> HIDE DEF g
<1>4. ASSUME NEW i \in 1 .. Len(b) - n
      PROVE  c[i] = data[(o + n) - from + i]
  <2>1. n + i \in 1 .. Len(b) /\ o - from + (n + i) = (o + n) - from + i
    OBVIOUS
  <2> QED BY <1>0, <1>2, <2>1
<1>5. ASSUME NEW i \in 1 .. (o + n) - from
      PROVE  g[from + i] = data[i]
  <2>1. CASE i <= o - from
    <3>1. i \in 1 .. o - from /\ from + i \in 1 .. Len(f) /\ from + i <= o
      BY <1>0, <2>1
    <3> QED BY <1>0, <1>3, <3>1
  <2>2. CASE i > o - from
    <3> DEFINE k == i - (o - from)
    <3>1. k \in 1 .. n /\ from + i = o + k /\ (o - from) + k = i /\ k \in 1 .. Len(b)
      BY <1>0, <2>2
    <3> HIDE DEF k
    <3>2. g[o + k] = b[k] /\ b[k] = data[o - from + k]
      BY <1>0, <1>1, <1>3, <3>1
    <3> QED BY <3>1, <3>2
  <2> QED BY <2>1, <2>2
<1>6. from <= o + n /\ (o + n) + Len(c) = from + Len(data) /\ o + n <= Len(g)
  <2>1. from <= o /\ o + Len(b) = from + Len(data) /\ Len(c) = Len(b) - n
    BY <1>0, <1>2
  <2>2. o + n <= LargerOf(o + n, Len(f))
    BY DEF LargerOf
  <2>3. Len(b) \in Nat /\ Len(data) \in Nat
    OBVIOUS
  <2>4. ASSUME NEW x \in Nat, NEW y \in Nat, o + x = from + y, from <= o
        PROVE  from <= o + n /\ (o + n) + (x - n) = from + y
    BY <2>4
  <2>5. from <= o + n /\ (o + n) + Len(c) = from + Len(data)
    BY <2>1, <2>3, <2>4
  <2> QED BY <1>3, <2>2, <2>5
<1>7. Written(g, from, o + n, c, data)
  BY <1>2, <1>4, <1>5, <1>6 DEF Written
<1> QED BY <1>2, <1>3, <1>7 DEF g, c, WritesOn

(* One pread of a call that reads from offset from, has got to offset o and *)
(* has b so far, gives n bytes.                                             *)
LEMMA ReadStep ==
  ASSUME NEW f \in Seq(Nat), NEW from \in Nat, NEW o \in Nat, NEW b \in Seq(Nat),
         NEW n \in Nat, o + n <= Len(f), Fetched(f, from, o, b)
  PROVE  /\ b \o SubSeq(f, o + 1, o + n) \in Seq(Nat)
         /\ Fetched(f, from, o + n, b \o SubSeq(f, o + 1, o + n))
<1>0. from <= o /\ Len(b) = o - from /\ \A i \in 1 .. o - from : b[i] = f[from + i]
  BY DEF Fetched
<1> DEFINE t == SubSeq(f, o + 1, o + n)
           c == b \o t
<1>1. t \in Seq(Nat) /\ Len(t) = n /\ \A i \in 1 .. n : t[i] = f[o + i]
  BY Slice
<1> HIDE DEF t
<1>2. /\ c \in Seq(Nat) /\ Len(c) = Len(b) + Len(t)
      /\ \A i \in 1 .. Len(b) + Len(t) : c[i] = IF i <= Len(b) THEN b[i] ELSE t[i - Len(b)]
  BY <1>1, ConcatProperties
<1> HIDE DEF c
<1>3. Len(b) + Len(t) = (o + n) - from
  BY <1>0, <1>1
<1>4. ASSUME NEW i \in 1 .. (o + n) - from
      PROVE  c[i] = f[from + i]
  <2>1. c[i] = IF i <= Len(b) THEN b[i] ELSE t[i - Len(b)]
    BY <1>2, <1>3
  <2>2. CASE i <= Len(b)
    <3>1. i \in 1 .. o - from
      BY <1>0, <2>2
    <3> QED BY <1>0, <2>1, <2>2, <3>1
  <2>3. CASE ~(i <= Len(b))
    <3>1. i - Len(b) \in 1 .. n /\ o + (i - Len(b)) = from + i
      BY <1>0, <2>3
    <3> QED BY <1>1, <2>1, <2>3, <3>1
  <2> QED BY <2>2, <2>3
<1>5. from <= o + n /\ Len(c) = (o + n) - from
  BY <1>0, <1>2, <1>3
<1>6. Fetched(f, from, o + n, c)
  BY <1>4, <1>5 DEF Fetched
<1> QED BY <1>2, <1>6 DEF c, t

(* A new file satisfies the invariant. *)
LEMMA InitIInv == Init => IInv
<1> SUFFICES ASSUME Init PROVE IInv
  OBVIOUS
<1>1. call = [op |-> "none", offset |-> 0, buffer |-> <<>>, size |-> 0, from |-> 0, len |-> 0,
              data |-> <<>>]
  BY DEF Init, Idle, Call
<1>2. TypeInv
  <2>1. call \in Calls
    BY <1>1 DEF Calls, Ops
  <2>2. disk \in Seq(Nat) /\ size \in Nat
    BY DEF Init
  <2> QED BY <2>1, <2>2 DEF TypeInv
<1>3. WriteInv /\ ReadInv /\ TruncateInv /\ DoneInv
  BY <1>1 DEF Init, WriteInv, ReadInv, TruncateInv, DoneInv
<1>4. SizeInv /\ OpenInv
  BY <1>1 DEF Init, SizeInv, OpenInv
<1> QED BY <1>2, <1>3, <1>4 DEF IInv

(* sqfs_open_file keeps the invariant: the size is asked of the system. *)
LEMMA OpenKeeps == IInv /\ sqfs_open_file => IInv'
<1> SUFFICES ASSUME IInv, sqfs_open_file PROVE IInv'
  OBVIOUS
<1>0. call.op = "none" /\ ret = "none"
  BY DEF IInv, OpenInv, sqfs_open_file
<1>1. disk' \in Seq(Nat) /\ size' = Len(disk')
  BY IoFileAssumption DEF sqfs_open_file
<1>2. UNCHANGED <<call, ret, failed>> /\ OpenInv'
  BY DEF sqfs_open_file, OpenInv
<1>3. TypeInv'
  BY <1>1, <1>2 DEF IInv, TypeInv
<1>4. WriteInv' /\ ReadInv' /\ TruncateInv' /\ DoneInv' /\ SizeInv'
  BY <1>0, <1>1, <1>2, SMTT(40) DEF WriteInv, ReadInv, TruncateInv, DoneInv, SizeInv
<1> QED BY <1>2, <1>3, <1>4 DEF IInv

(* A call of any kind begins: nothing has been transferred. *)
LEMMA BeginKeeps == IInv /\ Begin => IInv'
<1> SUFFICES ASSUME IInv, Begin PROVE IInv'
  OBVIOUS
<1>1. call.op = "none" /\ ret' = "none" /\ UNCHANGED <<disk, size, failed>> /\ OpenInv'
  BY DEF Begin, Start, OpenInv
<1>2. TypeInv /\ size <= Len(disk) /\ (~failed => size = Len(disk))
  BY <1>1 DEF IInv, SizeInv
<1>3. ASSUME NEW offset \in Nat, NEW b \in Seq(Nat) \ {<<>>},
             call' = Call("write", offset, b, Len(b))
      PROVE  IInv'
  <2>1. /\ call'.op = "write" /\ call'.offset = offset /\ call'.from = offset
        /\ call'.buffer = b /\ call'.data = b /\ call'.size = Len(b) /\ call'.len = Len(b)
    BY <1>3 DEF Call
  <2>2. Len(b) \in Nat /\ Len(b) > 0
    OBVIOUS
  <2>3. call' \in Calls
    BY <1>3, <2>2 DEF Call, Calls, Ops
  <2>4. TypeInv'
    BY <1>1, <1>2, <2>3 DEF TypeInv
  <2>5. WriteInv'
    <3>1. Written(disk, offset, offset, b, b) /\ (~failed => Extends(disk, size, offset, offset))
      BY <1>2 DEF Written, Extends
    <3> QED BY <1>1, <2>1, <2>2, <3>1 DEF WriteInv
  <2>6. ReadInv' /\ TruncateInv' /\ DoneInv' /\ SizeInv'
    BY <1>1, <1>2, <2>1 DEF ReadInv, TruncateInv, DoneInv, SizeInv
  <2> QED BY <1>1, <2>4, <2>5, <2>6 DEF IInv
<1>4. ASSUME NEW offset \in Nat, NEW n \in Nat \ {0}, call' = Call("read", offset, <<>>, n)
      PROVE  IInv'
  <2>1. /\ call'.op = "read" /\ call'.offset = offset /\ call'.from = offset
        /\ call'.buffer = <<>> /\ call'.data = <<>> /\ call'.size = n /\ call'.len = n
    BY <1>4 DEF Call
  <2>2. call' \in Calls
    BY <1>4 DEF Call, Calls, Ops
  <2>3. TypeInv'
    BY <1>1, <1>2, <2>2 DEF TypeInv
  <2>4. ReadInv'
    <3>1. Fetched(disk, offset, offset, <<>>)
      BY DEF Fetched
    <3> QED BY <1>1, <2>1, <3>1 DEF ReadInv
  <2>5. WriteInv' /\ TruncateInv' /\ DoneInv' /\ SizeInv'
    BY <1>1, <1>2, <2>1 DEF WriteInv, TruncateInv, DoneInv, SizeInv
  <2> QED BY <1>1, <2>3, <2>4, <2>5 DEF IInv
<1>5. ASSUME NEW n \in Nat, call' = Call("truncate", n, <<>>, 0)
      PROVE  IInv'
  <2>1. /\ call'.op = "truncate" /\ call'.offset = n /\ call'.from = n
        /\ call'.buffer = <<>> /\ call'.data = <<>> /\ call'.size = 0 /\ call'.len = 0
    BY <1>5 DEF Call
  <2>2. call' \in Calls
    BY <1>5 DEF Call, Calls, Ops
  <2>3. TypeInv'
    BY <1>1, <1>2, <2>2 DEF TypeInv
  <2>4. WriteInv' /\ ReadInv' /\ TruncateInv' /\ DoneInv' /\ SizeInv'
    BY <1>1, <1>2, <2>1 DEF WriteInv, ReadInv, TruncateInv, DoneInv, SizeInv
  <2> QED BY <1>1, <2>3, <2>4 DEF IInv
<1> QED BY <1>3, <1>4, <1>5, IoFileAssumption DEF Begin, Start

(* A part of a write: pwrite takes n bytes. *)
LEMMA WriteSomeKeeps == IInv /\ WriteSome => IInv'
<1> SUFFICES ASSUME IInv, WriteSome PROVE IInv'
  OBVIOUS
<1>1. PICK n \in 1 .. call.size :
        /\ disk' = Put(disk, call.offset, SubSeq(call.buffer, 1, n))
        /\ call' = Advance(call, n)
  BY DEF WriteSome
<1>2. call.op = "write" /\ ret = "none" /\ UNCHANGED <<size, ret, failed, open>>
  BY DEF WriteSome, DoneInv, IInv
<1> DEFINE o == call.offset
           from == call.from
           b == call.buffer
           data == call.data
           left == call.size
           len == call.len
<1>3. /\ call \in Calls /\ disk \in Seq(Nat) /\ size \in Nat
      /\ o \in Nat /\ left \in Nat /\ from \in Nat /\ len \in Nat
      /\ b \in Seq(Nat) /\ data \in Seq(Nat)
  BY DEF TypeInv, Calls, IInv
<1>4. /\ Written(disk, from, o, b, data) /\ len = Len(data) /\ len > 0 /\ left = Len(b)
      /\ ~failed => Extends(disk, size, from, o)
  BY <1>2 DEF IInv, WriteInv
<1>5. size <= Len(disk)
  BY DEF IInv, SizeInv
<1> DEFINE rest == SubSeq(b, n + 1, Len(b))
<1>6. /\ call'.op = "write" /\ call'.offset = o + n /\ call'.size = left - n
      /\ call'.from = from /\ call'.len = len /\ call'.data = data
      /\ call'.buffer = rest
      /\ call' = [call EXCEPT !.buffer = rest, !.size = left - n, !.offset = o + n]
  BY <1>1, <1>2, <1>3 DEF Advance, Calls
<1>7. disk' = Put(disk, o, SubSeq(b, 1, n))
  BY <1>1
<1> HIDE DEF o, from, b, data, left, len
<1>8. n \in Nat /\ n > 0 /\ n <= Len(b) /\ n <= left
  BY <1>1, <1>3, <1>4 DEF left
<1>9. from <= o /\ (o > from => o <= Len(disk))
  BY <1>4 DEF Written
<1>10. /\ disk' \in Seq(Nat) /\ Len(disk') = LargerOf(o + n, Len(disk))
       /\ rest \in Seq(Nat) /\ Len(rest) = Len(b) - n
       /\ Written(disk', from, o + n, rest, data)
  <2>1. WritesOn(disk, from, o, b, data, n)
    BY <1>3, <1>4, <1>8, WriteStep
  <2> QED BY <1>7, <2>1, Zenon DEF WritesOn
<1> HIDE DEF rest
<1>11. TypeInv'
  <2>1. left - n \in Nat /\ o + n \in Nat
    BY <1>3, <1>8
  <2>2. call' \in Calls
    BY <1>3, <1>6, <1>10, <2>1 DEF Calls
  <2> QED BY <1>2, <1>3, <1>10, <2>2 DEF TypeInv
<1>12. WriteInv'
  <2>1. ~failed => Extends(disk', size, from, o + n)
    <3>1. ASSUME ~failed PROVE Len(disk) = IF o > from THEN LargerOf(size, o) ELSE size
      BY <1>4, <3>1 DEF Extends
    <3>2. ASSUME ~failed PROVE Len(disk') = LargerOf(size, o + n)
      <4>1. Len(disk') = LargerOf(o + n, Len(disk))
        BY <1>10
      <4>2. Len(disk) = IF o > from THEN LargerOf(size, o) ELSE size
        BY <3>1, <3>2
      <4> QED BY <1>3, <1>8, <1>9, <4>1, <4>2 DEF LargerOf
    <3>3. o + n > from
      BY <1>3, <1>8, <1>9
    <3> QED BY <3>2, <3>3 DEF Extends
  <2>2. Len(rest) = left - n
    BY <1>4, <1>10
  <2> QED BY <1>2, <1>4, <1>6, <1>10, <2>1, <2>2 DEF WriteInv
<1>13. OpenInv' /\ ReadInv' /\ TruncateInv' /\ DoneInv'
  BY <1>2, <1>6 DEF IInv, OpenInv, ReadInv, TruncateInv, DoneInv
<1>14. SizeInv'
  BY <1>2, <1>3, <1>5, <1>6, <1>8, <1>10 DEF SizeInv, LargerOf
<1> QED BY <1>11, <1>12, <1>13, <1>14 DEF IInv

(* The end of a call leaves the arguments it was made with. *)
LEMMA ReturnEnds ==
  ASSUME NEW r, call \in Calls, Return(r)
  PROVE  /\ call' \in Calls /\ ret' = r /\ open' = open
         /\ call'.op = "none" /\ call'.from = call.from /\ call'.len = call.len
         /\ call'.data = call.data /\ call'.buffer = call.buffer
BY DEF Return, Calls, Ops

(* A call that fails changes neither the file nor its size. *)
LEMMA FailKeeps ==
  ASSUME NEW r \in {"io", "out_of_bounds"}, IInv, Return(r), call.op # "none",
         UNCHANGED <<disk, size>>, (~failed') => call.op # "write" /\ ~failed
  PROVE  IInv'
<1>1. /\ call' \in Calls /\ ret' = r /\ call'.op = "none" /\ open' = open
  BY ReturnEnds DEF IInv, TypeInv
<1>2. TypeInv'
  BY <1>1 DEF IInv, TypeInv
<1>3. OpenInv'
  BY <1>1 DEF IInv, OpenInv
<1>4. WriteInv' /\ ReadInv' /\ TruncateInv' /\ DoneInv'
  BY <1>1 DEF WriteInv, ReadInv, TruncateInv, DoneInv
<1>5. SizeInv'
  BY <1>1 DEF IInv, SizeInv
<1> QED BY <1>2, <1>3, <1>4, <1>5 DEF IInv

(* The end of a write: the size becomes the end of the write if that is     *)
(* beyond it.                                                               *)
LEMMA WriteDoneKeeps == IInv /\ WriteDone => IInv'
<1> SUFFICES ASSUME IInv, WriteDone PROVE IInv'
  OBVIOUS
<1>1. /\ call.op = "write" /\ call.size = 0 /\ size' = SizeAfter(call.offset)
      /\ Return("ok") /\ UNCHANGED <<disk, failed>>
  BY DEF WriteDone
<1>2. call \in Calls /\ disk \in Seq(Nat) /\ size \in Nat
  BY DEF IInv, TypeInv
<1> DEFINE o == call.offset
           from == call.from
           data == call.data
           len == call.len
<1>3. /\ call' \in Calls /\ ret' = "ok" /\ open' = open
      /\ call'.op = "none" /\ call'.from = from /\ call'.len = len /\ call'.data = data
  BY <1>1, <1>2, ReturnEnds
<1>4. o \in Nat /\ from \in Nat /\ len \in Nat /\ data \in Seq(Nat) /\ call.buffer \in Seq(Nat)
  BY <1>2 DEF Calls
<1>5. /\ Written(disk, from, o, call.buffer, data) /\ len = Len(data) /\ len > 0
      /\ Len(call.buffer) = 0 /\ (~failed => Extends(disk, size, from, o)) /\ size <= Len(disk)
  BY <1>1 DEF IInv, WriteInv, SizeInv
<1>6. size' = IF o >= size THEN o ELSE size
  BY <1>1 DEF SizeAfter
<1> HIDE DEF o, from, data, len
<1>7. /\ from <= o /\ o = from + len /\ o <= Len(disk)
      /\ \A i \in 1 .. len : disk[from + i] = data[i]
  BY <1>4, <1>5 DEF Written
<1>8. Holds(disk, from, len, data) /\ data # <<>>
  BY <1>4, <1>5, <1>7 DEF Holds
<1>9. size' \in Nat /\ size' <= Len(disk) /\ (~failed => size' = Len(disk))
  <2>1. o > from
    BY <1>4, <1>5, <1>7
  <2>2. ~failed => Len(disk) = LargerOf(size, o)
    BY <1>5, <2>1 DEF Extends
  <2>3. size <= Len(disk) /\ o <= Len(disk)
    BY <1>5, <1>7
  <2> QED BY <1>2, <1>4, <1>6, <2>2, <2>3 DEF LargerOf
<1>10. TypeInv'
  BY <1>1, <1>2, <1>3, <1>9 DEF TypeInv
<1>11. OpenInv'
  BY <1>1, <1>3 DEF IInv, OpenInv
<1>12. WriteInv' /\ ReadInv' /\ TruncateInv'
  BY <1>3 DEF WriteInv, ReadInv, TruncateInv
<1>13. DoneInv'
  BY <1>1, <1>3, <1>8 DEF DoneInv
<1>14. SizeInv'
  BY <1>1, <1>9 DEF SizeInv
<1> QED BY <1>10, <1>11, <1>12, <1>13, <1>14 DEF IInv

(* A part of a read. *)
LEMMA ReadSomeKeeps == IInv /\ ReadSome => IInv'
<1> SUFFICES ASSUME IInv, ReadSome PROVE IInv'
  OBVIOUS
<1>1. call.op = "read" /\ UNCHANGED <<disk, size, open, ret, failed>>
  BY DEF ReadSome
<1>2. call \in Calls /\ disk \in Seq(Nat)
  BY DEF IInv, TypeInv
<1> DEFINE o == call.offset
           from == call.from
           b == call.buffer
           left == call.size
           len == call.len
<1>3. PICK n \in 1 .. left :
        /\ o + n <= Size
        /\ call' = [Advance(call, n) EXCEPT !.buffer = b \o SubSeq(disk, o + 1, o + n)]
  BY DEF ReadSome
<1>4. o \in Nat /\ from \in Nat /\ left \in Nat /\ len \in Nat /\ b \in Seq(Nat)
  BY <1>2 DEF Calls
<1>5. /\ Fetched(disk, from, o, b) /\ call.data = <<>> /\ len > 0
      /\ o + left = from + len
  BY <1>1 DEF IInv, ReadInv
<1> DEFINE c == b \o SubSeq(disk, o + 1, o + n)
<1>6. call' = [call EXCEPT !.buffer = c, !.size = left - n, !.offset = o + n]
  BY <1>1, <1>2, <1>3 DEF Advance, Calls
<1> HIDE DEF c
<1>7. /\ call'.op = "read" /\ call'.offset = o + n /\ call'.size = left - n /\ call'.buffer = c
      /\ call'.from = from /\ call'.len = len /\ call'.data = call.data
  BY <1>1, <1>2, <1>6 DEF Calls
<1> HIDE DEF o, from, b, left, len
<1>8. n \in Nat /\ o + n <= Len(disk) /\ left - n \in Nat /\ o + n \in Nat
      /\ (o + n) + (left - n) = from + len
  BY <1>3, <1>4, <1>5 DEF Size
<1>9. c \in Seq(Nat) /\ Fetched(disk, from, o + n, c)
  BY <1>2, <1>4, <1>5, <1>8, ReadStep DEF c
<1>10. TypeInv'
  <2>1. call' \in Calls
    BY <1>2, <1>6, <1>8, <1>9 DEF Calls
  <2> QED BY <1>1, <2>1 DEF IInv, TypeInv
<1>11. OpenInv' /\ WriteInv' /\ TruncateInv' /\ DoneInv' /\ SizeInv'
  BY <1>1, <1>7 DEF IInv, OpenInv, WriteInv, TruncateInv, DoneInv, SizeInv
<1>12. ReadInv'
  BY <1>1, <1>5, <1>7, <1>8, <1>9 DEF ReadInv
<1> QED BY <1>10, <1>11, <1>12 DEF IInv

(* The end of a read that has got all of its range. *)
LEMMA ReadDoneKeeps == IInv /\ ReadDone => IInv'
<1> SUFFICES ASSUME IInv, ReadDone PROVE IInv'
  OBVIOUS
<1>1. call.op = "read" /\ call.size = 0 /\ Return("ok") /\ UNCHANGED <<disk, size, failed>>
  BY DEF ReadDone
<1>2. call \in Calls /\ disk \in Seq(Nat)
  BY DEF IInv, TypeInv
<1>3. /\ call' \in Calls /\ ret' = "ok" /\ open' = open
      /\ call'.op = "none" /\ call'.from = call.from /\ call'.len = call.len
      /\ call'.data = call.data /\ call'.buffer = call.buffer
  BY <1>1, <1>2, ReturnEnds
<1>4. /\ Fetched(disk, call.from, call.offset, call.buffer) /\ call.data = <<>> /\ call.len > 0
      /\ call.offset = call.from + call.len
      /\ call.offset \in Nat /\ call.from \in Nat /\ call.len \in Nat
  BY <1>1, <1>2 DEF IInv, ReadInv, Calls
<1>5. Holds(disk, call.from, call.len, call.buffer)
  <2>1. call.offset - call.from = call.len /\ call.offset > call.from
    BY <1>4
  <2> QED BY <1>4, <2>1 DEF Fetched, Holds
<1>6. TypeInv' /\ SizeInv'
  BY <1>1, <1>3 DEF IInv, TypeInv, SizeInv
<1>7. OpenInv' /\ WriteInv' /\ ReadInv' /\ TruncateInv'
  BY <1>1, <1>3 DEF IInv, OpenInv, WriteInv, ReadInv, TruncateInv
<1>8. DoneInv'
  BY <1>1, <1>3, <1>4, <1>5 DEF DoneInv
<1> QED BY <1>6, <1>7, <1>8 DEF IInv

(* stdio_truncate: the file ends at the offset, and so does the size.       *)
LEMMA TruncateKeeps == IInv /\ stdio_truncate => IInv'
<1> SUFFICES ASSUME IInv, stdio_truncate PROVE IInv'
  OBVIOUS
<1>1. call.op = "truncate" /\ UNCHANGED failed
  BY DEF stdio_truncate
<1>2. CASE Return("io") /\ UNCHANGED <<disk, size>>
  BY <1>1, <1>2, FailKeeps
<1>3. CASE /\ disk' = IF call.offset <= Size THEN SubSeq(disk, 1, call.offset)
                      ELSE Put(disk, call.offset, <<>>)
           /\ size' = call.offset
           /\ Return("ok")
  <2>1. call \in Calls /\ disk \in Seq(Nat)
    BY DEF IInv, TypeInv
  <2>2. /\ call' \in Calls /\ ret' = "ok" /\ open' = open
        /\ call'.op = "none" /\ call'.from = call.from /\ call'.len = call.len
        /\ call'.data = call.data /\ call'.buffer = call.buffer
    BY <1>3, <2>1, ReturnEnds
  <2>3. /\ call.from = call.offset /\ call.len = 0 /\ call.data = <<>> /\ call.buffer = <<>>
        /\ call.offset \in Nat
    BY <1>1, <2>1 DEF IInv, TruncateInv, Calls
  <2> DEFINE o == call.offset
  <2> HIDE DEF o
  <2>4. disk' \in Seq(Nat) /\ Len(disk') = o
    <3>1. CASE o <= Len(disk)
      <4>1. SubSeq(disk, 0 + 1, 0 + o) \in Seq(Nat) /\ Len(SubSeq(disk, 0 + 1, 0 + o)) = o
        <5>1. 0 \in Nat /\ o \in Nat /\ 0 + o <= Len(disk)
          BY <2>3, <3>1 DEF o
        <5> QED BY <2>1, <5>1, Slice
      <4>2. disk' = SubSeq(disk, 0 + 1, 0 + o)
        BY <1>3, <2>3, <3>1 DEF o, Size
      <4> QED BY <4>1, <4>2
    <3>2. CASE ~(o <= Len(disk))
      <4>1. disk' = Put(disk, o, <<>>)
        BY <1>3, <3>2 DEF o, Size
      <4>2. /\ Put(disk, o, <<>>) \in Seq(Nat)
            /\ Len(Put(disk, o, <<>>)) = LargerOf(o + Len(<<>>), Len(disk))
        <5> DEFINE e == <<>>
        <5>1. e \in Seq(Nat) /\ o \in Nat
          BY <2>3 DEF o
        <5> HIDE DEF e
        <5>2. /\ Put(disk, o, e) \in Seq(Nat)
              /\ Len(Put(disk, o, e)) = LargerOf(o + Len(e), Len(disk))
          BY <2>1, <5>1, PutWrites
        <5> QED BY <5>2 DEF e
      <4>3. LargerOf(o + Len(<<>>), Len(disk)) = o
        BY <2>1, <2>3, <3>2 DEF o, LargerOf
      <4> QED BY <4>1, <4>2, <4>3
    <3> QED BY <3>1, <3>2
  <2>5. TypeInv' /\ SizeInv'
    BY <1>3, <2>2, <2>3, <2>4 DEF TypeInv, SizeInv, o
  <2>6. OpenInv' /\ WriteInv' /\ ReadInv' /\ TruncateInv'
    BY <1>1, <2>2 DEF IInv, OpenInv, WriteInv, ReadInv, TruncateInv
  <2>7. Holds(disk', o, 0, <<>>)
    BY <2>3, <2>4 DEF Holds, o
  <2>8. DoneInv'
    BY <2>2, <2>3, <2>7 DEF DoneInv, o
  <2> QED BY <2>5, <2>6, <2>8 DEF IInv
<1> QED BY <1>2, <1>3 DEF stdio_truncate

(* The invariant is inductive. *)
LEMMA NextKeeps == IInv /\ [Next]_vars => IInv'
<1> SUFFICES ASSUME IInv, [Next]_vars PROVE IInv'
  OBVIOUS
<1>1. CASE sqfs_open_file
  BY <1>1, OpenKeeps
<1>2. CASE Begin
  BY <1>2, BeginKeeps
<1>3. CASE WriteSome
  BY <1>3, WriteSomeKeeps
<1>4. CASE WriteDone
  BY <1>4, WriteDoneKeeps
<1>5. CASE ReadSome
  BY <1>5, ReadSomeKeeps
<1>6. CASE ReadEnd
  BY <1>6, FailKeeps DEF ReadEnd
<1>7. CASE ReadDone
  BY <1>7, ReadDoneKeeps
<1>8. CASE CallFails
  <2>1. PICK r \in {"io", "out_of_bounds"} : Return(r)
    BY <1>8 DEF CallFails
  <2>2. call.op # "none" /\ UNCHANGED <<disk, size>> /\ ((~failed') => call.op # "write" /\ ~failed)
    BY <1>8, Zenon DEF CallFails
  <2> QED BY <2>1, <2>2, FailKeeps
<1>9. CASE stdio_truncate
  BY <1>9, TruncateKeeps
<1>10. CASE UNCHANGED vars
  <2>1. UNCHANGED <<disk, size, open, call, ret, failed>>
    BY <1>10 DEF vars
  <2> QED BY <2>1 DEF IInv, TypeInv, OpenInv, WriteInv, ReadInv, TruncateInv, DoneInv, SizeInv
<1> QED BY <1>1, <1>2, <1>3, <1>4, <1>5, <1>6, <1>7, <1>8, <1>9, <1>10 DEF Next

(* What the invariant says of the range of a call that has succeeded.       *)
LEMMA HoldsWhole ==
  ASSUME NEW f \in Seq(Nat), NEW o \in Nat, NEW n \in Nat, NEW t \in Seq(Nat), Holds(f, o, n, t)
  PROVE  o + n <= Len(f) /\ SubSeq(f, o + 1, o + n) = t
<1>1. o + n <= Len(f) /\ Len(t) = n /\ \A i \in 1 .. n : f[o + i] = t[i]
  BY DEF Holds
<1> DEFINE u == SubSeq(f, o + 1, o + n)
<1>2. u \in Seq(Nat) /\ Len(u) = n /\ \A i \in 1 .. n : u[i] = f[o + i]
  BY <1>1, Slice
<1> HIDE DEF u
<1>3. u = t
  BY <1>1, <1>2, SeqEqual
<1> QED BY <1>1, <1>3 DEF u

(* The size that stdio_get_size gives, from which the writers take the      *)
(* place of everything they append, is the end of the file between two      *)
(* calls unless a write has failed half way, and is never beyond the end.   *)
THEOREM SizeCorrect == Spec => []SizeIsTheEnd
<1>1. IInv => SizeIsTheEnd
  BY DEF IInv, SizeInv, SizeIsTheEnd, Size
<1> QED BY <1>1, InitIInv, NextKeeps, PTL DEF Spec

(* stdio_read_at and stdio_write_at: a call that succeeds has transferred   *)
(* all of its range, however the system has divided it.                     *)
THEOREM TransferCorrect == Spec => []TransfersWhole
<1>1. IInv => TransfersWhole
  <2> SUFFICES ASSUME IInv, ret = "ok"
               PROVE  /\ call.from + call.len <= Size
                      /\ SubSeq(disk, call.from + 1, call.from + call.len) =
                            IF call.data # <<>> THEN call.data ELSE call.buffer
    BY DEF TransfersWhole
  <2> DEFINE t == IF call.data # <<>> THEN call.data ELSE call.buffer
  <2>1. disk \in Seq(Nat) /\ call.from \in Nat /\ call.len \in Nat /\ t \in Seq(Nat)
    BY DEF IInv, TypeInv, Calls
  <2>2. Holds(disk, call.from, call.len, t)
    BY DEF IInv, DoneInv
  <2> HIDE DEF t
  <2>3. /\ call.from + call.len <= Len(disk)
        /\ SubSeq(disk, call.from + 1, call.from + call.len) = t
    BY <2>1, <2>2, HoldsWhole
  <2> QED BY <2>3 DEF t, Size
<1> QED BY <1>1, InitIInv, NextKeeps, PTL DEF Spec
=============================================================================
