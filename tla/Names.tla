-------------------------------- MODULE Names --------------------------------
(* Names are sequences of characters, and characters are numbers; 0 is the  *)
(* dot.  A path is the sequence of its components.                          *)
EXTENDS Integers, Sequences

(* F of a value that is worked out once and used in several places. *)
With(value, F(_)) == F(value)

Dot == <<0>>
DotDot == <<0, 0>>

(* strcmp *)
NameLess(a, b) ==
  \E n \in 0 .. Len(a) :
     /\ n < Len(b)
     /\ \A i \in 1 .. n : a[i] = b[i]
     /\ n = Len(a) \/ a[n + 1] < b[n + 1]

(* canonicalize_name, on the components of a path: empty ones and "." are  *)
(* left out, ".." is an error.                                              *)
canonicalize_name(path) ==
  IF \E i \in DOMAIN path : path[i] = DotDot THEN [ret |-> "EINVAL", path |-> path]
  ELSE [ret |-> "ok", path |-> SelectSeq(path, LAMBDA c : c \notin {<<>>, Dot})]
=============================================================================
