--------------------------- MODULE MCCompensation ---------------------------
(***************************************************************************)
(* Tables for TLC: with a primary key, with two nullable unique keys, and  *)
(* with a generated column.                                                *)
(***************************************************************************)
EXTENDS Compensation

CONSTANTS i1, i2, i3, a, b, empty

Keyed      == [id |-> {i1, i2, i3}, v |-> {a, b}]
ByPrimary  == << {"id"} >>
NoGenerated == [c \in {} |-> Null]
NoNulls    == [c \in {} |-> Null]

TwoKeys    == [m |-> {a, b}, n |-> {a, b}]
ByNullable == << {"m"}, {"n"} >>

NumberNulls == [m |-> Unreadable, n |-> Unreadable]

\* Either key may be NULL, and w follows n: m is a number, n and w are texts.
TwoKeysWithCopy == [m |-> {a, b}, n |-> {empty, b}, w |-> {empty, b}]
TextNulls  == [m |-> Unreadable, n |-> empty, w |-> empty]
CopyOfN    == [w |-> "n"]

\* A primary key and a nullable text.
KeyedText  == [id |-> {i1, i2}, t |-> {empty, b}]
NullText   == [t |-> empty]

\* A key that may be NULL beside another column.
KeyAndText == [m |-> {a}, n |-> {empty, b}]
ByMaybeNull == << {"m"} >>
NumberNull == [m |-> Unreadable]
NumberAndText == [m |-> Unreadable, n |-> empty]

WithCopy   == [id |-> {i1, i2}, v |-> {a, b}, w |-> {a, b}]
CopyOfV    == [w |-> "v"]

Interchangeable == Permutations({i1, i2, i3}) \cup Permutations({a, b})
SameValues == Permutations({i1, i2}) \cup Permutations({a, b})
=============================================================================
