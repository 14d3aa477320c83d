--------------------------- MODULE ValueCodecProofs ---------------------------
(***************************************************************************)
(* What the codec promises for every set of columns, every width of their  *)
(* types and of a word, every collation and every bound on the numbers.    *)
(***************************************************************************)
EXTENDS ValueCodec, TLAPS

\* A 64-bit pattern survives its passage through a signed container.
LEMMA WordRoundTrip ==
  ASSUME NEW v \in 0 .. Word - 1
  PROVE  Uint64(AsSigned(v, Word)) = v
BY CodecAssumption DEF Uint64, AsSigned

\* A mask has no bits beyond its members.
LEMMA NoBitsBeyond ==
  ASSUME NEW m \in Nat \ {0}, NEW n \in 0 .. m - 1
  PROVE  n \div m = 0
OBVIOUS

\* The digits of a floating-point number are digits that are rounded to it.
LEMMA DigitsOf ==
  ASSUME NEW c \in Columns, c.type \in Floating, NEW v \in Stored(c) \ {Null}
  PROVE  Digits(c, v) \in 0 .. MaxNumber /\ ToGrid(Digits(c, v), Grid(c)) = v
<1>1. \E d \in 0 .. MaxNumber : ToGrid(d, Grid(c)) = v
  BY DEF Stored, Floating
<1> QED
  BY <1>1 DEF Digits

\* A decimal number that is a FLOAT as a DOUBLE is the FLOAT it is rounded to: the FLOATs are
\* DOUBLEs, and no two of them are as near to it as the next DOUBLE.
LEMMA FloatOfDouble ==
  ASSUME NEW d \in Nat, NEW n \in Nat, ToGrid(d, 3) = 9 * n
  PROVE  ToGrid(d, 9) = 9 * n
<1> DEFINE k == (20 * d + 3) \div 6
<1>1. k \in Int /\ 6 * k <= 20 * d + 3 /\ 20 * d + 3 < 6 * k + 6
  OBVIOUS
<1>2. k = 3 * n
  BY <1>1 DEF ToGrid
<1>3. 18 * n <= 20 * d + 9 /\ 20 * d + 9 < 18 * n + 18
  BY <1>1, <1>2
<1>4. (20 * d + 9) \div 18 = n
  BY <1>3
<1> QED
  BY <1>4 DEF ToGrid

\* What the containers make of an integer, whatever it is.
LEMMA Containers ==
  ASSUME NEW c, NEW v, v # Null, NEW n
  PROVE  /\ c.type = "unsigned" => FromBinlog(c, v) = Integer(AsSigned(v, c.size))
         /\ c.type \in {"bit", "set"} => FromBinlog(c, v) = Integer(AsSigned(v, Word))
         /\ c.type = "unsigned" => Decode(c, Integer(n)) = IF c.size = Word THEN Uint64(n) ELSE n
<1>1. c.type = "unsigned" => FromBinlog(c, v) = Integer(AsSigned(v, c.size))
  BY DEF FromBinlog, Floating
<1>2. c.type \in {"bit", "set"} => FromBinlog(c, v) = Integer(AsSigned(v, Word))
  BY DEF FromBinlog, Floating
<1>3. ASSUME c.type = "unsigned"
      PROVE  Decode(c, Integer(n)) = IF c.size = Word THEN Uint64(n) ELSE n
  <2>1. Integer(n).go = "int" /\ Integer(n).val = n
    BY DEF Integer
  <2>2. Decode(c, Integer(n)) = DecodeInteger(c, Integer(n))
    BY <1>3, <2>1 DEF Decode, Floating
  <2> QED
    BY <1>3, <2>1, <2>2 DEF DecodeInteger
<1> QED
  BY <1>1, <1>2, <1>3

\* Every value of a column comes out of the binlog in its form ...
LEMMA BinlogForm ==
  ASSUME NEW c \in Columns, NEW v \in Stored(c)
  PROVE  Decode(c, FromBinlog(c, v)) = Form(c, v)
<1>1. CASE v = Null
  BY <1>1 DEF Decode, FromBinlog, Form, Nil
<1>2. CASE v # Null
  <2> USE <1>2
  <2>1. /\ v # NoBytes
        /\ c.type \in {"signed", "unsigned", "bit", "enum", "set", "json", "float", "double", "text"}
    BY CodecAssumption
  <2>2. c.type # "unsigned" => ~Wraps(c, v)
    BY DEF Wraps
  <2>3. CASE c.type = "signed"
    BY <2>1, <2>2, <2>3 DEF Decode, FromBinlog, Form, Kept, Shown, DecodeInteger, Integer, Floating
  <2>4. CASE c.type = "unsigned"
    <3>1. c.size \in Nat /\ c.size <= Word /\ v \in 0 .. c.size - 1
      BY <2>4, CodecAssumption DEF Stored, Floating
    <3>2. FromBinlog(c, v) = Integer(AsSigned(v, c.size))
      BY <2>4, Containers
    <3>3. Form(c, v) = IF Wraps(c, v) THEN v - c.size ELSE v
      BY <2>4 DEF Form, Kept, Shown, Floating
    <3>4. CASE c.size = Word
      <4>1. ~Wraps(c, v)
        BY <3>4, CodecAssumption DEF Wraps
      <4>2. Decode(c, Integer(AsSigned(v, c.size))) = Uint64(AsSigned(v, Word))
        BY <2>4, <3>4, Containers
      <4> QED
        BY <3>1, <3>2, <3>3, <3>4, <4>1, <4>2, WordRoundTrip
    <3>5. CASE c.size # Word
      <4>1. Decode(c, Integer(AsSigned(v, c.size))) = AsSigned(v, c.size)
        BY <2>4, <3>5, Containers
      <4> QED
        BY <2>4, <3>1, <3>2, <3>3, <3>5, <4>1, CodecAssumption DEF AsSigned, Wraps
    <3> QED
      BY <3>4, <3>5
  <2>5. CASE c.type = "bit"
    <3>1. v \in 0 .. Word - 1
      BY <2>5, CodecAssumption DEF Stored, Floating
    <3> QED
      BY <2>2, <2>5, <3>1, WordRoundTrip
      DEF Decode, FromBinlog, Form, Kept, Shown, DecodeBit, Integer, Floating
  <2>6. CASE c.type = "enum"
    BY <2>2, <2>6 DEF Decode, FromBinlog, Form, Kept, Shown, DecodeEnum, Integer, Stored, Floating
  <2>7. CASE c.type = "set"
    <3> DEFINE masks == 2 ^ Len(c.members)
    <3>1. masks \in 1 .. Word /\ v \in 0 .. masks - 1
      BY <2>7, CodecAssumption DEF Stored, Floating
    <3>2. v \in 0 .. Word - 1 /\ masks \in Nat \ {0}
      BY <3>1, CodecAssumption
    <3>3. v \div masks = 0
      <4> HIDE DEF masks
      <4> QED BY <3>1, <3>2, NoBitsBeyond
    <3>4. FromBinlog(c, v) = Integer(AsSigned(v, Word))
      BY <2>7, Containers
    <3> QED
      BY <2>2, <2>7, <3>2, <3>3, <3>4, WordRoundTrip
      DEF Decode, Form, Kept, Shown, DecodeSet, Integer, Floating
  <2>8. CASE c.type = "json"
    BY <2>1, <2>2, <2>8 DEF Decode, FromBinlog, Form, Kept, Shown, DecodeJSON, Bytes, Floating
  <2>9. CASE c.type \in Floating
    BY <2>9 DEF Decode, FromBinlog, Form, DecodeFloat, Float, Floating
  <2>10. CASE c.type = "text"
    BY <2>1, <2>2, <2>10 DEF Decode, FromBinlog, Form, Kept, Shown, DecodeText, Bytes, Floating
  <2> QED
    BY <2>1, <2>3, <2>4, <2>5, <2>6, <2>7, <2>8, <2>9, <2>10 DEF Floating
<1> QED
  BY <1>1, <1>2

\* ... and from a SELECT in the same, unless it is NULL, or in that of its own sign.
LEMMA SelectForm ==
  ASSUME NEW c \in Columns, NEW v \in Stored(c) \ {Null}
  PROVE  Decode(c, FromSelect(c, v)) = IF Wraps(c, v) THEN v ELSE Form(c, v)
<1>1. /\ Shown(c, v) # NoBytes /\ Form(c, v) # NoBytes
      /\ c.type \in {"signed", "unsigned", "bit", "enum", "set", "json", "float", "double", "text"}
  BY CodecAssumption
<1>2. CASE c.type \in Floating
  <2>1. Form(c, v) = GoText(Digits(c, v)) /\ ~Wraps(c, v)
    BY <1>2 DEF Form, Wraps, Floating
  <2>2. FromSelect(c, v) = Bytes(GoText(Digits(c, v)))
    BY <1>2 DEF FromSelect
  <2> QED
    BY <1>1, <1>2, <2>1, <2>2 DEF Decode, DecodeFloat, Bytes, Floating
<1>3. CASE c.type \notin Floating
  <2>1. FromSelect(c, v) = Bytes(Shown(c, v))
    BY <1>3 DEF FromSelect
  <2>2. CASE c.type = "json"
    BY <1>1, <1>3, <2>1, <2>2 DEF Decode, DecodeJSON, Bytes, Form, Shown, Kept, Wraps
  <2>3. CASE c.type # "json"
    <3>1. Decode(c, FromSelect(c, v)) = Shown(c, v)
      BY <1>1, <1>3, <2>1, <2>3
      DEF Decode, DecodeInteger, DecodeBit, DecodeEnum, DecodeSet, DecodeText, Bytes, Floating
    <3>2. Wraps(c, v) => Shown(c, v) = v
      BY DEF Wraps, Shown, Floating
    <3>3. ~Wraps(c, v) => Form(c, v) = Shown(c, v)
      BY <1>3, <2>3 DEF Form, Kept
    <3> QED
      BY <3>1, <3>2, <3>3
  <2> QED
    BY <2>2, <2>3
<1> QED
  BY <1>2, <1>3

\* The forms of different values differ, as far as they are kept, and that of one that wraps is no
\* value of the column.
LEMMA FormsDiffer ==
  ASSUME NEW c \in Columns, NEW v \in Stored(c) \ {Null}, NEW w \in Stored(c) \ {Null},
         Kept(c, v) # Kept(c, w)
  PROVE  (IF Wraps(c, v) THEN v ELSE Form(c, v)) # Form(c, w)
<1>1. CASE c.type \in Floating
  <2>1. v # w /\ ~Wraps(c, v)
    BY <1>1 DEF Kept, Floating, Wraps
  <2>2. Digits(c, v) # Digits(c, w)
    BY <1>1, <2>1, DigitsOf
  <2> QED
    BY <1>1, <2>1, <2>2 DEF Form, GoText
<1>2. CASE c.type = "unsigned"
  <2>1. v # w /\ c.size \in Nat /\ v \in 0 .. c.size - 1 /\ w \in 0 .. c.size - 1
    BY <1>2, CodecAssumption DEF Kept, Stored, Floating
  <2> QED
    BY <1>2, <2>1 DEF Form, Kept, Shown, Floating
<1>3. CASE c.type \notin Floating \cup {"unsigned"}
  <2>1. ~Wraps(c, v) /\ ~Wraps(c, w)
    BY <1>3 DEF Wraps
  <2>2. Form(c, v) = Shown(c, Kept(c, v)) /\ Form(c, w) = Shown(c, Kept(c, w))
    BY <1>3, <2>1 DEF Form
  <2>3. CASE c.type = "json"
    BY <2>1, <2>2, <2>3 DEF Shown, Floating
  <2>4. CASE c.type # "json"
    <3>1. Kept(c, v) = v /\ Kept(c, w) = w
      BY <2>4 DEF Kept
    <3> QED
      BY <2>1, <2>2, <3>1, CodecAssumption
  <2> QED
    BY <2>3, <2>4
<1> QED
  BY <1>1, <1>2, <1>3

\* The form of a value is found where the value is, as far as it is kept and the collation sees ...
LEMMA HoldsOnlyThere ==
  ASSUME NEW c \in Columns, NEW v \in Stored(c), NEW w \in Stored(c),
         Holds(c, w, Form(c, v))
  PROVE  Alike(c, w, Kept(c, v))
<1>1. CASE v = Null
  BY <1>1 DEF Holds, Form, Alike, Kept
<1>2. CASE v # Null
  <2>1. Form(c, v) # Null /\ Shown(c, v) # Null /\ w # Null
    BY <1>2, CodecAssumption DEF Holds
  <2>2. CASE c.type = "float"
    <3> DEFINE d == Digits(c, v)
    <3>1. d \in 0 .. MaxNumber /\ ToGrid(d, 9) = v /\ Form(c, v).digits = d
      BY <1>2, <2>2, DigitsOf DEF Floating, Form, GoText, Grid, DoubleGrid
    <3>2. w = ToGrid(d, 3)
      BY <2>1, <2>2, <3>1 DEF Holds, Floating, DoubleGrid
    <3>3. PICK e \in 0 .. MaxNumber : w = ToGrid(e, 9)
      BY <2>1, <2>2 DEF Stored, Floating, Grid, DoubleGrid
    <3>4. PICK n : n = (20 * e + 9) \div 18
      OBVIOUS
    <3>5. n \in Nat /\ w = 9 * n /\ d \in Nat
      BY <3>1, <3>3, <3>4, CodecAssumption DEF ToGrid
    <3>6. v = w
      <4> HIDE DEF d
      <4> QED BY <3>1, <3>2, <3>5, FloatOfDouble
    <3> QED
      BY <2>2, <3>6 DEF Alike, Kept
  <2>3. CASE c.type = "double"
    <3>1. ToGrid(Digits(c, v), 3) = v /\ Form(c, v).digits = Digits(c, v)
      BY <1>2, <2>3, DigitsOf DEF Floating, Form, GoText, Grid, DoubleGrid
    <3> QED
      BY <2>1, <2>3, <3>1 DEF Holds, Floating, DoubleGrid, Alike, Kept
  <2>4. CASE c.type = "text"
    <3>1. Form(c, v) = v /\ Kept(c, v) = v
      BY <1>2, <2>4 DEF Form, Shown, Kept, Wraps, Floating
    <3> QED
      BY <1>2, <2>1, <2>4, <3>1 DEF Holds, Floating, Alike
  <2>5. CASE c.type \notin Floating \cup {"text"}
    <3>1. Shown(c, w) = DriverValue(c, Form(c, v))
      BY <2>1, <2>5 DEF Holds
    <3>2. Shown(c, w) # Error
      BY <2>1, CodecAssumption
    <3>3. Shown(c, w) = Form(c, v)
      BY <3>1, <3>2 DEF DriverValue
    <3>4. w = Kept(c, v)
      <4>1. CASE c.type = "json"
        BY <1>2, <3>3, <4>1 DEF Form, Shown, Kept, Wraps, Floating
      <4>2. CASE c.type # "json"
        <5>1. Shown(c, w) = IF Wraps(c, w) THEN w ELSE Form(c, w)
          BY <2>1, <2>5, <4>2 DEF Form, Kept, Wraps, Shown, Floating
        <5>2. Kept(c, w) = w
          BY <4>2 DEF Kept
        <5> QED
          BY <1>2, <2>1, <3>3, <5>1, <5>2, FormsDiffer
      <4> QED
        BY <4>1, <4>2
    <3> QED
      BY <3>4 DEF Alike
  <2> QED
    BY <2>2, <2>3, <2>4, <2>5 DEF Floating
<1> QED
  BY <1>1, <1>2

\* ... and is found there, if it can be matched.
LEMMA HoldsThere ==
  ASSUME NEW c \in Columns, NEW v \in Stored(c) \ {Null}, Matchable(c, v)
  PROVE  Holds(c, v, Form(c, v))
<1>1. Form(c, v) # Null /\ ~Wraps(c, v) /\ Kept(c, v) = v
  BY CodecAssumption DEF Matchable
<1>2. CASE c.type \in Floating
  <2>1. Form(c, v).digits = Digits(c, v)
    BY <1>2 DEF Form, GoText
  <2>2. ToGrid(Digits(c, v), DoubleGrid) = v
    BY <1>2, DigitsOf DEF Matchable, Grid, Floating
  <2>3. ASSUME NEW expect, expect # Null, v = ToGrid(expect.digits, DoubleGrid)
        PROVE  Holds(c, v, expect)
    <3>1. v # Null
      OBVIOUS
    <3>2. CASE c.type = "float"
      BY <2>3, <3>1, <3>2 DEF Holds, Floating
    <3>3. CASE c.type = "double"
      BY <2>3, <3>1, <3>3 DEF Holds, Floating
    <3> QED
      BY <1>2, <3>2, <3>3 DEF Floating
  <2>4. v = ToGrid(Form(c, v).digits, DoubleGrid)
    BY <2>1, <2>2
  <2> QED
    BY <1>1, <2>3, <2>4, Zenon
<1>3. CASE c.type \notin Floating
  <2>1. Form(c, v) = Shown(c, v)
    BY <1>1, <1>3 DEF Form
  <2>2. CASE c.type = "text"
    <3>1. Shown(c, v) = v
      BY <2>2 DEF Shown, Floating
    <3> QED
      BY <1>1, <1>3, <2>1, <2>2, <3>1 DEF Holds
  <2>3. CASE c.type # "text"
    <3>1. DriverValue(c, Shown(c, v)) = Shown(c, v)
      BY CodecAssumption DEF DriverValue, Shown, Stored, Floating
    <3>2. Holds(c, v, Form(c, v)) <=> Shown(c, v) = DriverValue(c, Form(c, v))
      BY <1>1, <1>3, <2>3, ZenonT(30) DEF Holds
    <3> QED
      BY <2>1, <3>1, <3>2
  <2> QED
    BY <2>2, <2>3
<1> QED
  BY <1>2, <1>3

\* MySQL stores what is kept of a value for its form, or refuses it; it does not refuse what can be
\* written.
LEMMA LiteralOfForm ==
  ASSUME NEW c \in Columns, NEW v \in Stored(c)
  PROVE  /\ Literal(c, DriverValue(c, Form(c, v))) \in {Kept(c, v), Error}
         /\ Writable(c, v) => Literal(c, DriverValue(c, Form(c, v))) = v
<1>1. CASE v = Null
  BY <1>1, CodecAssumption DEF Literal, DriverValue, Form, Kept
<1>2. CASE v # Null
  <2>1. Form(c, v) # Null /\ Shown(c, v) # Null
    BY <1>2, CodecAssumption
  <2>2. CASE c.type \in Floating
    <3>1. DriverValue(c, Form(c, v)) = Form(c, v) /\ Form(c, v).digits = Digits(c, v)
      BY <1>2, <2>2 DEF Form, GoText, DriverValue, Floating
    <3>2. Kept(c, v) = v /\ ToGrid(Digits(c, v), Grid(c)) = v
      BY <1>2, <2>2, DigitsOf DEF Kept, Floating
    <3> QED
      BY <2>1, <2>2, <3>1, <3>2 DEF Literal
  <2>3. CASE c.type \notin Floating
    <3> DEFINE arg == DriverValue(c, Form(c, v))
               found == \E w \in Stored(c) \ {Null} : Shown(c, w) = arg /\ ~(c.type = "enum" /\ w = 0)
    <3>1. arg # Null
      BY <2>1, CodecAssumption DEF DriverValue
    <3>2. Literal(c, arg) = IF found THEN CHOOSE w \in Stored(c) \ {Null} : Shown(c, w) = arg ELSE Error
      BY <2>3, <3>1 DEF Literal
    <3>3. \A w \in Stored(c) \ {Null} : Shown(c, w) = arg => w = Kept(c, v)
      <4> SUFFICES ASSUME NEW w \in Stored(c) \ {Null}, Shown(c, w) = arg
                   PROVE  w = Kept(c, v)
        OBVIOUS
      <4>1. Shown(c, w) # Error
        BY CodecAssumption
      <4>2. Shown(c, w) = Form(c, v)
        BY <4>1 DEF DriverValue
      <4>3. CASE c.type = "json"
        BY <1>2, <4>2, <4>3 DEF Form, Shown, Kept, Wraps, Floating
      <4>4. CASE c.type # "json"
        <5>1. Shown(c, w) = IF Wraps(c, w) THEN w ELSE Form(c, w)
          BY <2>3, <4>4 DEF Form, Kept, Wraps, Shown, Floating
        <5>2. Kept(c, w) = w
          BY <4>4 DEF Kept
        <5> QED
          BY <1>2, <4>2, <5>1, <5>2, FormsDiffer
      <4> QED
        BY <4>3, <4>4
    <3>4. Literal(c, arg) \in {Kept(c, v), Error}
      <4> HIDE DEF arg
      <4> QED BY <3>2, <3>3
    <3>5. ASSUME Writable(c, v)
          PROVE  Literal(c, arg) = v
      <4>1. Form(c, v) = Shown(c, v) /\ Kept(c, v) = v
        BY <1>2, <2>3, <3>5 DEF Writable, Form
      <4>2. arg = Shown(c, v)
        BY <1>2, <4>1, CodecAssumption DEF DriverValue, Shown, Stored, Floating
      <4>3. found
        BY <1>2, <3>5, <4>2 DEF Writable
      <4> HIDE DEF arg
      <4> QED BY <1>2, <3>2, <3>3, <4>1, <4>2, <4>3
    <3> QED
      BY <3>4, <3>5
  <2> QED
    BY <2>2, <2>3
<1> QED
  BY <1>1, <1>2

-----------------------------------------------------------------------------
\* The inductive invariant: the images are the forms of the two values, whatever happens to the row.
IInv ==
  /\ column \in Columns
  /\ old \in Stored(column) /\ new \in Stored(column) /\ row \in Stored(column)
  /\ old # new
  /\ plan # Error => plan = [expect |-> Form(column, new), write |-> Form(column, old)]
  /\ verdict \in {"unchecked", "ready", "row_mismatch", "unsupported_op", "applied"}

LEMMA Initially == Init => IInv
BY DEF Init, IInv

\* What Apply replaces, and what it writes.
LEMMA ApplyWritesOld ==
  ASSUME IInv, Apply
  PROVE  Alike(column, row, Kept(column, new)) /\ row' = Kept(column, old)
<1>1. plan.expect = Form(column, new) /\ plan.write = Form(column, old)
  BY DEF IInv, Apply
<1>2. Alike(column, row, Kept(column, new))
  <2>1. Holds(column, row, Form(column, new))
    BY <1>1 DEF Apply
  <2> QED
    BY <2>1, HoldsOnlyThere DEF IInv
<1>3. row' = Kept(column, old)
  <2>1. row' = Literal(column, DriverValue(column, Form(column, old))) /\ row' # Error
    BY <1>1 DEF Apply
  <2>2. Literal(column, DriverValue(column, Form(column, old))) \in {Kept(column, old), Error}
    BY LiteralOfForm DEF IInv
  <2> QED
    BY <2>1, <2>2
<1> QED
  BY <1>2, <1>3

\* What MySQL stores is a value of the column.
LEMMA LiteralIsStored ==
  ASSUME NEW c \in Columns, NEW v \in Stored(c),
         Literal(c, DriverValue(c, Form(c, v))) # Error
  PROVE  Literal(c, DriverValue(c, Form(c, v))) \in Stored(c)
<1> DEFINE arg == DriverValue(c, Form(c, v))
<1>1. CASE v = Null \/ c.type \in Floating
  <2>1. Kept(c, v) = v
    BY <1>1 DEF Kept, Floating
  <2> QED
    BY <2>1, LiteralOfForm
<1>2. CASE v # Null /\ c.type \notin Floating
  <2>1. arg # Null
    BY <1>2, CodecAssumption DEF DriverValue
  <2>2. \E w \in Stored(c) \ {Null} : Shown(c, w) = arg
    BY <1>2, <2>1 DEF Literal
  <2>3. Literal(c, arg) = CHOOSE w \in Stored(c) \ {Null} : Shown(c, w) = arg
    BY <1>2, <2>1 DEF Literal
  <2> QED
    BY <2>2, <2>3
<1> QED
  BY <1>1, <1>2

LEMMA Step ==
  ASSUME IInv, [Next]_vars
  PROVE  IInv'
<1>1. CASE Create
  <2>1. plan' = [expect |-> Form(column, new), write |-> Form(column, old)]
    BY <1>1, BinlogForm DEF Create, IInv
  <2> QED
    BY <1>1, <2>1 DEF Create, IInv
<1>2. ASSUME NEW v \in Stored(column), Foreign(v)
      PROVE  IInv'
  BY <1>2 DEF Foreign, IInv
<1>3. CASE Check
  BY <1>3 DEF Check, IInv, Verdict
<1>4. CASE Apply
  <2>1. plan.write = Form(column, old)
    BY <1>4 DEF IInv, Apply
  <2>2. row' \in Stored(column)
    BY <1>4, <2>1, LiteralIsStored DEF Apply, IInv
  <2> QED
    BY <1>4, <2>2 DEF Apply, IInv
<1>5. CASE UNCHANGED vars
  BY <1>5 DEF vars, IInv
<1> QED
  BY <1>1, <1>2, <1>3, <1>4, <1>5 DEF Next

THEOREM Invariance == Spec => []IInv
<1>1. Init => IInv
  BY Initially
<1>2. IInv /\ [Next]_vars => IInv'
  BY Step
<1> QED
  BY <1>1, <1>2, PTL DEF Spec

\* The images of a plan are always forms of values of the column (Decode, buildRow).
THEOREM TypeCorrect == Spec => []TypeOK
<1>1. IInv => TypeOK
  BY DEF IInv, TypeOK
<1> QED
  BY <1>1, Invariance, PTL

\* A plan is applied to nothing but the value the source transaction left, up to what the collation
\* and a float64 do not tell apart, and puts back the value it replaced, a document's number as a
\* float64 (Decode, buildPredicate, driverValue).
THEOREM OldValueIsRestored == Spec => RestoresOldValue
<1>1. IInv /\ [Next]_vars =>
        [verdict' = "applied" /\ verdict # "applied" =>
           Alike(column, row, Kept(column, new)) /\ row' = Kept(column, old)]_vars
  <2> SUFFICES ASSUME IInv, [Next]_vars, verdict' = "applied", verdict # "applied"
               PROVE  Alike(column, row, Kept(column, new)) /\ row' = Kept(column, old)
    OBVIOUS
  <2>1. Apply
    BY DEF Next, Create, Foreign, Check, Verdict, vars
  <2> QED
    BY <2>1, ApplyWritesOld
<1> QED
  BY <1>1, Invariance, PTL DEF Spec, RestoresOldValue

\* A value nobody has touched is READY, is found by the UPDATE, and can be given its old value back,
\* but for the exceptions named in Wraps, Matchable and Writable (Decode on both its inputs).
THEOREM UntouchedIsRestorable == Spec => []UnchangedIsRestorable
<1>1. IInv => UnchangedIsRestorable
  <2> SUFFICES ASSUME IInv, plan # Error, row = new, row # Null
               PROVE  /\ ~Wraps(column, new) => Verdict(column, row, plan.expect) = "ready"
                      /\ Matchable(column, new) => Holds(column, row, plan.expect)
                      /\ Writable(column, old) =>
                           Literal(column, DriverValue(column, plan.write)) = old
    BY DEF UnchangedIsRestorable
  <2>1. plan.expect = Form(column, new) /\ plan.write = Form(column, old)
    BY DEF IInv
  <2>2. ~Wraps(column, new) => Verdict(column, row, plan.expect) = "ready"
    <3>1. ~Wraps(column, new) => Decode(column, FromSelect(column, row)) = Form(column, new)
      BY SelectForm DEF IInv
    <3>2. Form(column, new) # Error
      BY CodecAssumption DEF IInv
    <3> QED
      BY <2>1, <3>1, <3>2 DEF Verdict, Equal
  <2>3. Matchable(column, new) => Holds(column, row, plan.expect)
    BY <2>1, HoldsThere DEF IInv
  <2>4. Writable(column, old) => Literal(column, DriverValue(column, plan.write)) = old
    BY <2>1, LiteralOfForm DEF IInv
  <2> QED
    BY <2>2, <2>3, <2>4
<1> QED
  BY <1>1, Invariance, PTL

\* Check calls no value READY that differs from the one the source transaction left, or of a
\* document's number as a float64 (compareRow, Value.Equal).
THEOREM ChangesAreSeen == Spec => []DriftIsSeen
<1>1. IInv => DriftIsSeen
  <2> SUFFICES ASSUME IInv, plan # Error, row # Null, Kept(column, row) # Kept(column, new)
               PROVE  Verdict(column, row, plan.expect) # "ready"
    BY DEF DriftIsSeen
  <2>1. plan.expect = Form(column, new)
    BY DEF IInv
  <2>2. Decode(column, FromSelect(column, row)) = IF Wraps(column, row) THEN row ELSE Form(column, row)
    BY SelectForm DEF IInv
  <2>3. Decode(column, FromSelect(column, row)) # Form(column, new)
    <3>1. CASE new = Null
      BY <2>2, <3>1, CodecAssumption DEF IInv, Form
    <3>2. CASE new # Null
      BY <2>2, <3>2, FormsDiffer DEF IInv
    <3> QED
      BY <3>1, <3>2
  <2> QED
    BY <2>1, <2>3 DEF Verdict, Equal
<1> QED
  BY <1>1, Invariance, PTL
=============================================================================
