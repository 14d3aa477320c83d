------------------------------ MODULE ValueCodec ------------------------------
(***************************************************************************)
(* One column value on its way through a plan.  The source transaction     *)
(* changes it from `old` to `new`; the replication library returns both in *)
(* Go containers, which Decode turns into the plan's expect and write      *)
(* images; Check decodes the value a SELECT returns and compares; the      *)
(* conditional UPDATE binds the images again (driverValue) and MySQL       *)
(* compares and stores.  The value survives only if all these conversions  *)
(* fit together.                                                           *)
(*                                                                         *)
(* Types whose text is carried through unchanged on every path (CHAR,      *)
(* DECIMAL, the temporal types) are the type "text".  A JSON document is   *)
(* one of its numbers.  Integers have their width, given as the number of  *)
(* their values (2^64 for a 64-bit word).                                  *)
(***************************************************************************)
EXTENDS Integers, Sequences, SequencesExt, FiniteSets, Functions

CONSTANTS
  Columns,   \* [type, size, members, nullable]: size and members for the types that have them
  Word,      \* how many values an int64 and a uint64 have
  Exact,     \* integers up to this one are float64s
  Texts,     \* the texts
  Empty,     \* the text without characters
  Folded,    \* what the collation of a text column compares of a text
  GoPlain,   \* Go writes numbers below this one without an exponent (10^6) ...
  SqlPlain,  \* ... and MySQL those below this one (10^15)
  MaxNumber, \* bound: the numbers in JSON documents and in FLOAT and DOUBLE columns
  Null,      \* the SQL NULL
  Error,     \* an error instead of a value
  NoBytes    \* the nil []byte that Scan leaves for a NULL

VARIABLES
  column,    \* the column
  old, new,  \* its value before and after the source transaction
  row,       \* its value now
  plan,      \* its expect and write image, or Error before `plan create`
  verdict    \* what Check last said of it; "applied" in the end

vars == <<column, old, new, row, plan, verdict>>

\* Decimal numbers lie between the floating-point numbers: the FLOATs are every third DOUBLE.  One is
\* written with the digits d that are rounded to it.  (External.)
Floating        == {"float", "double"}
DoubleGrid      == 3
Grid(c)         == IF c.type = "float" THEN 3 * DoubleGrid ELSE DoubleGrid
ToGrid(d, grid) == ((20 * d + grid) \div (2 * grid)) * grid
Digits(c, f)    == CHOOSE d \in 0..MaxNumber : ToGrid(d, Grid(c)) = f

\* Go and MySQL write one number in two ways: 1234567 is 1.234567e+06 to Go, and 10^15 is 1e15 to
\* MySQL.  (Small numbers alike.)
GoText(d)  == [style |-> IF d < GoPlain THEN "plain" ELSE "e+", digits |-> d]
SqlText(d) == [style |-> IF d < SqlPlain THEN "plain" ELSE "e", digits |-> d]

\* The values a column of MySQL can hold (external).  An ENUM is stored as an index, 0 being the
\* error value; a SET as a mask.
Stored(c) ==
  (IF c.nullable THEN {Null} ELSE {}) \cup
  CASE c.type = "signed"   -> -(c.size \div 2) .. (c.size \div 2) - 1
    [] c.type = "unsigned" -> 0 .. c.size - 1
    [] c.type = "bit"      -> 0 .. c.size - 1
    [] c.type = "enum"     -> 0 .. Len(c.members)
    [] c.type = "set"      -> 0 .. 2 ^ Len(c.members) - 1
    [] c.type = "json"     -> 0 .. MaxNumber
    [] c.type \in Floating -> {ToGrid(d, Grid(c)) : d \in 0..MaxNumber}
    [] c.type = "text"     -> Texts

-----------------------------------------------------------------------------
(* What the replication library and the SQL driver return (external).       *)

Nil        == [go |-> "nil", val |-> NoBytes]
Float(f)   == [go |-> "float", val |-> f]
Integer(n) == [go |-> "int", val |-> n]
Bytes(t)   == [go |-> "bytes", val |-> t]

\* The bit pattern of v read as a signed integer, and of n read as an unsigned one.
AsSigned(v, size) == IF v < size \div 2 THEN v ELSE v - size
Uint64(n)         == IF n < 0 THEN n + Word ELSE n

BitSet(mask, i)  == (mask \div 2 ^ (i - 1)) % 2 = 1
Picked(c, mask)  == {i \in 1..Len(c.members) : BitSet(mask, i)}

\* ENUM and SET values as MySQL shows them: a name, or the chosen names in the order of the type.
EnumName(c, i)   == IF i = 0 THEN Empty ELSE c.members[i]
SetNames(c, S)   == LET order == SetToSortSeq(S, <) IN [i \in DOMAIN order |-> c.members[order[i]]]

\* A value in the form in which MySQL shows it.
Shown(c, v) == CASE c.type = "enum"       -> EnumName(c, v)
                 [] c.type = "set"        -> SetNames(c, Picked(c, v))
                 [] c.type \in Floating   -> SqlText(Digits(c, v))
                 [] OTHER                 -> v

\* The row decoder gives every unsigned integer in the signed container of its width.
FromBinlog(c, v) ==
  IF v = Null THEN Nil
  ELSE CASE c.type = "unsigned"           -> Integer(AsSigned(v, c.size))
         [] c.type \in {"bit", "set"}     -> Integer(AsSigned(v, Word))
         [] c.type \in {"text", "json"}   -> Bytes(v)
         [] c.type \in Floating           -> Float(v)
         [] c.type \in {"signed", "enum"} -> Integer(v)

\* ReadByKey hands every column to Decode as the []byte that Scan has filled.  Its SELECT is prepared
\* (InterpolateParams is off), so the driver returns the numbers themselves and Scan writes them as
\* Go does.  (The first one is a faulty variant that reads MySQL's text of them.)
FromSelectText(c, v) == Bytes(IF v = Null THEN NoBytes ELSE Shown(c, v))
FromSelect(c, v) ==
  Bytes(IF v = Null THEN NoBytes
        ELSE IF c.type \in Floating THEN GoText(Digits(c, v)) ELSE Shown(c, v))

-----------------------------------------------------------------------------
(* Decode.                                                                  *)

\* Of the unsigned integers only BIGINT is taken out of a signed container again.
\* (The first one is a faulty variant that does not do it at all.)
DecodeIntegerSigned(c, raw) == IF raw.val = NoBytes THEN Error ELSE raw.val
DecodeInteger(c, raw) ==
  IF raw.go = "int" THEN IF c.type = "unsigned" /\ c.size = Word THEN Uint64(raw.val) ELSE raw.val
  ELSE IF raw.val = NoBytes THEN Error ELSE raw.val

DecodeBit(raw) ==
  IF raw.go = "int" THEN Uint64(raw.val) ELSE IF raw.val = NoBytes THEN 0 ELSE raw.val

DecodeEnum(c, raw) ==
  IF raw.go = "int" THEN IF raw.val \in 0..Len(c.members) THEN EnumName(c, raw.val) ELSE Error
  ELSE IF raw.val = NoBytes THEN Empty ELSE raw.val

DecodeSet(c, raw) ==
  IF raw.go = "int"
  THEN LET mask == Uint64(raw.val) IN
       IF 2 ^ Len(c.members) < Word /\ mask \div 2 ^ Len(c.members) # 0 THEN Error
       ELSE SetNames(c, Picked(c, mask))
  ELSE IF raw.val = NoBytes THEN <<>> ELSE raw.val

\* compactJSON passes every number through a float64: rounded to nearest, a tie to even.
Nearest(n, unit) ==
  LET rest == n % unit
      up   == 2 * rest > unit \/ (2 * rest = unit /\ (n \div unit) % 2 = 1)
  IN  ((n \div unit) + (IF up THEN 1 ELSE 0)) * unit
Rounded(n) ==
  IF n <= Exact THEN n
  ELSE Nearest(n, CHOOSE u \in {2 ^ k : k \in 1..n} : n <= Exact * u /\ n > Exact * (u \div 2))

DecodeJSON(raw) == IF raw.val = NoBytes THEN Error ELSE Rounded(raw.val)
DecodeText(raw) == IF raw.val = NoBytes THEN Empty ELSE raw.val

\* A float is formatted, a text is kept as it is.
DecodeFloat(c, raw) == IF raw.go = "float" THEN GoText(Digits(c, raw.val))
                       ELSE IF raw.val = NoBytes THEN Error ELSE raw.val

\* (The first one is a faulty variant that takes a NULL for a text without characters.)
DecodeNilAsEmpty(c, raw) ==
  CASE raw.go = "nil" /\ c.type = "text"   -> Empty
    [] raw.go = "nil" /\ c.type # "text"   -> Null
    [] raw.go # "nil" /\ c.type \in {"signed", "unsigned"} -> DecodeInteger(c, raw)
    [] raw.go # "nil" /\ c.type = "bit"    -> DecodeBit(raw)
    [] raw.go # "nil" /\ c.type = "enum"   -> DecodeEnum(c, raw)
    [] raw.go # "nil" /\ c.type = "set"    -> DecodeSet(c, raw)
    [] raw.go # "nil" /\ c.type = "json"   -> DecodeJSON(raw)
    [] raw.go # "nil" /\ c.type \in Floating -> DecodeFloat(c, raw)
    [] raw.go # "nil" /\ c.type = "text"   -> DecodeText(raw)
Decode(c, raw) ==
  IF raw.go = "nil" THEN Null
  ELSE CASE c.type \in {"signed", "unsigned"} -> DecodeInteger(c, raw)
         [] c.type = "bit"  -> DecodeBit(raw)
         [] c.type = "enum" -> DecodeEnum(c, raw)
         [] c.type = "set"  -> DecodeSet(c, raw)
         [] c.type = "json" -> DecodeJSON(raw)
         [] c.type \in Floating -> DecodeFloat(c, raw)
         [] c.type = "text" -> DecodeText(raw)

-----------------------------------------------------------------------------
(* Compare, bind, store.                                                    *)

\* Value.Equal.  (The first one is a faulty variant that compares numbers as float64s.)
EqualAsFloats(c, v, w) ==
  IF c.type \in {"signed", "unsigned"} /\ v # Null /\ w # Null /\ v >= 0 /\ w >= 0
  THEN Rounded(v) = Rounded(w) ELSE v = w
Equal(c, v, w) == v = w

\* driverValue: a BIT must fit into the width of its column.
DriverValue(c, v) == IF v # Null /\ c.type = "bit" /\ v >= c.size THEN Error ELSE v

\* What MySQL stores for a bound value in strict mode (external).
Literal(c, arg) ==
  IF arg = Null THEN Null
  ELSE IF c.type \in Floating THEN ToGrid(arg.digits, Grid(c))
  ELSE IF \E v \in Stored(c) \ {Null} : Shown(c, v) = arg /\ ~(c.type = "enum" /\ v = 0)
  THEN CHOOSE v \in Stored(c) \ {Null} : Shown(c, v) = arg
  ELSE Error

\* buildPredicate: IS NULL for a NULL, `=` for the others.  MySQL compares a FLOAT with a text as
\* DOUBLEs, so that 0.1 is found in no FLOAT, and two texts by the collation of the column.
Holds(c, v, expect) ==
  IF expect = Null THEN v = Null
  ELSE v # Null /\ CASE c.type \in Floating -> v = ToGrid(expect.digits, DoubleGrid)
                     [] c.type = "text"     -> Folded[v] = Folded[expect]
                     [] OTHER -> Shown(c, v) = DriverValue(c, expect)

\* compareRow for this column, on the value v of the row.
Verdict(c, v, expect) ==
  LET got == Decode(c, FromSelect(c, v)) IN
  IF got = Error THEN "unsupported_op" ELSE IF Equal(c, expect, got) THEN "ready" ELSE "row_mismatch"

-----------------------------------------------------------------------------
Init ==
  /\ column \in Columns
  /\ old \in Stored(column) /\ new \in Stored(column) /\ old # new
  /\ row = new
  /\ plan = Error /\ verdict = "unchecked"

\* `plan create`: buildRow decodes both images; an error means that there is no plan.
Create ==
  LET expect == Decode(column, FromBinlog(column, new))
      write  == Decode(column, FromBinlog(column, old))
  IN  /\ plan = Error
      /\ Error \notin {expect, write}
      /\ plan' = [expect |-> expect, write |-> write]
      /\ UNCHANGED <<column, old, new, row, verdict>>

\* Another client changes the value.
Foreign(v) ==
  /\ plan # Error /\ v # row
  /\ row' = v
  /\ UNCHANGED <<column, old, new, plan, verdict>>

Check ==
  /\ plan # Error /\ verdict # "applied"
  /\ verdict' = Verdict(column, row, plan.expect)
  /\ UNCHANGED <<column, old, new, row, plan>>

\* `plan apply` after a check that said READY: the UPDATE with the expect image in its predicate
\* affects the row, which MySQL says only if the value changes.
Apply ==
  LET value == Literal(column, DriverValue(column, plan.write)) IN
  /\ plan # Error /\ verdict = "ready"
  /\ Holds(column, row, plan.expect)
  /\ value \notin {Error, row}
  /\ row' = value /\ verdict' = "applied"
  /\ UNCHANGED <<column, old, new, plan>>

Next == Create \/ (\E v \in Stored(column) : Foreign(v)) \/ Check \/ Apply

Spec == Init /\ [][Next]_vars

-----------------------------------------------------------------------------
(* What must be true.                                                       *)

\* What a plan holds for a value.  It is not the value itself in two cases: a number of a document
\* that no float64 has is rounded (Kept), and the highest half of a narrow unsigned integer is taken
\* for negative numbers (Wraps); such a value is never confirmed by Check and never written back.
Wraps(c, v) == c.type = "unsigned" /\ c.size < Word /\ v # Null /\ v >= c.size \div 2
Kept(c, v)  == IF c.type = "json" /\ v # Null THEN Rounded(v) ELSE v
Form(c, v)  ==
  IF v = Null THEN Null
  ELSE IF c.type \in Floating THEN GoText(Digits(c, v))
  ELSE IF Wraps(c, v) THEN v - c.size
  ELSE Shown(c, Kept(c, v))

\* An UPDATE with its form in the predicate finds the value; MySQL stores it for its form.
Matchable(c, v) == /\ ~Wraps(c, v) /\ Kept(c, v) = v
                   /\ c.type = "float" => ToGrid(Digits(c, v), DoubleGrid) = v
Writable(c, v)  == ~Wraps(c, v) /\ Kept(c, v) = v /\ ~(c.type = "enum" /\ v = 0)

\* Values that the column's collation does not tell apart.
Alike(c, v, w) == v = w \/ (c.type = "text" /\ Null \notin {v, w} /\ Folded[v] = Folded[w])

ASSUME CodecAssumption ==
  /\ {Word, Exact, GoPlain, SqlPlain, MaxNumber} \subseteq Nat
  /\ \A c \in Columns :
       /\ c.type \in {"signed", "unsigned", "bit", "enum", "set", "json", "float", "double", "text"}
       /\ c.type \in {"signed", "unsigned", "bit"} => c.size \in Nat /\ c.size <= Word
       /\ c.type = "enum" => Len(c.members) \in Nat
       /\ c.type = "set" => 2 ^ Len(c.members) \in 1..Word
       /\ \A v \in Stored(c) \ {Null} : {v, Shown(c, v), Form(c, v)} \cap {Null, Error, NoBytes} = {}
       /\ \A v, w \in Stored(c) \ {Null} : Shown(c, v) = Shown(c, w) => v = w
  /\ Null # Error

\* The type invariant: the column holds one of its values, and a plan the form of one.
TypeOK ==
  /\ column \in Columns
  /\ {old, new, row} \subseteq Stored(column)
  /\ plan # Error => {plan.expect, plan.write} \subseteq {Form(column, v) : v \in Stored(column)}
  /\ verdict \in {"unchecked", "ready", "row_mismatch", "unsupported_op", "applied"}

\* Applying a plan puts back the very value the source transaction replaced, and replaces nothing
\* but the value it left: NULLs, the highest bits of integers of every width, floating-point numbers
\* with and without exponents, members and texts without characters.  Two things are lost: digits
\* of a document's number beyond a float64, and a change the collation does not see.
RestoresOldValue ==
  [][verdict' = "applied" /\ verdict # "applied" =>
       Alike(column, row, Kept(column, new)) /\ row' = Kept(column, old)]_vars

\* The binlog and the SELECT path give one form to one value, although the library returns integers,
\* indexes and floats where the driver and Scan return digits, names and texts, and the bound form
\* is that value again: one that nobody has touched is READY, the UPDATE finds it, and its old value
\* can be written.  Exceptions are those of Form, a FLOAT that is no decimal number as a DOUBLE,
\* which no UPDATE finds (Matchable), and the error value of an ENUM, which MySQL in strict mode
\* does not take back (Writable).  (A NULL is not read as NULL: MCNullRead.)
UnchangedIsRestorable ==
  plan # Error /\ row = new /\ row # Null =>
    /\ ~Wraps(column, new) => Verdict(column, row, plan.expect) = "ready"
    /\ Matchable(column, new) => Holds(column, row, plan.expect)
    /\ Writable(column, old) => Literal(column, DriverValue(column, plan.write)) = old

\* Different values have different forms: a value somebody has changed, by one, by its highest bit
\* or by a letter's case, is not READY.  (Only of a document's number the rounded one counts.)
DriftIsSeen ==
  plan # Error /\ row # Null /\ Kept(column, row) # Kept(column, new) =>
    Verdict(column, row, plan.expect) # "ready"
=============================================================================
