---------------------------- MODULE MCValueCodec ----------------------------
(***************************************************************************)
(* Columns for TLC.  A word has 4 bits; a SET of four members fills it as  *)
(* one of 64 members fills an int64.                                       *)
(***************************************************************************)
EXTENDS ValueCodec

CONSTANTS red, green, blue, grey

Column(type, size, members, nullable) ==
  [type |-> type, size |-> size, members |-> members, nullable |-> nullable]

AllTypes == {
  Column("signed", 8, <<>>, FALSE), Column("signed", 16, <<>>, TRUE),
  Column("unsigned", 8, <<>>, TRUE), Column("unsigned", 16, <<>>, FALSE),
  Column("bit", 8, <<>>, TRUE), Column("bit", 16, <<>>, FALSE),
  Column("float", 0, <<>>, TRUE), Column("double", 0, <<>>, FALSE),
  Column("enum", 0, <<red, green, blue>>, TRUE),
  Column("set", 0, <<red, green, blue>>, TRUE), Column("set", 0, <<red, green, blue, grey>>, FALSE),
  Column("text", 0, <<>>, TRUE),
  Column("json", 0, <<>>, TRUE) }

ByBytes     == [t \in Texts |-> t]
RedIsGreen  == [t \in Texts |-> IF t = green THEN red ELSE t]

OnlyTexts == { Column("text", 0, <<>>, FALSE) }
Documents == { Column("json", 0, <<>>, FALSE) }
Floats    == { Column("float", 0, <<>>, FALSE) }
Narrow    == { Column("unsigned", 8, <<>>, FALSE) }

\* The promises without their exceptions, which a run on one type of column refutes: every value
\* comes back, and only where nobody has changed anything (compactJSON; the collation).
EveryValueRestored == [][verdict' = "applied" /\ verdict # "applied" => row = new /\ row' = old]_vars

\* Nothing but a NULL keeps an untouched value from being reverted (decodeInteger of a narrow
\* unsigned one; the comparison of a FLOAT with its decimal text).
EveryValueRestorable ==
  plan # Error /\ row = new /\ row # Null =>
    Verdict(column, row, plan.expect) = "ready" /\ Holds(column, row, plan.expect)
=============================================================================
