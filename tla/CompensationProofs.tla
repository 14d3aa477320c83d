-------------------------- MODULE CompensationProofs -------------------------
(***************************************************************************)
(* That a plan does exactly what it is for, on tables of any columns, keys *)
(* and size, for source transactions of any length and chains of any       *)
(* depth: see the theorems at the end.  The source transaction is a walk   *)
(* from table to table; a plan walks the same way, back or forth, over     *)
(* whatever other clients have made of the table since.  A resolved plan   *)
(* walks from the rows the operator reviewed: each of its operations takes *)
(* a row of its own, and so they make together what each makes alone.      *)
(***************************************************************************)
EXTENDS Compensation, DataInduction

Side  == Row \cup {None}

\* One row change of a table: x is taken away and y comes.
Moves(t, x, y, u) == /\ x # y /\ (x # None => x \in t) /\ y \notin t
                     /\ u = Changed(t, x, y)

\* h is a walk of n steps through legal tables; step i takes out[i] away and brings in[i].
IsWalk(h, out, in, n) ==
  /\ h \in [0..n -> SUBSET Row] /\ out \in [1..n -> Side] /\ in \in [1..n -> Side]
  /\ \A i \in 0..n : Legal(h[i])
  /\ \A i \in 1..n : Moves(h[i - 1], out[i], in[i], h[i])

-----------------------------------------------------------------------------
(* Rows and images.                                                         *)

LEMMA RowFacts ==
  /\ None \notin Row /\ Cols # {} /\ GenCols \subseteq Cols
  /\ \A r \in Row : /\ r \in [Cols -> Value] /\ r # None /\ Has(r) /\ r # NoImage
                    /\ \A c \in GenCols : r[c] = r[Generated[c]]
                    /\ \A c \in Cols : r[c] = Null => c \in Nullable
                    /\ \A c \in Cols : r[c] # Unreadable
  /\ ~Has(NoImage) /\ DOMAIN NoImage = {}
  /\ \A c \in GenCols : Generated[c] \in Cols /\ Generated[c] \notin GenCols
<1>1. /\ None \notin Row /\ Cols # {} /\ GenCols \subseteq Cols
      /\ \A c \in GenCols : Generated[c] \in Cols /\ Generated[c] \notin GenCols
  BY CompensationAssumption
<1>2. DOMAIN NoImage = {} /\ ~Has(NoImage)
  BY DEF NoImage, Has
<1>3. ASSUME NEW r \in Row
      PROVE  /\ r \in [Cols -> Value] /\ r # None /\ Has(r) /\ r # NoImage
             /\ \A c \in GenCols : r[c] = r[Generated[c]]
             /\ \A c \in Cols : r[c] = Null => c \in Nullable
             /\ \A c \in Cols : r[c] # Unreadable
  <2>1. /\ r \in [Cols -> Value] /\ r # None
        /\ \A c \in Cols : /\ r[c] \in Dom[c] \cup (IF c \in Nullable THEN {Null} ELSE {})
                           /\ c \in GenCols => r[c] = r[Generated[c]]
    BY <1>1 DEF Row
  <2>2. DOMAIN r = Cols
    BY <2>1
  <2>3. Has(r) /\ r # NoImage
    BY <1>1, <1>2, <2>2 DEF Has
  <2>4. \A c \in Cols : r[c] # Unreadable
    BY <2>1, CompensationAssumption
  <2>5. \A c \in Cols : r[c] = Null => c \in Nullable
    BY <2>1, CompensationAssumption
  <2> QED BY <1>1, <2>1, <2>3, <2>4, <2>5
<1> QED BY <1>1, <1>2, <1>3

\* A row is all its columns that are not generated.
LEMMA RowIsItsColumns ==
  ASSUME NEW r \in Row, NEW s \in Row, \A c \in Cols \ GenCols : r[c] = s[c]
  PROVE  r = s
<1>1. ASSUME NEW c \in Cols PROVE r[c] = s[c]
  BY RowFacts
<1>2. r \in [Cols -> Value] /\ s \in [Cols -> Value]
  BY RowFacts
<1> QED BY <1>1, <1>2

\* Writing all columns of y that are not generated makes y, whatever was there.
LEMMA AssignedIs ==
  ASSUME NEW y \in Row, NEW r, NEW img, DOMAIN img \cap GenCols = {},
         \A c \in Cols \ GenCols : c \in DOMAIN img /\ img[c] = y[c]
  PROVE  Assigned(r, img) = y
<1> DEFINE f == [c \in Cols |-> IF c \in DOMAIN img THEN img[c] ELSE r[c]]
<1>1. \A c \in Cols \ GenCols : f[c] = y[c]
  OBVIOUS
<1>2. ASSUME NEW c \in Cols PROVE Regenerated(f)[c] = y[c]
  <2>1. Regenerated(f)[c] = IF c \in GenCols THEN f[Generated[c]] ELSE f[c]
    BY DEF Regenerated
  <2> HIDE DEF f
  <2> QED BY <1>1, <2>1, RowFacts
<1>3. y = [c \in Cols |-> y[c]]
  BY RowFacts
<1>4. Regenerated(f) = [c \in Cols |-> Regenerated(f)[c]]
  BY DEF Regenerated
<1>5. Assigned(r, img) = Regenerated(f)
  BY DEF Assigned
<1> HIDE DEF f
<1> QED BY <1>2, <1>3, <1>4, <1>5
-----------------------------------------------------------------------------
(* Walks.                                                                   *)

\* A walk can be walked back.
LEMMA WalkBack ==
  ASSUME NEW n \in Nat, NEW h, NEW out, NEW in, IsWalk(h, out, in, n)
  PROVE  IsWalk([i \in 0..n |-> h[n - i]], [i \in 1..n |-> in[n + 1 - i]],
                [i \in 1..n |-> out[n + 1 - i]], n)
<1> DEFINE k == [i \in 0..n |-> h[n - i]]
           o == [i \in 1..n |-> in[n + 1 - i]]
           y == [i \in 1..n |-> out[n + 1 - i]]
<1>1. k \in [0..n -> SUBSET Row] /\ o \in [1..n -> Side] /\ y \in [1..n -> Side]
      /\ \A i \in 0..n : Legal(k[i])
  <2>1. \A i \in 0..n : n - i \in 0..n
    OBVIOUS
  <2>2. \A i \in 1..n : n + 1 - i \in 1..n
    OBVIOUS
  <2> QED BY <2>1, <2>2 DEF IsWalk
<1>2. ASSUME NEW i \in 1..n
      PROVE  Moves(k[i - 1], o[i], y[i], k[i])
  <2>1. /\ i - 1 \in 0..n /\ i \in 0..n /\ n + 1 - i \in 1..n /\ n - (i - 1) = n + 1 - i
        /\ n - i = (n + 1 - i) - 1 /\ n - i \in 0..n
    OBVIOUS
  <2>2. Moves(h[n - i], out[n + 1 - i], in[n + 1 - i], h[n + 1 - i])
    BY <2>1 DEF IsWalk
  <2>3. k[i - 1] = h[n + 1 - i] /\ k[i] = h[n - i] /\ o[i] = in[n + 1 - i] /\ y[i] = out[n + 1 - i]
    BY <2>1
  <2>4. h[n - i] \subseteq Row /\ None \notin Row
    BY <2>1, RowFacts DEF IsWalk
  <2> HIDE DEF k, o, y
  <2> QED BY <2>2, <2>3, <2>4 DEF Moves, Changed
<1> HIDE DEF k, o, y
<1>3. IsWalk(k, o, y, n)
  BY <1>1, <1>2 DEF IsWalk
<1> QED BY <1>3 DEF k, o, y

\* The same steps taken from any table lead to the same net change of it.
LEMMA NetChange ==
  ASSUME NEW n \in Nat, NEW h, NEW out, NEW in, IsWalk(h, out, in, n),
         NEW a, a[0] \subseteq Row, \A i \in 1..n : Moves(a[i - 1], out[i], in[i], a[i])
  PROVE  h[0] \ h[n] \subseteq a[0] /\ a[n] = (a[0] \ (h[0] \ h[n])) \cup (h[n] \ h[0])
<1> DEFINE P(i) == /\ h[0] \ h[i] \subseteq a[0] /\ (h[i] \ h[0]) \cap a[0] = {}
                   /\ a[i] = (a[0] \ (h[0] \ h[i])) \cup (h[i] \ h[0])
           S    == {i \in 0..n : P(i)}
<1>1. 0 \in S
  OBVIOUS
<1>2. ASSUME NEW i \in 1..n, i - 1 \in S PROVE i \in S
  <2>1. P(i - 1)
    BY <1>2
  <2>2. Moves(h[i - 1], out[i], in[i], h[i]) /\ Moves(a[i - 1], out[i], in[i], a[i])
    BY DEF IsWalk
  <2>3. /\ h[i] = (h[i - 1] \ {out[i]}) \cup ({in[i]} \ {None})
        /\ a[i] = (a[i - 1] \ {out[i]}) \cup ({in[i]} \ {None})
        /\ out[i] # None => out[i] \in h[i - 1] /\ out[i] \in a[i - 1]
        /\ in[i] \notin h[i - 1] /\ in[i] \notin a[i - 1]
    BY <2>2 DEF Moves, Changed
  <2>4. None \notin h[i - 1] /\ None \notin h[0] /\ None \notin a[0]
    <3>1. i - 1 \in 0..n /\ 0 \in 0..n
      OBVIOUS
    <3> QED BY <3>1, RowFacts DEF IsWalk
  <2>5. P(i)
    BY <2>1, <2>3, <2>4
  <2> QED BY <2>5
<1> HIDE DEF S
<1>3. n \in S
  BY <1>1, <1>2, InductionTo
<1> QED BY <1>3 DEF S

-----------------------------------------------------------------------------
(* One operation.                                                           *)

\* op can only take x away and bring y.
Acts(op, x, y) ==
  /\ op.kind = "insert" <=> x = None
  /\ op.kind = "delete" <=> y = None
  /\ x # None => \A r \in Row : Matches(r, Predicate(op)) => r = x
  /\ y # None => \A c \in Cols \ GenCols : c \in DOMAIN op.write /\ op.write[c] = y[c]

Table(t) == [ok |-> TRUE, rows |-> t]

\* An operation that succeeds does what it can do, and leaves a legal table.
LEMMA ApplyOpLegal ==
  ASSUME NEW t \in SUBSET Row, NEW op, ApplyOp(Table(t), op).ok
  PROVE  /\ ApplyOp(Table(t), op).rows \subseteq Row /\ Legal(ApplyOp(Table(t), op).rows)
         /\ ApplyOp(Table(t), op) = Table(ApplyOp(Table(t), op).rows)
<1> DEFINE hit == Selected(t, Predicate(op))
           old == IF op.kind = "insert" THEN None ELSE CHOOSE r \in hit : TRUE
           new == IF op.kind = "delete" THEN None
                  ELSE Assigned(IF old = None THEN [c \in Cols |-> Null] ELSE old, op.write)
<1>1. /\ Change(t, old, new)
      /\ ApplyOp(Table(t), op) = [ok |-> TRUE, rows |-> Changed(t, old, new)]
  BY DEF ApplyOp, Table, Failed
<1> HIDE DEF old, new
<1>2. Changed(t, old, new) \subseteq Row /\ Legal(Changed(t, old, new))
  BY <1>1 DEF Change, Changed
<1>3. ApplyOp(Table(t), op) = Table(Changed(t, old, new))
  BY <1>1 DEF Table
<1>4. ApplyOp(Table(t), op).rows = Changed(t, old, new)
  BY <1>3 DEF Table
<1> QED BY <1>2, <1>3, <1>4

LEMMA ApplyOpMoves ==
  ASSUME NEW t \in SUBSET Row, NEW op, NEW x \in Side, NEW y \in Side, Acts(op, x, y),
         ApplyOp(Table(t), op).ok
  PROVE  Moves(t, x, y, ApplyOp(Table(t), op).rows)
<1> DEFINE hit == Selected(t, Predicate(op))
           old == IF op.kind = "insert" THEN None ELSE CHOOSE r \in hit : TRUE
           new == IF op.kind = "delete" THEN None
                  ELSE Assigned(IF old = None THEN [c \in Cols |-> Null] ELSE old, op.write)
<1>1. /\ Change(t, old, new) /\ DOMAIN op.write \cap GenCols = {}
      /\ op.kind # "insert" => \E r \in hit : hit = {r}
      /\ ApplyOp(Table(t), op) = [ok |-> TRUE, rows |-> Changed(t, old, new)]
  BY DEF ApplyOp, Table, Failed
<1>2. old = x
  <2>1. CASE op.kind = "insert"
    BY <2>1 DEF Acts
  <2>2. CASE op.kind # "insert"
    <3>1. PICK r \in hit : hit = {r}
      BY <1>1, <2>2
    <3>2. r \in Row /\ Matches(r, Predicate(op)) /\ x # None
      BY <2>2 DEF Selected, Acts
    <3>3. r = x
      BY <3>2 DEF Acts
    <3> QED BY <2>2, <3>1, <3>3
  <2> QED BY <2>1, <2>2
<1>3. new = y
  <2>1. CASE op.kind = "delete"
    BY <2>1 DEF Acts
  <2>2. CASE op.kind # "delete"
    <3>1. y \in Row /\ \A c \in Cols \ GenCols : c \in DOMAIN op.write /\ op.write[c] = y[c]
      BY <2>2 DEF Acts, Side
    <3> QED BY <1>1, <2>2, <3>1, AssignedIs
  <2> QED BY <2>1, <2>2
<1> HIDE DEF old, new
<1>4. None \notin t
  BY RowFacts
<1> QED BY <1>1, <1>2, <1>3, <1>4 DEF Change, Moves

\* An operation that finds its row, and whose change is legal, succeeds.
LEMMA ApplyOpSucceeds ==
  ASSUME NEW t \in SUBSET Row, NEW op, NEW x \in Side, NEW y \in Side, NEW u, Acts(op, x, y),
         Moves(t, x, y, u), Legal(u), DOMAIN op.write \cap GenCols = {},
         x = None => Selected(t, op.key) = {},
         x # None => Matches(x, Predicate(op))
  PROVE  ApplyOp(Table(t), op) = Table(u)
<1> DEFINE hit == Selected(t, Predicate(op))
           old == IF op.kind = "insert" THEN None ELSE CHOOSE r \in hit : TRUE
           new == IF op.kind = "delete" THEN None
                  ELSE Assigned(IF old = None THEN [c \in Cols |-> Null] ELSE old, op.write)
<1>1. op.kind # "insert" => hit = {x}
  <2> SUFFICES ASSUME op.kind # "insert" PROVE hit = {x}
    OBVIOUS
  <2>1. x # None /\ x \in t /\ Matches(x, Predicate(op))
    BY DEF Acts, Moves
  <2>2. \A r \in hit : r = x
    BY <2>1 DEF Acts, Selected
  <2> QED BY <2>1, <2>2 DEF Selected
<1>2. old = x
  BY <1>1 DEF Acts
<1>3. new = y
  <2>1. CASE op.kind = "delete"
    BY <2>1 DEF Acts
  <2>2. CASE op.kind # "delete"
    <3>1. y \in Row /\ \A c \in Cols \ GenCols : c \in DOMAIN op.write /\ op.write[c] = y[c]
      BY <2>2 DEF Acts, Side
    <3> QED BY <2>2, <3>1, AssignedIs
  <2> QED BY <2>1, <2>2
<1>4. op.kind = "insert" => Selected(t, op.key) = {}
  BY DEF Acts
<1>5. ApplyOp(Table(t), op) = IF ~Change(t, old, new) THEN Failed ELSE Table(Changed(t, old, new))
  BY <1>1, <1>4 DEF ApplyOp, Table
<1> HIDE DEF old, new
<1>6. u = Changed(t, x, y) /\ Change(t, x, y)
  BY DEF Change, Moves, Changed, Side
<1> QED BY <1>2, <1>3, <1>5, <1>6

-----------------------------------------------------------------------------
(* All operations of a plan.                                                *)

\* What Execute makes of the rows, operation after operation.
Results(t, ops, a) ==
  /\ a[0] = Table(t)
  /\ \A i \in 1 .. Len(ops) : a[i] = ApplyOp(a[i - 1], ops[i])

\* Execute is the last of the results, which there always are.
LEMMA ExecuteResult ==
  ASSUME NEW t, NEW ops, Len(ops) \in Nat
  PROVE  \E a : Results(t, ops, a) /\ Execute(t, ops) = a[Len(ops)]
<1> DEFINE Next_(a, i) == IF i = 0 THEN Table(t) ELSE ApplyOp(a[i - 1], ops[i])
           Trace(a, n) == a = [i \in 0..n |-> Next_(a, i)]
           S == {n \in 0 .. Len(ops) : \E a : Trace(a, n)}
<1>1. 0 \in S
  <2> DEFINE a == [i \in 0..0 |-> Table(t)]
  <2>1. \A i \in 0..0 : i = 0
    OBVIOUS
  <2>2. \A i \in 0..0 : a[i] = Next_(a, i)
    BY <2>1
  <2>3. Trace(a, 0)
    BY <2>2
  <2>4. 0 \in 0 .. Len(ops)
    OBVIOUS
  <2> HIDE DEF a
  <2> QED BY <2>3, <2>4
<1>2. ASSUME NEW n \in 1 .. Len(ops), n - 1 \in S PROVE n \in S
  <2>1. PICK a : Trace(a, n - 1)
    BY <1>2
  <2> DEFINE e == [i \in 0..n |-> IF i = n THEN ApplyOp(a[n - 1], ops[n]) ELSE a[i]]
  <2>2. ASSUME NEW i \in 0..n PROVE e[i] = Next_(e, i)
    <3>1. CASE i = n
      <4>1. e[n - 1] = a[n - 1]
        OBVIOUS
      <4> QED BY <3>1, <4>1
    <3>2. CASE i # n
      <4>1. i \in 0 .. n - 1 /\ (i # 0 => i - 1 \in 0 .. n - 1 /\ i - 1 # n)
        BY <3>2
      <4>2. a[i] = Next_(a, i)
        BY <2>1, <4>1
      <4>3. i # 0 => e[i - 1] = a[i - 1]
        BY <4>1
      <4> QED BY <3>2, <4>1, <4>2, <4>3
    <3> QED BY <3>1, <3>2
  <2>3. Trace(e, n)
    BY <2>2
  <2> HIDE DEF e
  <2> QED BY <2>3
<1>3. Len(ops) \in S
  <2> HIDE DEF S
  <2>1. \A i \in 0 .. Len(ops) : i \in S
    BY <1>1, <1>2, InductionTo
  <2> QED BY <2>1
<1> DEFINE r == CHOOSE a : Trace(a, Len(ops))
<1>4. Trace(r, Len(ops))
  BY <1>3
<1>5. Execute(t, ops) = r[Len(ops)]
  BY DEF Execute, Table
<1>6. Results(t, ops, r)
  <2> HIDE DEF r
  <2>1. r[0] = Next_(r, 0)
    BY <1>4
  <2>2. \A i \in 1 .. Len(ops) : r[i] = Next_(r, i) /\ i # 0
    BY <1>4
  <2> QED BY <2>1, <2>2 DEF Results
<1> QED BY <1>5, <1>6

\* If the last result is a table, so are all before it, and all are legal.
LEMMA ResultsAreTables ==
  ASSUME NEW t \in SUBSET Row, Legal(t), NEW ops, Len(ops) \in Nat, NEW a, Results(t, ops, a),
         a[Len(ops)].ok
  PROVE  \A i \in 0 .. Len(ops) : a[i].ok /\ a[i].rows \subseteq Row /\ Legal(a[i].rows)
                                 /\ a[i] = Table(a[i].rows)
<1> DEFINE n == Len(ops)
           B == {i \in 0 .. n : a[n - i].ok}
           S == {i \in 0 .. n : /\ a[i].rows \subseteq Row /\ Legal(a[i].rows)
                                /\ a[i] = Table(a[i].rows)}
<1>1. \A i \in 0 .. n : i \in B
  <2>1. 0 \in B
    OBVIOUS
  <2>2. ASSUME NEW i \in 1 .. n, i - 1 \in B PROVE i \in B
    <3>1. n - (i - 1) \in 1 .. n /\ (n - (i - 1)) - 1 = n - i /\ n - i \in 0 .. n
      OBVIOUS
    <3>2. a[n - (i - 1)] = ApplyOp(a[n - i], ops[n - (i - 1)])
      BY <3>1 DEF Results
    <3>3. a[n - (i - 1)].ok
      BY <2>2
    <3>4. a[n - i].ok
      BY <3>2, <3>3 DEF ApplyOp, Failed
    <3> QED BY <3>4
  <2> HIDE DEF B
  <2> QED BY <2>1, <2>2, InductionTo
<1>2. \A i \in 0 .. n : a[i].ok
  <2>1. \A i \in 0 .. n : n - i \in 0 .. n /\ n - (n - i) = i
    OBVIOUS
  <2> QED BY <1>1, <2>1
<1>3. \A i \in 0 .. n : i \in S
  <2>1. 0 \in S
    <3>1. a[0] = Table(t) /\ Table(t).rows = t /\ 0 \in 0 .. n
      BY DEF Results, Table
    <3> QED BY <3>1
  <2>2. ASSUME NEW i \in 1 .. n, i - 1 \in S PROVE i \in S
    <3>1. a[i] = ApplyOp(Table(a[i - 1].rows), ops[i]) /\ a[i].ok /\ a[i - 1].rows \in SUBSET Row
      BY <1>2, <2>2 DEF Results
    <3> QED BY <3>1, ApplyOpLegal
  <2> HIDE DEF S
  <2> QED BY <2>1, <2>2, InductionTo
<1> QED BY <1>2, <1>3

\* If every operation can only do a step of a walk, the plan makes the walk's net change, of
\* whatever table it is applied to.
LEMMA PlanEffect ==
  ASSUME NEW t \in SUBSET Row, Legal(t), NEW ops, Len(ops) \in Nat,
         NEW h, NEW out, NEW in, IsWalk(h, out, in, Len(ops)),
         \A i \in 1 .. Len(ops) : Acts(ops[i], out[i], in[i]), Execute(t, ops).ok
  PROVE  /\ h[0] \ h[Len(ops)] \subseteq t
         /\ Execute(t, ops).rows = (t \ (h[0] \ h[Len(ops)])) \cup (h[Len(ops)] \ h[0])
<1> DEFINE n == Len(ops)
<1>1. PICK a : Results(t, ops, a) /\ Execute(t, ops) = a[n]
  BY ExecuteResult
<1>2. \A i \in 0 .. n : a[i].ok /\ a[i].rows \subseteq Row /\ a[i] = Table(a[i].rows)
  BY <1>1, ResultsAreTables
<1> DEFINE b == [i \in 0 .. n |-> a[i].rows]
<1>3. b[0] = t /\ b[n] = Execute(t, ops).rows
  BY <1>1 DEF Results, Table
<1>4. ASSUME NEW i \in 1 .. n PROVE Moves(b[i - 1], out[i], in[i], b[i])
  <2>1. /\ i - 1 \in 0 .. n /\ i \in 0 .. n /\ out[i] \in Side /\ in[i] \in Side
        /\ b[i - 1] = a[i - 1].rows /\ b[i] = a[i].rows
    BY DEF IsWalk
  <2>2. a[i] = ApplyOp(Table(b[i - 1]), ops[i]) /\ a[i].ok /\ b[i - 1] \in SUBSET Row
    BY <1>1, <1>2, <2>1 DEF Results
  <2> HIDE DEF b
  <2> QED BY <2>1, <2>2, ApplyOpMoves
<1> HIDE DEF b
<1> QED BY <1>3, <1>4, NetChange

-----------------------------------------------------------------------------
(* Plans that fit a walk.                                                   *)

\* op is bound to the row x and its key K, or to the key of the row it brings.
Fits(op, x, y, K) ==
  /\ Acts(op, x, y) /\ DOMAIN op.key = K
  /\ x # None => Matches(x, op.key) /\ Matches(x, op.expect)
  /\ x = None => \A c \in K : op.key[c] = y[c]

LEMMA PredicateIs ==
  ASSUME NEW op
  PROVE  /\ DOMAIN Predicate(op) = DOMAIN op.key \cup DOMAIN op.expect
         /\ \A c \in DOMAIN op.key : Predicate(op)[c] = op.key[c]
         /\ \A c \in DOMAIN op.expect \ DOMAIN op.key : Predicate(op)[c] = op.expect[c]
         /\ \A r : Matches(r, op.key) /\ Matches(r, op.expect) => Matches(r, Predicate(op))
BY DEF Predicate, Matches

\* A row that is brought has its key for itself, if the key holds no NULL.
LEMMA KeyIsFree ==
  ASSUME NEW K \in ToSet(UniqueKeys), NEW y, NEW u, y \in u, Legal(u), NEW r \in u,
         NEW key, DOMAIN key = K, \A c \in K : key[c] = y[c] /\ key[c] # Null, Matches(r, key)
  PROVE  r = y
BY DEF Legal, Collide, Matches

\* A plan of operations that fit a walk, each of which may be done, does the walk.
LEMMA PlanSucceeds ==
  ASSUME NEW ops, Len(ops) \in Nat, NEW K \in ToSet(UniqueKeys),
         NEW h, NEW out, NEW in, IsWalk(h, out, in, Len(ops)),
         \A i \in 1 .. Len(ops) : /\ Fits(ops[i], out[i], in[i], K)
                                  /\ DOMAIN ops[i].write \cap GenCols = {}
                                  /\ Null \notin Range(ops[i].key)
  PROVE  Execute(h[0], ops) = Table(h[Len(ops)])
<1> DEFINE n == Len(ops)
<1>1. PICK a : Results(h[0], ops, a) /\ Execute(h[0], ops) = a[n]
  BY ExecuteResult
<1> DEFINE S == {i \in 0 .. n : a[i] = Table(h[i])}
<1>2. 0 \in S
  BY <1>1 DEF Results
<1>3. ASSUME NEW i \in 1 .. n, i - 1 \in S PROVE i \in S
  <2> DEFINE op == ops[i]
             x == out[i]
             y == in[i]
  <2>1. /\ i - 1 \in 0 .. n /\ i \in 0 .. n /\ x \in Side /\ y \in Side
        /\ h[i - 1] \in SUBSET Row /\ Legal(h[i]) /\ Moves(h[i - 1], x, y, h[i])
        /\ Fits(op, x, y, K) /\ DOMAIN op.write \cap GenCols = {} /\ Null \notin Range(op.key)
    BY DEF IsWalk
  <2>2. a[i] = ApplyOp(Table(h[i - 1]), op)
    BY <1>1, <1>3 DEF Results
  <2> HIDE DEF op, x, y
  <2>3. x = None => Selected(h[i - 1], op.key) = {}
    <3> SUFFICES ASSUME x = None, NEW r \in h[i - 1], Matches(r, op.key) PROVE FALSE
      BY DEF Selected
    <3>1. y # None /\ y \in h[i] /\ r \in h[i] /\ y \notin h[i - 1]
      BY <2>1, RowFacts DEF Moves, Changed
    <3>2. \A c \in K : op.key[c] = y[c] /\ op.key[c] # Null
      BY <2>1 DEF Fits, Range
    <3>3. r = y
      BY <2>1, <3>1, <3>2, KeyIsFree DEF Fits
    <3> QED BY <3>1, <3>3
  <2>4. x # None => Matches(x, Predicate(op))
    BY <2>1, PredicateIs DEF Fits
  <2>5. Acts(op, x, y)
    BY <2>1 DEF Fits
  <2>6. ApplyOp(Table(h[i - 1]), op) = Table(h[i])
    BY <2>1, <2>3, <2>4, <2>5, ApplyOpSucceeds
  <2> QED BY <2>2, <2>6
<1> HIDE DEF S
<1>4. \A i \in 0 .. n : i \in S
  BY <1>2, <1>3, InductionTo
<1> QED BY <1>1, <1>4 DEF S

\* A row that a walk has on one end of a part of it and not on the other was brought or taken.
LEMMA WalkTouches ==
  ASSUME NEW n \in Nat, NEW h, NEW out, NEW in, IsWalk(h, out, in, n), NEW m \in 0 .. n,
         NEW r \in Row, (r \in h[0]) # (r \in h[m])
  PROVE  \E j \in 1 .. m : r \in {out[j], in[j]}
<1> SUFFICES ASSUME \A j \in 1 .. m : r \notin {out[j], in[j]} PROVE FALSE
  OBVIOUS
<1> DEFINE S == {i \in 0 .. m : (r \in h[0]) = (r \in h[i])}
<1>1. 0 \in S
  OBVIOUS
<1>2. ASSUME NEW i \in 1 .. m, i - 1 \in S PROVE i \in S
  <2>1. Moves(h[i - 1], out[i], in[i], h[i])
    BY DEF IsWalk
  <2>2. (r \in h[i - 1]) = (r \in h[i])
    BY <2>1 DEF Moves, Changed
  <2> QED BY <1>2, <2>2
<1>3. \A i \in 0 .. m : i \in S
  <2> HIDE DEF S
  <2> QED BY <1>1, <1>2, InductionTo
<1>4. m \in S
  BY <1>3
<1> QED BY <1>4

-----------------------------------------------------------------------------
(* What the source transaction did, and the plans made of it.               *)

RowChange == [before : Row \cup {NoImage}, after : Row \cup {NoImage}]
RowOr(img) == IF Has(img) THEN img ELSE None

\* The rows the changes took away and those they brought.
Olds == [i \in 1 .. Len(changes) |-> RowOr(changes[i].before)]
News == [i \in 1 .. Len(changes) |-> RowOr(changes[i].after)]

\* The changes are a walk from `before` to `after`.
Walked(h) == /\ IsWalk(h, Olds, News, Len(changes))
             /\ h[0] = before /\ h[Len(changes)] = after

KeyCols == UniqueKeys[ChooseKey(changes)]

\* The root plan is built from the changes, and a safe plan from the root plan.
Rooted == \E mode \in {"revert", "reapply"} :
            root = Plan(mode, "safe", 0, BuildOperations(changes, mode))
Derived == plan.class = "safe" =>
             \/ plan.mode = root.mode /\ plan.ops = root.ops
             \/ /\ root.mode = "revert" /\ plan.mode = "reapply"
                /\ Invertible(root.ops) /\ plan.ops = InvertedOperations(root.ops)

Inv ==
  /\ TypeOK
  /\ changes \in Seq(RowChange) /\ \E h : Walked(h)
  /\ root = None => plan = None /\ table = after /\ ~applied
  /\ root # None => /\ root \in Plans /\ plan \in Plans
                    /\ changes # <<>> /\ ChooseKey(changes) # 0 /\ Rooted /\ Derived

LEMMA ChosenKey ==
  ASSUME ChooseKey(changes) # 0
  PROVE  KeyCols \in ToSet(UniqueKeys) /\ KeyCols \in SUBSET Cols
<1> DEFINE img == RowForKey(changes[1])
           I == {i \in 1 .. Len(UniqueKeys) :
                   UniqueKeys[i] \subseteq DOMAIN img /\ \A c \in UniqueKeys[i] : NotNull(img, c)}
<1>1. ChooseKey(changes) = IF I # {} THEN Min(I) ELSE 0
  BY DEF ChooseKey, SelectUniqueKey, SelectInSeq
<1>2. UniqueKeys \in Seq((SUBSET Cols) \ {{}})
  BY CompensationAssumption
<1>3. I # {} /\ I \in SUBSET Nat
  BY <1>1, <1>2
<1>4. Min(I) \in I
  <2> HIDE DEF I
  <2> QED BY <1>3, LeastElement DEF Min
<1>5. ChooseKey(changes) \in 1 .. Len(UniqueKeys)
  BY <1>1, <1>3, <1>4
<1> QED BY <1>2, <1>5 DEF ToSet, KeyCols

\* The two rows of a change, and its kind.
LEMMA ChangeFacts ==
  ASSUME changes \in Seq(RowChange), NEW h, Walked(h), NEW i \in 1 .. Len(changes)
  PROVE  /\ Olds[i] \in Side /\ News[i] \in Side /\ Olds[i] # News[i]
         /\ changes[i].before = ImageOf(Olds[i]) /\ changes[i].after = ImageOf(News[i])
         /\ Has(changes[i].before) <=> Olds[i] # None
         /\ Has(changes[i].after) <=> News[i] # None
         /\ KindOf(changes[i]) = IF Olds[i] = None THEN "insert"
                                 ELSE IF News[i] = None THEN "delete" ELSE "update"
         /\ RowForKey(changes[i]) = IF News[i] # None THEN News[i] ELSE Olds[i]
<1>1. changes[i] \in RowChange
  OBVIOUS
<1>2. /\ changes[i].before \in Row \cup {NoImage} /\ changes[i].after \in Row \cup {NoImage}
  BY <1>1 DEF RowChange
<1>3. Olds[i] = RowOr(changes[i].before) /\ News[i] = RowOr(changes[i].after)
  BY DEF Olds, News
<1>4. \A img \in Row \cup {NoImage} : /\ RowOr(img) \in Side /\ img = ImageOf(RowOr(img))
                                      /\ Has(img) <=> RowOr(img) # None
  BY RowFacts DEF RowOr, Side, ImageOf
<1>5. Olds[i] # News[i]
  BY DEF Walked, IsWalk, Moves
<1>6. /\ Olds[i] \in Side /\ News[i] \in Side
      /\ changes[i].before = ImageOf(Olds[i]) /\ changes[i].after = ImageOf(News[i])
      /\ Has(changes[i].before) <=> Olds[i] # None
      /\ Has(changes[i].after) <=> News[i] # None
  BY <1>2, <1>3, <1>4
<1>7. KindOf(changes[i]) = IF Olds[i] = None THEN "insert"
                           ELSE IF News[i] = None THEN "delete" ELSE "update"
  <2>1. CASE Olds[i] = None
    BY <1>5, <1>6, <2>1 DEF KindOf
  <2>2. CASE Olds[i] # None /\ News[i] = None
    BY <1>6, <2>2 DEF KindOf
  <2>3. CASE Olds[i] # None /\ News[i] # None
    BY <1>6, <2>3 DEF KindOf
  <2> QED BY <2>1, <2>2, <2>3
<1>8. RowForKey(changes[i]) = IF News[i] # None THEN News[i] ELSE Olds[i]
  BY <1>5, <1>6 DEF RowForKey, ImageOf
<1> QED BY <1>5, <1>6, <1>7, <1>8

-----------------------------------------------------------------------------
(* The operations made of one row change.                                   *)

LEMMA ImageFacts ==
  ASSUME NEW x \in Side
  PROVE  /\ x # None => ImageOf(x) = x /\ DOMAIN x = Cols /\ Matches(x, ImageOf(x))
                        /\ DOMAIN WithoutGenerated(ImageOf(x)) = Cols \ GenCols
                        /\ \A c \in Cols \ GenCols : WithoutGenerated(ImageOf(x))[c] = x[c]
         /\ DOMAIN WithoutGenerated(ImageOf(x)) \cap GenCols = {}
         /\ \A K : /\ DOMAIN Restrict(x, K) = K /\ \A c \in K : Restrict(x, K)[c] = x[c]
                   /\ Matches(x, Restrict(x, K))
BY RowFacts DEF ImageOf, WithoutGenerated, Restrict, Side, Matches

\* A row is found under all its columns.
LEMMA WholeRow ==
  ASSUME NEW x \in Row, NEW r \in Row, NEW img, Matches(r, img), Matches(x, img),
         Cols \ GenCols \subseteq DOMAIN img
  PROVE  r = x
<1>1. \A c \in Cols \ GenCols : r[c] = x[c]
  BY DEF Matches
<1> QED BY <1>1, RowIsItsColumns

\* An operation of the right kind, bound to the right row, that writes the right row.
LEMMA FitsIf ==
  ASSUME NEW x \in Side, NEW y \in Side, NEW K, NEW op, DOMAIN op.key = K,
         op.kind = "insert" <=> x = None, op.kind = "delete" <=> y = None,
         x # None => /\ Matches(x, op.key) /\ Matches(x, op.expect)
                     /\ Cols \ GenCols \subseteq DOMAIN op.expect,
         x = None => \A c \in K : op.key[c] = y[c],
         y # None => \A c \in Cols \ GenCols : c \in DOMAIN op.write /\ op.write[c] = y[c]
  PROVE  Fits(op, x, y, K)
<1>1. ASSUME x # None, NEW r \in Row, Matches(r, Predicate(op)) PROVE r = x
  <2>1. Matches(x, Predicate(op)) /\ Cols \ GenCols \subseteq DOMAIN Predicate(op)
    BY <1>1, PredicateIs
  <2> QED BY <1>1, <2>1, WholeRow DEF Side
<1>2. Acts(op, x, y)
  BY <1>1 DEF Acts
<1> QED BY <1>2 DEF Fits

LEMMA RevertOpFits ==
  ASSUME changes \in Seq(RowChange), NEW h, Walked(h), NEW i \in 1 .. Len(changes), NEW K
  PROVE  /\ Fits(BuildOne(changes[i], "revert", K), News[i], Olds[i], K)
         /\ DOMAIN BuildOne(changes[i], "revert", K).write \cap GenCols = {}
<1> DEFINE op == BuildOne(changes[i], "revert", K)
           x == News[i]
           y == Olds[i]
<1>1. /\ op.kind = Opposite(KindOf(changes[i])) /\ op.key = Restrict(RowForKey(changes[i]), K)
      /\ op.expect = changes[i].after /\ op.write = WithoutGenerated(changes[i].before)
  BY DEF BuildOne
<1>2. /\ x \in Side /\ y \in Side /\ x # y
      /\ op.kind = "insert" <=> x = None
      /\ op.kind = "delete" <=> y = None
      /\ op.key = Restrict(IF x # None THEN x ELSE y, K)
      /\ op.expect = ImageOf(x) /\ op.write = WithoutGenerated(ImageOf(y))
  BY <1>1, ChangeFacts DEF Opposite
<1> HIDE DEF op, x, y
<1>3. /\ DOMAIN op.key = K
      /\ x # None => /\ Matches(x, op.key) /\ Matches(x, op.expect)
                     /\ Cols \ GenCols \subseteq DOMAIN op.expect
      /\ x = None => \A c \in K : op.key[c] = y[c]
      /\ y # None => \A c \in Cols \ GenCols : c \in DOMAIN op.write /\ op.write[c] = y[c]
      /\ DOMAIN op.write \cap GenCols = {}
  BY <1>2, ImageFacts
<1>4. Fits(op, x, y, K)
  BY <1>2, <1>3, FitsIf
<1> QED BY <1>3, <1>4 DEF op, x, y

LEMMA InvertedOpFits ==
  ASSUME changes \in Seq(RowChange), NEW h, Walked(h), NEW i \in 1 .. Len(changes), NEW K,
         NEW rop, rop = BuildOne(changes[i], "revert", K),
         K \subseteq DOMAIN (IF rop.kind = "delete" THEN rop.expect ELSE rop.write)
  PROVE  Fits(Invert(rop), Olds[i], News[i], K)
<1> DEFINE op == Invert(rop)
           x == Olds[i]
           y == News[i]
<1>1. /\ rop.kind = Opposite(KindOf(changes[i])) /\ DOMAIN rop.key = K
      /\ rop.expect = changes[i].after /\ rop.write = WithoutGenerated(changes[i].before)
  BY DEF BuildOne, Restrict
<1>2. /\ op.kind = Opposite(rop.kind) /\ op.expect = rop.write /\ op.write = rop.expect
      /\ op.key = Restrict(IF rop.kind = "delete" THEN rop.expect ELSE rop.write, K)
  BY <1>1 DEF Invert
<1>3. /\ x \in Side /\ y \in Side /\ x # y
      /\ op.kind = "insert" <=> x = None
      /\ op.kind = "delete" <=> y = None
      /\ rop.kind = "delete" <=> x = None
      /\ rop.expect = ImageOf(y) /\ rop.write = WithoutGenerated(ImageOf(x))
  BY <1>1, <1>2, ChangeFacts DEF Opposite
<1> HIDE DEF op, x, y
<1>4. DOMAIN op.key = K
  BY <1>2, ImageFacts DEF Restrict
<1>5. x # None => /\ Matches(x, op.key) /\ Matches(x, op.expect)
                  /\ Cols \ GenCols \subseteq DOMAIN op.expect
  <2> SUFFICES ASSUME x # None
               PROVE  /\ Matches(x, op.key) /\ Matches(x, op.expect)
                      /\ Cols \ GenCols \subseteq DOMAIN op.expect
    OBVIOUS
  <2>1. op.expect = WithoutGenerated(ImageOf(x)) /\ op.key = Restrict(op.expect, K)
        /\ K \subseteq DOMAIN op.expect
    BY <1>2, <1>3
  <2>2. /\ DOMAIN WithoutGenerated(ImageOf(x)) = Cols \ GenCols
        /\ \A c \in Cols \ GenCols : WithoutGenerated(ImageOf(x))[c] = x[c]
    BY <1>3, ImageFacts
  <2>3. DOMAIN op.expect = Cols \ GenCols /\ \A c \in Cols \ GenCols : op.expect[c] = x[c]
    BY <2>1, <2>2
  <2> QED BY <2>1, <2>3 DEF Matches, Restrict
<1>6. x = None => \A c \in K : op.key[c] = y[c]
  BY <1>2, <1>3, ImageFacts DEF Restrict
<1>7. y # None => \A c \in Cols \ GenCols : c \in DOMAIN op.write /\ op.write[c] = y[c]
  BY <1>2, <1>3, ImageFacts
<1>8. Fits(op, x, y, K)
  BY <1>3, <1>4, <1>5, <1>6, <1>7, FitsIf
<1> QED BY <1>8 DEF op, x, y

\* A reapply from the source transaction looks for its row under the key that the row gets: that
\* it fits is what Check finds out, if the key holds no NULL.
LEMMA ReapplyOpFits ==
  ASSUME changes \in Seq(RowChange), NEW h, Walked(h), NEW i \in 1 .. Len(changes),
         NEW K \in SUBSET Cols, NEW op, op = BuildOne(changes[i], "reapply", K),
         NEW t \in SUBSET Row, NEW row \in Readable(t, op), Conflict(op, row) = "none",
         Null \notin Range(op.key)
  PROVE  /\ Fits(op, Olds[i], News[i], K)
         /\ DOMAIN op.write \cap GenCols = {}
<1> DEFINE x == Olds[i]
           y == News[i]
<1>1. /\ op.kind = KindOf(changes[i]) /\ op.key = Restrict(RowForKey(changes[i]), K)
      /\ op.expect = changes[i].before /\ op.write = WithoutGenerated(changes[i].after)
  BY DEF BuildOne
<1>2. /\ x \in Side /\ y \in Side /\ x # y
      /\ op.kind = "insert" <=> x = None
      /\ op.kind = "delete" <=> y = None
      /\ op.key = Restrict(IF y # None THEN y ELSE x, K)
      /\ op.expect = ImageOf(x) /\ op.write = WithoutGenerated(ImageOf(y))
  BY <1>1, ChangeFacts
<1> HIDE DEF x, y
<1>3. /\ DOMAIN op.key = K
      /\ x = None => \A c \in K : op.key[c] = y[c]
      /\ x # None => Matches(x, op.expect) /\ DOMAIN op.expect = Cols /\ op.expect = x
      /\ y # None => \A c \in Cols \ GenCols : c \in DOMAIN op.write /\ op.write[c] = y[c]
      /\ DOMAIN op.write \cap GenCols = {}
  BY <1>2, ImageFacts
<1>4. x # None => Matches(x, op.key)
  <2> SUFFICES ASSUME x # None, NEW c \in K PROVE x[c] = op.key[c]
    BY <1>3 DEF Matches
  <2>1. row # None /\ Matches(ReadBack(row), op.expect)
    BY <1>2 DEF Conflict
  <2>2. Matches(row, op.key)
    BY <2>1 DEF Readable, Selected
  <2>3. row[c] = op.key[c] /\ op.key[c] # Null /\ ReadBack(row)[c] = x[c]
    BY <1>3, <2>1, <2>2 DEF Matches, Range
  <2> QED BY <2>3 DEF ReadBack
<1>5. Fits(op, x, y, K)
  BY <1>2, <1>3, <1>4, FitsIf
<1> QED BY <1>3, <1>5 DEF x, y

-----------------------------------------------------------------------------
(* A safe plan is a walk along the changes, or back along them.             *)

\* The rows that step i of the walk takes and brings.
Touched(out, in, i) == {out[i], in[i]} \ {None}

\* A walk from `from` to `to` whose steps the operations of the plan fit; under TouchedOnce no two
\* of them touch rows of one key.
PlanWalk(h, out, in, from, to) ==
  /\ IsWalk(h, out, in, Len(plan.ops)) /\ h[0] = from /\ h[Len(plan.ops)] = to
  /\ \A i \in 1 .. Len(plan.ops) : Fits(plan.ops[i], out[i], in[i], KeyCols)
  /\ TouchedOnce => \A i, j \in 1 .. Len(plan.ops) : i # j =>
                      \A r \in Touched(out, in, i), s \in Touched(out, in, j) :
                        Restrict(r, KeyCols) # Restrict(s, KeyCols)

LEMMA TouchedApart ==
  ASSUME changes \in Seq(RowChange), NEW h, Walked(h), TouchedOnce,
         NEW i \in 1 .. Len(changes), NEW j \in 1 .. Len(changes), i # j,
         NEW r \in Touched(Olds, News, i), NEW s \in Touched(Olds, News, j)
  PROVE  Restrict(r, KeyCols) # Restrict(s, KeyCols)
<1>1. ASSUME NEW k \in 1 .. Len(changes), NEW v \in Touched(Olds, News, k)
      PROVE  Restrict(v, KeyCols) \in KeysOf(changes[k])
  <2>1. v \in {changes[k].before, changes[k].after} \ {NoImage}
    <3>1. v # None /\ v \in {Olds[k], News[k]} /\ v \in Side
      BY <1>1, ChangeFacts DEF Touched
    <3>2. ImageOf(v) = v /\ v # NoImage
      BY <3>1, RowFacts DEF ImageOf, Side
    <3> QED BY <3>1, <3>2, ChangeFacts
  <2> QED BY <2>1 DEF KeysOf, KeyCols
<1>2. KeysOf(changes[i]) \cap KeysOf(changes[j]) = {}
  BY DEF TouchedOnce
<1> QED BY <1>1, <1>2

\* BuildOperations, row by row.
LEMMA BuiltOps ==
  ASSUME changes \in Seq(RowChange), NEW mode \in {"revert", "reapply"},
         NEW ops, ops = BuildOperations(changes, mode)
  PROVE  /\ DOMAIN ops = 1 .. Len(changes)
         /\ \A i \in 1 .. Len(changes) :
              ops[i] = BuildOne(changes[IF mode = "revert" THEN Len(changes) + 1 - i ELSE i],
                                mode, KeyCols)
<1> DEFINE rows == ExecutionOrder(changes, mode)
<1>1. DOMAIN rows = 1 .. Len(changes)
  BY DEF ExecutionOrder, Reverse
<1>2. \A i \in 1 .. Len(changes) :
        rows[i] = changes[IF mode = "revert" THEN Len(changes) + 1 - i ELSE i]
  BY DEF ExecutionOrder, Reverse
<1>3. ops = [i \in DOMAIN rows |-> BuildOne(rows[i], mode, KeyCols)]
  BY DEF BuildOperations, KeyCols
<1> HIDE DEF rows
<1> QED BY <1>1, <1>2, <1>3

LEMMA SafePlanWalks ==
  ASSUME Inv, plan # None, plan.class = "safe",
         root.mode = "revert" \/ (KeysNotNull /\ Ready(table, plan.ops))
  PROVE  \E h, out, in :
           IF plan.mode = "revert" THEN PlanWalk(h, out, in, after, before)
                                   ELSE PlanWalk(h, out, in, before, after)
<1> DEFINE n == Len(changes)
<1>1. /\ changes \in Seq(RowChange) /\ root # None /\ n \in Nat /\ table \in SUBSET Row
      /\ plan \in Plans /\ root \in Plans /\ ChooseKey(changes) # 0 /\ Rooted /\ Derived
  BY DEF Inv, TypeOK
<1>2. PICK g : Walked(g)
  BY DEF Inv
<1>3. IsWalk(g, Olds, News, n) /\ g[0] = before /\ g[n] = after
  BY <1>2 DEF Walked
<1>4. PICK mode \in {"revert", "reapply"} :
        root.mode = mode /\ root.ops = BuildOperations(changes, mode)
  BY <1>1 DEF Rooted, Plan
<1>5. KeyCols \in SUBSET Cols
  BY <1>1, ChosenKey
<1>6. /\ DOMAIN root.ops = 1 .. n
      /\ \A i \in 1 .. n :
           root.ops[i] = BuildOne(changes[IF mode = "revert" THEN n + 1 - i ELSE i], mode, KeyCols)
  BY <1>1, <1>4, BuiltOps
<1>7. root.ops \in Seq(Ops) /\ Len(root.ops) = n
  BY <1>1, <1>6 DEF Plans
<1>8. TouchedOnce => \A i, j \in 1 .. n : i # j =>
        \A r \in Touched(Olds, News, i), s \in Touched(Olds, News, j) :
          Restrict(r, KeyCols) # Restrict(s, KeyCols)
  BY <1>1, <1>2, TouchedApart
<1>9. CASE plan.mode = "revert" /\ mode = "revert"
  <2>1. plan.ops = root.ops /\ plan.mode = "revert" /\ Len(plan.ops) = n
    BY <1>1, <1>7, <1>9 DEF Derived
  <2> DEFINE h   == [i \in 0 .. n |-> g[n - i]]
             out == [i \in 1 .. n |-> News[n + 1 - i]]
             in  == [i \in 1 .. n |-> Olds[n + 1 - i]]
  <2>2. IsWalk(h, out, in, n)
    BY <1>1, <1>3, WalkBack
  <2>3. h[0] = after /\ h[n] = before
    BY <1>1, <1>3
  <2>4. ASSUME NEW i \in 1 .. n PROVE Fits(plan.ops[i], out[i], in[i], KeyCols)
    <3>1. n + 1 - i \in 1 .. n
      BY <1>1
    <3>2. plan.ops[i] = BuildOne(changes[n + 1 - i], "revert", KeyCols)
      BY <1>6, <1>9, <2>1
    <3>3. out[i] = News[n + 1 - i] /\ in[i] = Olds[n + 1 - i]
      OBVIOUS
    <3> HIDE DEF out, in
    <3> QED BY <1>1, <1>2, <3>1, <3>2, <3>3, RevertOpFits
  <2>5. ASSUME TouchedOnce, NEW i \in 1 .. n, NEW j \in 1 .. n, i # j,
               NEW r \in Touched(out, in, i), NEW s \in Touched(out, in, j)
        PROVE  Restrict(r, KeyCols) # Restrict(s, KeyCols)
    <3>1. n + 1 - i \in 1 .. n /\ n + 1 - j \in 1 .. n /\ n + 1 - i # n + 1 - j
      BY <1>1, <2>5
    <3>2. r \in Touched(Olds, News, n + 1 - i) /\ s \in Touched(Olds, News, n + 1 - j)
      BY <2>5 DEF Touched
    <3> QED BY <1>8, <2>5, <3>1, <3>2
  <2> HIDE DEF h, out, in
  <2>6. PlanWalk(h, out, in, after, before)
    BY <2>1, <2>2, <2>3, <2>4, <2>5 DEF PlanWalk
  <2> QED BY <2>1, <2>6
<1>10. CASE plan.mode = "reapply" /\ mode = "revert"
  <2>1. /\ Invertible(root.ops) /\ plan.ops = InvertedOperations(root.ops)
        /\ plan.mode # "revert"
    BY <1>1, <1>4, <1>10 DEF Derived
  <2>2. Len(plan.ops) = n
    BY <1>1, <1>6, <1>7, <2>1 DEF InvertedOperations, Plans
  <2>3. ASSUME NEW i \in 1 .. n PROVE Fits(plan.ops[i], Olds[i], News[i], KeyCols)
    <3> DEFINE rop == root.ops[n + 1 - i]
    <3>1. n + 1 - i \in 1 .. n /\ n + 1 - (n + 1 - i) = i
      BY <1>1
    <3>2. rop = BuildOne(changes[i], "revert", KeyCols)
      BY <1>6, <1>10, <3>1
    <3>3. plan.ops[i] = Invert(rop)
      BY <1>6, <1>7, <2>1, <3>1 DEF InvertedOperations
    <3>4. DOMAIN rop.key = KeyCols
      BY <3>2 DEF BuildOne, Restrict
    <3>5. KeyCols \subseteq DOMAIN (IF rop.kind = "delete" THEN rop.expect ELSE rop.write)
      BY <1>6, <2>1, <3>1, <3>4 DEF Invertible
    <3> HIDE DEF rop
    <3> QED BY <1>1, <1>2, <3>2, <3>3, <3>5, InvertedOpFits
  <2>4. PlanWalk(g, Olds, News, before, after)
    BY <1>3, <1>8, <2>2, <2>3 DEF PlanWalk
  <2> QED BY <2>1, <2>4
<1>11. CASE mode = "reapply"
  <2>1. plan.ops = root.ops /\ plan.mode # "revert" /\ Len(plan.ops) = n /\ root.mode # "revert"
    BY <1>1, <1>4, <1>7, <1>11 DEF Derived
  <2>2. ASSUME NEW i \in 1 .. n PROVE Fits(plan.ops[i], Olds[i], News[i], KeyCols)
    <3>1. plan.ops[i] = BuildOne(changes[i], "reapply", KeyCols) /\ i \in DOMAIN plan.ops
      BY <1>6, <1>11, <2>1
    <3>2. Null \notin Range(plan.ops[i].key)
      BY <2>1, <3>1 DEF KeysNotNull
    <3>3. PICK row \in Readable(table, plan.ops[i]) : Conflict(plan.ops[i], row) = "none"
      BY <2>1, <3>1 DEF Ready
    <3> QED BY <1>1, <1>2, <1>5, <3>1, <3>2, <3>3, ReapplyOpFits
  <2>3. PlanWalk(g, Olds, News, before, after)
    BY <1>3, <1>8, <2>1, <2>2 DEF PlanWalk
  <2> QED BY <2>1, <2>3
<1>12. plan.mode \in {"revert", "reapply"}
  BY <1>1 DEF Plans
<1> QED BY <1>9, <1>10, <1>11, <1>12

-----------------------------------------------------------------------------
(* What follows for a plan that is applied.                                 *)

\* No operation of the plan writes a generated column, which MySQL would refuse.  Only the reapply
\* of a revert writes one: it writes back the row image the revert had expected.
WritesNoGenerated == plan # None =>
  \A i \in DOMAIN plan.ops : DOMAIN plan.ops[i].write \cap GenCols = {}

LEMMA ApplyIsExact ==
  ASSUME Inv, Apply, plan.class = "safe", root.mode = "revert" \/ KeysNotNull
  PROVE  NetEffect
<1>1. /\ plan # None /\ Ready(table, plan.ops) /\ Execute(table, plan.ops).ok
      /\ table' = Execute(table, plan.ops).rows
  BY DEF Apply
<1>2. /\ table \in SUBSET Row /\ Legal(table) /\ Len(plan.ops) \in Nat
  BY <1>1 DEF Inv, TypeOK, Plans
<1>3. PICK h, out, in : IF plan.mode = "revert" THEN PlanWalk(h, out, in, after, before)
                                                ELSE PlanWalk(h, out, in, before, after)
  BY <1>1, SafePlanWalks
<1>4. /\ IsWalk(h, out, in, Len(plan.ops))
      /\ \A i \in 1 .. Len(plan.ops) : Acts(plan.ops[i], out[i], in[i])
  BY <1>3 DEF PlanWalk, Fits
<1>5. /\ h[0] \ h[Len(plan.ops)] \subseteq table
      /\ table' = (table \ (h[0] \ h[Len(plan.ops)])) \cup (h[Len(plan.ops)] \ h[0])
  BY <1>1, <1>2, <1>4, PlanEffect
<1>6. IF plan.mode = "revert" THEN h[0] = after /\ h[Len(plan.ops)] = before
                              ELSE h[0] = before /\ h[Len(plan.ops)] = after
  BY <1>3 DEF PlanWalk
<1> QED BY <1>5, <1>6 DEF NetEffect, New, Gone

LEMMA ReadyPlanApplies ==
  ASSUME Inv, WritesNoGenerated
  PROVE  ReadyApplies
<1> SUFFICES ASSUME Undisturbed, KeysNotNull, Ready(table, plan.ops)
             PROVE  Execute(table, plan.ops).ok
  BY DEF ReadyApplies
<1>1. /\ plan # None /\ plan.class = "safe"
      /\ table = IF plan.mode = "revert" THEN after ELSE before
  BY DEF Undisturbed
<1>2. /\ Len(plan.ops) \in Nat /\ DOMAIN plan.ops = 1 .. Len(plan.ops) /\ ChooseKey(changes) # 0
  BY <1>1 DEF Inv, Plans
<1>3. KeyCols \in ToSet(UniqueKeys)
  BY <1>2, ChosenKey
<1>4. PICK h, out, in : IF plan.mode = "revert" THEN PlanWalk(h, out, in, after, before)
                                                ELSE PlanWalk(h, out, in, before, after)
  BY <1>1, SafePlanWalks
<1>5. /\ IsWalk(h, out, in, Len(plan.ops)) /\ h[0] = table
      /\ \A i \in 1 .. Len(plan.ops) : Fits(plan.ops[i], out[i], in[i], KeyCols)
  BY <1>1, <1>4 DEF PlanWalk
<1>6. \A i \in 1 .. Len(plan.ops) : /\ DOMAIN plan.ops[i].write \cap GenCols = {}
                                    /\ Null \notin Range(plan.ops[i].key)
  BY <1>1, <1>2 DEF WritesNoGenerated, KeysNotNull
<1>7. Execute(h[0], plan.ops) = Table(h[Len(plan.ops)])
  BY <1>2, <1>3, <1>5, <1>6, PlanSucceeds
<1> QED BY <1>5, <1>7 DEF Table

LEMMA NoConflictWithoutReason ==
  ASSUME Inv
  PROVE  NoFalseConflict
<1> SUFFICES ASSUME Undisturbed, TouchedOnce, KeysNotNull, NoNullsRead, root.mode = "revert",
                    NEW i \in DOMAIN plan.ops
             PROVE  \E row \in Readable(table, plan.ops[i]) : Conflict(plan.ops[i], row) = "none"
  BY DEF NoFalseConflict, Ready
<1> DEFINE n == Len(plan.ops)
           K == KeyCols
           op == plan.ops[i]
<1>1. /\ plan # None /\ plan.class = "safe"
      /\ table = IF plan.mode = "revert" THEN after ELSE before
  BY DEF Undisturbed
<1>2. n \in Nat /\ DOMAIN plan.ops = 1 .. n /\ i \in 1 .. n /\ ChooseKey(changes) # 0
  BY <1>1 DEF Inv, Plans
<1>3. K \in ToSet(UniqueKeys) /\ K \in SUBSET Cols
  BY <1>2, ChosenKey
<1>4. PICK h, out, in : IF plan.mode = "revert" THEN PlanWalk(h, out, in, after, before)
                                                ELSE PlanWalk(h, out, in, before, after)
  BY <1>1, SafePlanWalks
<1>5. /\ IsWalk(h, out, in, n) /\ h[0] = table /\ Fits(op, out[i], in[i], K)
      /\ \A j \in 1 .. n : i # j =>
           \A r \in Touched(out, in, i), s \in Touched(out, in, j) : Restrict(r, K) # Restrict(s, K)
  BY <1>1, <1>2, <1>4 DEF PlanWalk
<1> DEFINE x == out[i]
           y == in[i]
<1>6. /\ x \in Side /\ y \in Side /\ Moves(h[i - 1], x, y, h[i]) /\ i - 1 \in 0 .. n
      /\ h[i - 1] \subseteq Row /\ Legal(h[i]) /\ h[0] \subseteq Row
  BY <1>2, <1>5 DEF IsWalk
<1>7. DOMAIN op.key = K /\ Null \notin Range(op.key)
  BY <1>2, <1>5 DEF Fits, KeysNotNull
\* No other step touches a row of the key of this one.
<1>8. ASSUME NEW r \in Row, NEW s \in Touched(out, in, i), Restrict(r, K) = Restrict(s, K)
      PROVE  r \in h[0] <=> r \in h[i - 1]
  <2> SUFFICES ASSUME (r \in h[0]) # (r \in h[i - 1]) PROVE FALSE
    OBVIOUS
  <2>1. PICK j \in 1 .. i - 1 : r \in {out[j], in[j]}
    BY <1>2, <1>5, <1>6, WalkTouches
  <2>2. j \in 1 .. n /\ i # j /\ r \in Touched(out, in, j)
    BY <1>2, <2>1, RowFacts DEF Touched
  <2> QED BY <1>5, <1>8, <2>2
<1> HIDE DEF op, x, y
<1>9. CASE x = None
  <2>1. op.kind = "insert" /\ y # None /\ y \in Row /\ y \in h[i] /\ y \notin h[i - 1]
        /\ \A c \in K : op.key[c] = y[c]
    BY <1>5, <1>6, <1>9, RowFacts DEF Fits, Acts, Moves, Changed, Side, x, y
  <2>2. Selected(table, op.key) = {}
    <3> SUFFICES ASSUME NEW r \in h[0], Matches(r, op.key) PROVE FALSE
      BY <1>5 DEF Selected
    <3>1. Restrict(r, K) = Restrict(y, K) /\ r \in Row
      BY <1>6, <1>7, <2>1 DEF Restrict, Matches
    <3>2. y \in Touched(out, in, i)
      BY <2>1 DEF Touched, y
    <3>3. r \in h[i - 1]
      BY <1>8, <3>1, <3>2
    <3>4. r \in h[i]
      BY <1>6, <1>9, <3>1, <3>3, RowFacts DEF Moves, Changed
    <3>5. \A c \in K : op.key[c] = y[c] /\ op.key[c] # Null
      BY <1>7, <2>1 DEF Range
    <3>6. r = y
      BY <1>3, <1>6, <1>7, <2>1, <3>4, <3>5, KeyIsFree
    <3> QED BY <2>1, <3>3, <3>6
  <2>3. Readable(table, op) = {None}
    BY <2>2 DEF Readable
  <2>4. Conflict(op, None) = "none"
    BY <2>1 DEF Conflict
  <2> QED BY <2>3, <2>4 DEF op
<1>10. CASE x # None
  <2>1. op.kind # "insert" /\ x \in Row /\ x \in h[i - 1] /\ Matches(x, op.key)
        /\ Matches(x, op.expect)
    BY <1>5, <1>6, <1>10 DEF Fits, Acts, Moves, Side, x, y
  <2>2. x \in Touched(out, in, i)
    BY <1>10 DEF Touched, x
  <2>3. x \in Selected(table, op.key)
    BY <1>5, <1>8, <2>1, <2>2 DEF Selected
  <2>4. x \in Readable(table, op)
    BY <2>3 DEF Readable
  <2>5. Null \notin Range(x)
    BY <1>2, <2>3 DEF NoNullsRead, op
  <2>6. ReadBack(x) = x /\ x \in [Cols -> Value] /\ \A c \in Cols : x[c] # Unreadable
    <3>1. x \in [Cols -> Value] /\ \A c \in Cols : x[c] # Unreadable
      BY <2>1, RowFacts
    <3>2. \A c \in Cols : x[c] # Null
      BY <2>5, <3>1 DEF Range
    <3> QED BY <3>1, <3>2 DEF ReadBack
  <2>7. CanBeRead(x)
    BY <2>6 DEF CanBeRead, Range
  <2>8. Conflict(op, x) = "none"
    BY <1>10, <2>1, <2>6, <2>7 DEF Conflict
  <2> QED BY <2>4, <2>8 DEF op
<1> QED BY <1>9, <1>10

-----------------------------------------------------------------------------
(* The invariant: plans are made of operations on images of rows.           *)

LEMMA ImageTypes ==
  /\ NoImage \in Images /\ Row \subseteq Images
  /\ \A img \in Images : \A K \in SUBSET DOMAIN img : Restrict(img, K) \in Images
  /\ \A img \in Images : WithoutGenerated(img) \in Images
  /\ \A img \in Images : DOMAIN img \subseteq Cols
<1>1. Images = UNION {[S -> Value] : S \in SUBSET Cols}
  BY DEF Images
<1>2. \A img : img \in Images <=> \E S \in SUBSET Cols : img \in [S -> Value]
  BY <1>1
<1>3. NoImage \in Images
  <2>1. NoImage \in [{} -> Value]
    BY DEF NoImage
  <2> QED BY <1>2, <2>1
<1>4. Row \subseteq Images
  BY <1>2, RowFacts
<1>5. ASSUME NEW img \in Images, NEW K \in SUBSET DOMAIN img PROVE Restrict(img, K) \in Images
  <2>1. PICK S \in SUBSET Cols : img \in [S -> Value]
    BY <1>2
  <2>2. K \in SUBSET Cols /\ Restrict(img, K) \in [K -> Value]
    BY <2>1 DEF Restrict
  <2> QED BY <1>2, <2>2
<1>6. \A img \in Images : WithoutGenerated(img) \in Images
  BY <1>5 DEF WithoutGenerated
<1>7. \A img \in Images : DOMAIN img \subseteq Cols
  BY <1>2
<1> QED BY <1>3, <1>4, <1>5, <1>6, <1>7

LEMMA OpIs ==
  ASSUME NEW kind \in {"insert", "update", "delete"}, NEW key \in Images,
         NEW expect \in Images, NEW write \in Images
  PROVE  [kind |-> kind, key |-> key, expect |-> expect, write |-> write] \in Ops
BY DEF Ops

LEMMA BuildOneType ==
  ASSUME changes \in Seq(RowChange), NEW h, Walked(h), NEW i \in 1 .. Len(changes),
         NEW mode, NEW K \in SUBSET Cols
  PROVE  BuildOne(changes[i], mode, K) \in Ops
<1> DEFINE rc == changes[i]
<1>1. rc.before \in Images /\ rc.after \in Images
  BY ChangeFacts, ImageTypes DEF Side, ImageOf
<1>2. RowForKey(rc) \in Row
  BY ChangeFacts DEF Side
<1>3. Restrict(RowForKey(rc), K) \in Images
  BY <1>2, ImageTypes, RowFacts
<1>4. KindOf(rc) \in {"insert", "update", "delete"}
  BY ChangeFacts
<1> HIDE DEF rc
<1>5. Opposite(KindOf(rc)) \in {"insert", "update", "delete"}
  BY <1>4 DEF Opposite
<1> DEFINE kind == IF mode = "revert" THEN Opposite(KindOf(rc)) ELSE KindOf(rc)
           expect == IF mode = "revert" THEN rc.after ELSE rc.before
           write == WithoutGenerated(IF mode = "revert" THEN rc.before ELSE rc.after)
<1>6. kind \in {"insert", "update", "delete"} /\ expect \in Images /\ write \in Images
  BY <1>1, <1>4, <1>5, ImageTypes
<1>7. BuildOne(rc, mode, K) = [kind |-> kind, key |-> Restrict(RowForKey(rc), K),
                               expect |-> expect, write |-> write]
  BY DEF BuildOne
<1> HIDE DEF kind, expect, write
<1> QED BY <1>3, <1>6, <1>7, OpIs DEF rc

LEMMA BuildOperationsType ==
  ASSUME changes \in Seq(RowChange), NEW h, Walked(h), ChooseKey(changes) # 0,
         NEW mode \in {"revert", "reapply"}, NEW ops, ops = BuildOperations(changes, mode)
  PROVE  ops \in Seq(Ops) /\ Len(ops) = Len(changes)
<1>1. KeyCols \in SUBSET Cols
  BY ChosenKey
<1>2. ASSUME NEW i \in 1 .. Len(changes) PROVE ops[i] \in Ops
  <2> DEFINE j == IF mode = "revert" THEN Len(changes) + 1 - i ELSE i
  <2>1. j \in 1 .. Len(changes)
    OBVIOUS
  <2>2. ops[i] = BuildOne(changes[j], mode, KeyCols)
    BY BuiltOps
  <2> HIDE DEF j
  <2> QED BY <1>1, <2>1, <2>2, BuildOneType
<1>3. DOMAIN ops = 1 .. Len(changes)
  BY BuiltOps
<1>4. ops = [i \in 1 .. Len(changes) |-> ops[i]]
  BY <1>3 DEF BuildOperations
<1>5. ops \in [1 .. Len(changes) -> Ops] /\ Len(changes) \in Nat
  BY <1>2, <1>4
<1> QED BY <1>5

LEMMA InvertedOperationsType ==
  ASSUME NEW ops \in Seq(Ops), Invertible(ops)
  PROVE  InvertedOperations(ops) \in Seq(Ops) /\ Len(InvertedOperations(ops)) = Len(ops)
<1>1. ASSUME NEW i \in DOMAIN ops PROVE Invert(ops[i]) \in Ops
  <2> DEFINE op == ops[i]
             img == IF op.kind = "delete" THEN op.expect ELSE op.write
  <2>1. /\ op.kind \in {"insert", "update", "delete"} /\ op.key \in Images
        /\ op.expect \in Images /\ op.write \in Images
    <3>1. op \in Ops
      OBVIOUS
    <3> QED BY <3>1 DEF Ops
  <2>2. DOMAIN op.key \subseteq DOMAIN img /\ img \in Images
    BY <2>1 DEF Invertible
  <2> HIDE DEF op, img
  <2>3. Restrict(img, DOMAIN op.key) \in Images
    BY <2>2, ImageTypes
  <2>4. Opposite(op.kind) \in {"insert", "update", "delete"}
    BY <2>1 DEF Opposite
  <2>5. Invert(op) = [kind |-> Opposite(op.kind), key |-> Restrict(img, DOMAIN op.key),
                      expect |-> op.write, write |-> op.expect]
    BY DEF Invert, img
  <2>6. Invert(op) \in Ops
    BY <2>1, <2>3, <2>4, <2>5, OpIs
  <2> QED BY <2>6 DEF op
<1>2. \A i \in 1 .. Len(ops) : Len(ops) + 1 - i \in 1 .. Len(ops)
  OBVIOUS
<1>3. InvertedOperations(ops) \in [1 .. Len(ops) -> Ops]
  BY <1>1, <1>2 DEF InvertedOperations
<1> QED BY <1>3

LEMMA OverwrittenType ==
  ASSUME NEW op \in Ops, NEW t \in SUBSET Row, NEW row \in Readable(t, op),
         Conflict(op, row) # "none", ~Dropped(op, row), Overwritable(op, row)
  PROVE  Overwritten(op, row) \in Ops
<1>1. /\ op = [kind |-> op.kind, key |-> op.key, expect |-> op.expect, write |-> op.write]
      /\ op.kind \in {"insert", "update", "delete"} /\ op.key \in Images /\ op.write \in Images
  BY DEF Ops
<1>2. CASE row = None
  <2>1. op.kind = "update"
    BY <1>1, <1>2 DEF Conflict, Dropped
  <2>2. Restrict(op.write, DOMAIN op.key) \in Images /\ NoImage \in Images
    BY <1>1, <1>2, <2>1, ImageTypes DEF Overwritable
  <2>3. Overwritten(op, row) = [kind |-> "insert", key |-> Restrict(op.write, DOMAIN op.key),
                                expect |-> NoImage, write |-> op.write]
    BY <1>1, <1>2 DEF Overwritten
  <2> QED BY <1>1, <2>2, <2>3, OpIs
<1>3. CASE row # None
  <2>1. row \in Row /\ CanBeRead(row)
    BY <1>3 DEF Readable, Selected, Overwritable
  <2>2. ReadBack(row) \in Images
    <3>1. \A c \in Cols : ReadBack(row)[c] \in Value
      <4> SUFFICES ASSUME NEW c \in Cols PROVE ReadBack(row)[c] \in Value
        OBVIOUS
      <4>1. row[c] \in Value /\ (row[c] = Null => c \in Nullable)
        BY <2>1, RowFacts
      <4>2. ReadBack(row)[c] = IF row[c] = Null THEN NullReads[c] ELSE row[c]
        BY DEF ReadBack
      <4>3. ReadBack(row)[c] # Unreadable
        BY <2>1 DEF CanBeRead, Range, ReadBack
      <4>4. c \in Nullable => NullReads[c] \in Stored \cup {Unreadable}
        BY CompensationAssumption
      <4>5. CASE row[c] = Null
        BY <4>1, <4>2, <4>3, <4>4, <4>5 DEF Value
      <4>6. CASE row[c] # Null
        BY <4>1, <4>2, <4>6
      <4> QED BY <4>5, <4>6
    <3>2. ReadBack(row) \in [Cols -> Value]
      BY <3>1 DEF ReadBack
    <3> QED BY <3>2 DEF Images
  <2>3. Overwritten(op, row) = [kind |-> IF op.kind = "insert" THEN "update" ELSE op.kind,
                                key |-> op.key, expect |-> ReadBack(row), write |-> op.write]
    BY <1>1, <1>3 DEF Overwritten
  <2>4. (IF op.kind = "insert" THEN "update" ELSE op.kind) \in {"insert", "update", "delete"}
    BY <1>1
  <2> QED BY <1>1, <2>2, <2>3, <2>4, OpIs
<1> QED BY <1>2, <1>3

\* The operations of a resolved plan, as they are gathered one after the other.
Resolves(f, ops, seen, skip) ==
  /\ f[0] = <<>>
  /\ \A i \in 1 .. Len(ops) :
       f[i] = IF i \notin Conflicting(ops, seen) THEN Append(f[i - 1], ops[i])
              ELSE IF i \in skip \/ Dropped(ops[i], seen[i]) THEN f[i - 1]
              ELSE Append(f[i - 1], Overwritten(ops[i], seen[i]))

LEMMA ResolvedResult ==
  ASSUME NEW ops, NEW seen, NEW skip, Len(ops) \in Nat
  PROVE  \E f : /\ Resolves(f, ops, seen, skip)
                /\ ResolvedOperations(ops, seen, skip) = f[Len(ops)]
<1> DEFINE bad == Conflicting(ops, seen)
           Next_(f, i) == IF i = 0 THEN <<>>
                          ELSE IF i \notin bad THEN Append(f[i - 1], ops[i])
                          ELSE IF i \in skip \/ Dropped(ops[i], seen[i]) THEN f[i - 1]
                          ELSE Append(f[i - 1], Overwritten(ops[i], seen[i]))
           Trace(f, n) == f = [i \in 0..n |-> Next_(f, i)]
           S == {n \in 0 .. Len(ops) : \E f : Trace(f, n)}
<1> HIDE DEF bad
<1>1. 0 \in S
  <2> DEFINE f == [i \in 0..0 |-> <<>>]
  <2>1. \A i \in 0..0 : i = 0
    OBVIOUS
  <2>2. \A i \in 0..0 : f[i] = Next_(f, i)
    BY <2>1
  <2>3. Trace(f, 0)
    BY <2>2
  <2>4. 0 \in 0 .. Len(ops)
    OBVIOUS
  <2> HIDE DEF f
  <2> QED BY <2>3, <2>4
<1>2. ASSUME NEW n \in 1 .. Len(ops), n - 1 \in S PROVE n \in S
  <2>1. PICK f : Trace(f, n - 1)
    BY <1>2
  <2> DEFINE e == [i \in 0..n |-> IF i = n THEN Next_(f, n) ELSE f[i]]
  <2>2. ASSUME NEW i \in 0..n PROVE e[i] = Next_(e, i)
    <3>1. CASE i = n
      <4>1. e[n - 1] = f[n - 1]
        OBVIOUS
      <4> QED BY <3>1, <4>1
    <3>2. CASE i # n
      <4>1. i \in 0 .. n - 1 /\ (i # 0 => i - 1 \in 0 .. n - 1 /\ i - 1 # n)
        BY <3>2
      <4>2. f[i] = Next_(f, i)
        BY <2>1, <4>1
      <4>3. (i # 0 => e[i - 1] = f[i - 1]) /\ e[i] = f[i]
        BY <3>2, <4>1
      <4> HIDE DEF e
      <4> QED BY <4>2, <4>3
    <3> QED BY <3>1, <3>2
  <2>3. Trace(e, n)
    BY <2>2
  <2> HIDE DEF e
  <2> QED BY <2>3
<1>3. Len(ops) \in S
  <2> HIDE DEF S
  <2>1. \A i \in 0 .. Len(ops) : i \in S
    BY <1>1, <1>2, InductionTo
  <2> QED BY <2>1
<1> DEFINE r == CHOOSE f : Trace(f, Len(ops))
<1>4. Trace(r, Len(ops))
  BY <1>3
<1>5. ResolvedOperations(ops, seen, skip) = r[Len(ops)]
  BY DEF ResolvedOperations, bad
<1>6. Resolves(r, ops, seen, skip)
  <2> HIDE DEF r, Next_
  <2>1. \A i \in 0 .. Len(ops) : r[i] = Next_(r, i)
    BY <1>4
  <2>2. r[0] = Next_(r, 0) /\ \A i \in 1 .. Len(ops) : r[i] = Next_(r, i) /\ i # 0
    BY <2>1
  <2> QED BY <2>2 DEF Resolves, bad, Next_
<1> QED BY <1>5, <1>6

\* What has been gathered after each operation.
LEMMA GatheredType ==
  ASSUME NEW ops \in Seq(Ops), NEW t \in SUBSET Row, NEW seen, NEW skip,
         \A i \in DOMAIN ops : seen[i] \in Readable(t, ops[i]),
         \A i \in Conflicting(ops, seen) \ skip : Overwritable(ops[i], seen[i]),
         NEW f, Resolves(f, ops, seen, skip)
  PROVE  \A i \in 0 .. Len(ops) : f[i] \in Seq(Ops) /\ Len(f[i]) <= i
<1> DEFINE Fine(i) == f[i] \in Seq(Ops) /\ Len(f[i]) <= i
           S == {i \in 0 .. Len(ops) : Fine(i)}
<1>1. 0 \in S
  <2>1. f[0] = <<>> /\ 0 \in 0 .. Len(ops) /\ Len(<<>>) = 0 /\ <<>> \in Seq(Ops)
    BY DEF Resolves
  <2>2. Len(f[0]) = 0 /\ f[0] \in Seq(Ops)
    BY <2>1
  <2>3. Fine(0)
    BY <2>2
  <2> HIDE DEF Fine
  <2> QED BY <2>1, <2>3
<1>2. ASSUME NEW i \in 1 .. Len(ops), i - 1 \in S PROVE i \in S
  <2> SUFFICES Fine(i)
    OBVIOUS
  <2>1. f[i - 1] \in Seq(Ops) /\ Len(f[i - 1]) <= i - 1
    BY <1>2
  <2>2. i \in DOMAIN ops /\ ops[i] \in Ops
    OBVIOUS
  <2>3. CASE i \notin Conflicting(ops, seen)
    <3>1. f[i] = Append(f[i - 1], ops[i])
      BY <2>3 DEF Resolves
    <3> QED BY <2>1, <2>2, <3>1
  <2>4. CASE i \in Conflicting(ops, seen) /\ (i \in skip \/ Dropped(ops[i], seen[i]))
    <3>1. f[i] = f[i - 1]
      BY <2>4 DEF Resolves
    <3> QED BY <2>1, <3>1
  <2>5. CASE i \in Conflicting(ops, seen) \ skip /\ ~Dropped(ops[i], seen[i])
    <3>1. f[i] = Append(f[i - 1], Overwritten(ops[i], seen[i]))
      BY <2>5 DEF Resolves
    <3>2. Conflict(ops[i], seen[i]) # "none"
      BY <2>5 DEF Conflicting
    <3>3. Overwritten(ops[i], seen[i]) \in Ops
      BY <2>2, <2>5, <3>2, OverwrittenType
    <3> QED BY <2>1, <3>1, <3>3
  <2> QED BY <2>3, <2>4, <2>5
<1> HIDE DEF S
<1>3. \A i \in 0 .. Len(ops) : i \in S
  <2>1. Len(ops) \in Nat
    OBVIOUS
  <2> QED BY <1>1, <1>2, <2>1, InductionTo
<1> QED BY <1>3 DEF S

LEMMA ResolvedOperationsType ==
  ASSUME NEW ops \in Seq(Ops), NEW t \in SUBSET Row, NEW seen, NEW skip,
         \A i \in DOMAIN ops : seen[i] \in Readable(t, ops[i]),
         \A i \in Conflicting(ops, seen) \ skip : Overwritable(ops[i], seen[i])
  PROVE  /\ ResolvedOperations(ops, seen, skip) \in Seq(Ops)
         /\ Len(ResolvedOperations(ops, seen, skip)) <= Len(ops)
<1>1. PICK f : /\ Resolves(f, ops, seen, skip)
               /\ ResolvedOperations(ops, seen, skip) = f[Len(ops)]
  BY ResolvedResult
<1>2. Len(ops) \in 0 .. Len(ops)
  OBVIOUS
<1> QED BY <1>1, <1>2, GatheredType

-----------------------------------------------------------------------------
(* The invariant is inductive.                                              *)

LEMMA ChangedLegal ==
  ASSUME NEW t \in SUBSET Row, NEW old, NEW new, Change(t, old, new)
  PROVE  Changed(t, old, new) \subseteq Row /\ Legal(Changed(t, old, new))
BY DEF Change, Changed

LEMMA InitInv == Init => Inv
<1> SUFFICES ASSUME Init PROVE Inv
  OBVIOUS
<1>1. before \subseteq Row /\ Legal(before)
  BY DEF Init, kSubset
<1>2. /\ table = before /\ after = before /\ changes = <<>> /\ root = None /\ plan = None
      /\ applied = FALSE /\ foreign = 0 /\ 0 \in 0 .. MaxForeign /\ 0 <= MaxChanges
  BY CompensationAssumption DEF Init
<1>3. TypeOK
  BY <1>1, <1>2 DEF TypeOK
<1>4. changes \in Seq(RowChange) /\ Len(changes) = 0
  BY <1>2
<1>5. Walked([i \in 0..0 |-> before])
  BY <1>1, <1>2, <1>4 DEF Walked, IsWalk, Olds, News
<1> QED BY <1>2, <1>3, <1>4, <1>5 DEF Inv

LEMMA SourceChangeInv ==
  ASSUME Inv, NEW old \in table \cup {None}, NEW new \in Row \cup {None}, SourceChange(old, new)
  PROVE  Inv'
<1> DEFINE rc == [before |-> ImageOf(old), after |-> ImageOf(new)]
           n == Len(changes)
<1>1. /\ root = None /\ n < MaxChanges /\ Change(table, old, new) /\ plan = None /\ ~applied
      /\ table = after /\ table \in SUBSET Row /\ changes \in Seq(RowChange) /\ n \in Nat
      /\ table' = Changed(table, old, new) /\ after' = table' /\ changes' = Append(changes, rc)
      /\ UNCHANGED <<before, root, plan, reviewed, applied, foreign>>
  BY DEF Inv, TypeOK, SourceChange
<1>2. old \in Side /\ new \in Side /\ RowOr(ImageOf(old)) = old /\ RowOr(ImageOf(new)) = new
      /\ ImageOf(old) \in Row \cup {NoImage} /\ ImageOf(new) \in Row \cup {NoImage}
  BY <1>1, RowFacts DEF Side, RowOr, ImageOf
<1>3. rc \in RowChange
  BY <1>2 DEF RowChange
<1> HIDE DEF rc
<1>4. /\ changes' \in Seq(RowChange) /\ Len(changes') = n + 1 /\ changes'[n + 1] = rc
      /\ \A i \in 1 .. n : changes'[i] = changes[i]
  BY <1>1, <1>3
<1>5. table' \subseteq Row /\ Legal(table')
  BY <1>1, ChangedLegal
<1>6. TypeOK'
  BY <1>1, <1>4, <1>5, CompensationAssumption DEF Inv, TypeOK
<1>7. PICK h : Walked(h)
  BY DEF Inv
<1>8. PICK g : g = [i \in 0 .. n + 1 |-> IF i = n + 1 THEN table' ELSE h[i]]
  OBVIOUS
<1>9. Walked(g)'
  <2>1. /\ Olds' = [i \in 1 .. n + 1 |-> IF i = n + 1 THEN old ELSE Olds[i]]
        /\ News' = [i \in 1 .. n + 1 |-> IF i = n + 1 THEN new ELSE News[i]]
    BY <1>1, <1>2, <1>4 DEF Olds, News, rc
  <2>2. /\ h \in [0 .. n -> SUBSET Row] /\ Olds \in [1 .. n -> Side] /\ News \in [1 .. n -> Side]
        /\ \A i \in 0 .. n : Legal(h[i])
        /\ \A i \in 1 .. n : Moves(h[i - 1], Olds[i], News[i], h[i])
        /\ h[0] = before /\ h[n] = table
    BY <1>1, <1>7 DEF Walked, IsWalk
  <2>3. /\ g \in [0 .. n + 1 -> SUBSET Row] /\ Olds' \in [1 .. n + 1 -> Side]
        /\ News' \in [1 .. n + 1 -> Side] /\ \A i \in 0 .. n + 1 : Legal(g[i])
        /\ g[0] = before /\ g[n + 1] = table'
    BY <1>1, <1>2, <1>5, <1>8, <2>1, <2>2
  <2>4. ASSUME NEW i \in 1 .. n + 1 PROVE Moves(g[i - 1], Olds'[i], News'[i], g[i])
    <3>1. CASE i = n + 1
      <4>1. g[i - 1] = table /\ g[i] = Changed(table, old, new) /\ Olds'[i] = old /\ News'[i] = new
        BY <1>1, <1>8, <2>1, <2>2, <3>1
      <4> QED BY <1>1, <4>1, RowFacts DEF Moves, Change
    <3>2. CASE i # n + 1
      <4>1. /\ i \in 1 .. n /\ g[i - 1] = h[i - 1] /\ g[i] = h[i]
            /\ Olds'[i] = Olds[i] /\ News'[i] = News[i]
        BY <1>1, <1>8, <2>1, <3>2
      <4> QED BY <2>2, <4>1
    <3> QED BY <3>1, <3>2
  <2>5. IsWalk(g, Olds', News', n + 1)
    BY <2>3, <2>4 DEF IsWalk
  <2> QED BY <1>1, <1>4, <2>3, <2>5 DEF Walked
<1> QED BY <1>1, <1>4, <1>6, <1>9 DEF Inv

LEMMA CreateInv ==
  ASSUME Inv, NEW mode \in {"revert", "reapply"}, Create(mode)
  PROVE  Inv'
<1> DEFINE ops == BuildOperations(changes, mode)
<1>1. /\ root = None /\ changes # <<>> /\ ChooseKey(changes) # 0 /\ changes \in Seq(RowChange)
      /\ root' = Plan(mode, "safe", 0, ops) /\ plan' = root'
      /\ UNCHANGED <<table, before, after, changes, reviewed, applied, foreign>>
  BY DEF Inv, Create
<1>2. PICK h : Walked(h)
  BY DEF Inv
<1>3. ops \in Seq(Ops) /\ Len(ops) = Len(changes)
  BY <1>1, <1>2, BuildOperationsType
<1> HIDE DEF ops
<1>4. root' \in Plans /\ root' # None
  <2>1. root' \in Plans
    BY <1>1, <1>3 DEF Plan, Plans
  <2> QED BY <2>1, CompensationAssumption
<1>5. /\ root'.mode = mode /\ root'.class = "safe" /\ root'.depth = 0 /\ root'.ops = ops
  BY <1>1 DEF Plan
<1>6. TypeOK'
  <2>1. PlanOK(root')
    BY <1>3, <1>5, CompensationAssumption DEF PlanOK, Inv, TypeOK
  <2> QED BY <1>1, <2>1 DEF Inv, TypeOK
<1>7. Rooted' /\ Derived'
  BY <1>1, <1>5 DEF Rooted, Derived, ops
<1>8. Walked(h)'
  BY <1>1, <1>2 DEF Walked, Olds, News
<1> QED BY <1>1, <1>4, <1>6, <1>7, <1>8 DEF Inv

\* What only depends on the source transaction and the plans stays when they do.
LEMMA PlansKept ==
  ASSUME Inv, UNCHANGED <<before, after, changes, root>>
  PROVE  /\ changes' \in Seq(RowChange) /\ \E h : Walked(h)'
         /\ root # None => ChooseKey(changes)' # 0 /\ Rooted'
<1>1. PICK h : Walked(h)
  BY DEF Inv
<1>2. Walked(h)'
  BY <1>1 DEF Walked, Olds, News
<1> QED BY <1>2 DEF Inv, Rooted

LEMMA ForeignChangeInv ==
  ASSUME Inv, NEW old \in table \cup {None}, NEW new \in Row \cup {None}, ForeignChange(old, new)
  PROVE  Inv'
<1>1. /\ root # None /\ foreign < MaxForeign /\ Change(table, old, new) /\ table \in SUBSET Row
      /\ table' = Changed(table, old, new) /\ foreign' = foreign + 1
      /\ UNCHANGED <<before, after, changes, root, plan, reviewed, applied>>
  BY DEF Inv, TypeOK, ForeignChange
<1>2. table' \subseteq Row /\ Legal(table')
  BY <1>1, ChangedLegal
<1>3. TypeOK'
  BY <1>1, <1>2, CompensationAssumption DEF Inv, TypeOK
<1>4. Derived => Derived'
  BY <1>1 DEF Derived
<1> QED BY <1>1, <1>3, <1>4, PlansKept DEF Inv

LEMMA ResolveInv ==
  ASSUME Inv, plan # None, ~applied, NEW seen, NEW skip, Resolve(seen, skip)
  PROVE  Inv'
<1> DEFINE ops == plan.ops
           new == ResolvedOperations(ops, seen, skip)
<1>1. /\ root # None /\ plan \in Plans /\ PlanOK(plan) /\ table \in SUBSET Row
      /\ \A i \in DOMAIN ops : seen[i] \in Readable(table, ops[i])
      /\ \A i \in Conflicting(ops, seen) \ skip : Overwritable(ops[i], seen[i])
      /\ plan' = Plan(plan.mode, "unsafe_resolved", plan.depth, new)
      /\ UNCHANGED <<table, before, after, changes, root, applied, foreign>>
  BY DEF Inv, TypeOK, Resolve
<1>2. ops \in Seq(Ops)
  BY <1>1 DEF Plans
<1>3. new \in Seq(Ops) /\ Len(new) <= Len(ops)
  BY <1>1, <1>2, ResolvedOperationsType
<1>4. /\ plan.mode \in {"revert", "reapply"} /\ plan.depth \in 0 .. MaxDepth
      /\ Len(ops) <= MaxChanges /\ Len(ops) \in Nat /\ Len(new) \in Nat
      /\ \A i \in DOMAIN new : new[i] \in Ops
  BY <1>1, <1>2, <1>3 DEF PlanOK
<1> HIDE DEF new
<1>5. /\ plan'.mode = plan.mode /\ plan'.class = "unsafe_resolved"
      /\ plan'.depth = plan.depth /\ plan'.ops = new
  BY <1>1 DEF Plan
<1>6. plan' \in Plans
  BY <1>1, <1>3, <1>4 DEF Plans, Plan
<1>7. PlanOK(plan')
  BY <1>3, <1>4, <1>5, CompensationAssumption DEF PlanOK
<1>8. TypeOK'
  BY <1>1, <1>7 DEF Inv, TypeOK
<1>9. Derived'
  BY <1>5 DEF Derived
<1> QED BY <1>1, <1>6, <1>8, <1>9, PlansKept DEF Inv

LEMMA ApplyInv ==
  ASSUME Inv, Apply
  PROVE  Inv'
<1>1. /\ plan # None /\ root # None /\ Execute(table, plan.ops).ok
      /\ table' = Execute(table, plan.ops).rows /\ applied' = TRUE
      /\ UNCHANGED <<before, after, changes, root, plan, reviewed, foreign>>
  BY DEF Inv, Apply
<1>2. table \in SUBSET Row /\ Legal(table) /\ Len(plan.ops) \in Nat
  BY <1>1 DEF Inv, TypeOK, Plans
<1>3. PICK a : Results(table, plan.ops, a) /\ Execute(table, plan.ops) = a[Len(plan.ops)]
  BY <1>2, ExecuteResult
<1>4. Len(plan.ops) \in 0 .. Len(plan.ops)
  BY <1>2
<1>5. table' \subseteq Row /\ Legal(table')
  BY <1>1, <1>2, <1>3, <1>4, ResultsAreTables
<1>6. TypeOK'
  BY <1>1, <1>5 DEF Inv, TypeOK
<1>7. Derived => Derived'
  BY <1>1 DEF Derived
<1> QED BY <1>1, <1>6, <1>7, PlansKept DEF Inv

LEMMA ContinueInv ==
  ASSUME Inv, Continue
  PROVE  Inv'
<1> DEFINE mode == IF plan.mode = "revert" THEN "reapply" ELSE "revert"
           ops == IF mode = "reapply" THEN InvertedOperations(root.ops) ELSE root.ops
<1>1. /\ applied /\ root.mode = "revert" /\ DepthAllowed(plan.depth)
      /\ mode = "reapply" => Invertible(root.ops)
      /\ plan' = Plan(mode, "safe", plan.depth + 1, ops)
      /\ reviewed' = None /\ applied' = FALSE
      /\ UNCHANGED <<table, before, after, changes, root, foreign>>
  BY DEF Continue
<1>2. root # None /\ root \in Plans /\ plan \in Plans /\ PlanOK(root)
  BY <1>1 DEF Inv, TypeOK
<1>3. root.ops \in Seq(Ops) /\ plan.depth \in Nat /\ plan.depth + 1 \in 0 .. MaxDepth
  BY <1>1, <1>2, CompensationAssumption DEF Plans, DepthAllowed
<1>4. ops \in Seq(Ops) /\ Len(ops) = Len(root.ops)
  BY <1>1, <1>3, InvertedOperationsType
<1>5. mode = "reapply" => /\ root.mode = "revert" /\ Invertible(root.ops)
                          /\ ops = InvertedOperations(root.ops)
  BY <1>1
<1>6. mode # "reapply" => mode = root.mode /\ ops = root.ops
  BY <1>1
<1>7. mode \in {"revert", "reapply"}
  OBVIOUS
<1> HIDE DEF mode, ops
<1>8. /\ plan'.mode = mode /\ plan'.class = "safe"
      /\ plan'.depth = plan.depth + 1 /\ plan'.ops = ops
  BY <1>1 DEF Plan
<1>9. plan' \in Plans
  BY <1>1, <1>3, <1>4, <1>7 DEF Plans, Plan
<1>10. PlanOK(plan')
  BY <1>2, <1>3, <1>4, <1>7, <1>8 DEF PlanOK
<1>11. TypeOK'
  BY <1>1, <1>10 DEF Inv, TypeOK
<1>12. Derived'
  BY <1>1, <1>5, <1>6, <1>8 DEF Derived
<1> QED BY <1>1, <1>2, <1>9, <1>11, <1>12, PlansKept DEF Inv

LEMMA StutterInv ==
  ASSUME Inv, UNCHANGED vars
  PROVE  Inv'
<1>1. TypeOK'
  BY DEF Inv, TypeOK, vars
<1>2. Derived => Derived'
  BY DEF Derived, vars
<1> QED BY <1>1, <1>2, PlansKept DEF Inv, vars

LEMMA Inductive == Inv /\ [Next]_vars => Inv'
<1> SUFFICES ASSUME Inv, [Next]_vars PROVE Inv'
  OBVIOUS
<1>1. ASSUME NEW old \in table \cup {None}, NEW new \in Row \cup {None},
             SourceChange(old, new) \/ ForeignChange(old, new)
      PROVE  Inv'
  BY <1>1, SourceChangeInv, ForeignChangeInv
<1>2. ASSUME NEW mode \in {"revert", "reapply"}, Create(mode) PROVE Inv'
  BY <1>2, CreateInv
<1>3. ASSUME plan # None, ~applied, NEW seen, NEW skip, Resolve(seen, skip) PROVE Inv'
  BY <1>3, ResolveInv
<1>4. CASE Apply
  BY <1>4, ApplyInv
<1>5. CASE Continue
  BY <1>5, ContinueInv
<1>6. CASE UNCHANGED vars
  BY <1>6, StutterInv
<1> QED BY <1>1, <1>2, <1>3, <1>4, <1>5, <1>6 DEF Next

-----------------------------------------------------------------------------
(* Plans that were resolved: every operation belongs to one row change.     *)

\* op finds its row under a key of the row change rc, leaves it under one, names all of the row
\* that it takes away, and writes all of a row.
OwnedBy(op, rc) ==
  /\ DOMAIN op.key = KeyCols /\ op.key \in KeysOf(rc)
  /\ KeyCols \subseteq DOMAIN op.write => Restrict(op.write, KeyCols) \in KeysOf(rc)
  /\ op.kind # "insert" => Cols \ GenCols \subseteq DOMAIN op.expect
  /\ op.kind # "delete" => \E y \in Row : \A c \in Cols \ GenCols :
                             c \in DOMAIN op.write /\ op.write[c] = y[c]

\* The operations belong to different row changes.
OwnedAs(ops, m) ==
  /\ m \in [1 .. Len(ops) -> 1 .. Len(changes)]
  /\ \A i, j \in 1 .. Len(ops) : m[i] = m[j] => i = j
  /\ \A i \in 1 .. Len(ops) : OwnedBy(ops[i], changes[m[i]])
Owned(ops) == \E m : OwnedAs(ops, m)

\* The operations `ops` were compared with the rows `seen` of t, and can be resolved.
Resolvable(ops, t, seen, skip) ==
  /\ ops \in Seq(Ops) /\ Owned(ops) /\ t \in SUBSET Row /\ Legal(t)
  /\ \A i \in DOMAIN ops : seen[i] \in Readable(t, ops[i])
  /\ skip \subseteq Conflicting(ops, seen)
  /\ \A i \in Conflicting(ops, seen) \ skip : Overwritable(ops[i], seen[i])

\* The plan is what `plan resolve` made of the reviewed one.
Reviewed ==
  /\ Resolvable(reviewed.ops, reviewed.rows, reviewed.seen, reviewed.skip)
  /\ plan.ops = ResolvedOperations(reviewed.ops, reviewed.seen, reviewed.skip)

Tracked == root # None => /\ Owned(root.ops) /\ Owned(plan.ops)
                          /\ plan.class = "unsafe_resolved" => Reviewed

LEMMA KeysAre ==
  ASSUME changes \in Seq(RowChange), NEW h, Walked(h), ChooseKey(changes) # 0,
         NEW i \in 1 .. Len(changes)
  PROVE  /\ Olds[i] # None => Restrict(Olds[i], KeyCols) \in KeysOf(changes[i])
         /\ News[i] # None => Restrict(News[i], KeyCols) \in KeysOf(changes[i])
<1>1. ASSUME NEW x \in {Olds[i], News[i]}, x # None
      PROVE  Restrict(x, KeyCols) \in KeysOf(changes[i])
  <2>1. x \in Row /\ x # NoImage
    BY <1>1, ChangeFacts, RowFacts DEF Side
  <2>2. x \in {changes[i].before, changes[i].after} \ {NoImage}
    BY <1>1, <2>1, ChangeFacts DEF ImageOf
  <2> QED BY <2>2 DEF KeysOf, KeyCols
<1> QED BY <1>1

\* The columns of the key in an image without the generated ones.
LEMMA KeyOfWritten ==
  ASSUME NEW x \in Side, NEW K, K # {}, K \subseteq DOMAIN WithoutGenerated(ImageOf(x))
  PROVE  x # None /\ Restrict(WithoutGenerated(ImageOf(x)), K) = Restrict(x, K)
<1>1. x # None
  BY RowFacts DEF WithoutGenerated, Restrict, ImageOf
<1>2. \A c \in K : WithoutGenerated(ImageOf(x))[c] = x[c]
  BY <1>1, ImageFacts
<1> QED BY <1>1, <1>2 DEF Restrict

LEMMA KeyNotEmpty ==
  ASSUME ChooseKey(changes) # 0
  PROVE  KeyCols # {}
<1>1. KeyCols \in ToSet(UniqueKeys) /\ UniqueKeys \in Seq((SUBSET Cols) \ {{}})
  BY ChosenKey, CompensationAssumption
<1> QED BY <1>1 DEF ToSet

LEMMA BuiltOwned ==
  ASSUME changes \in Seq(RowChange), NEW h, Walked(h), ChooseKey(changes) # 0,
         NEW i \in 1 .. Len(changes), NEW mode \in {"revert", "reapply"}
  PROVE  OwnedBy(BuildOne(changes[i], mode, KeyCols), changes[i])
<1> DEFINE op == BuildOne(changes[i], mode, KeyCols)
           x == IF mode = "revert" THEN News[i] ELSE Olds[i]
           y == IF mode = "revert" THEN Olds[i] ELSE News[i]
<1>1. /\ op.kind = IF mode = "revert" THEN Opposite(KindOf(changes[i])) ELSE KindOf(changes[i])
      /\ op.key = Restrict(RowForKey(changes[i]), KeyCols)
      /\ op.expect = IF mode = "revert" THEN changes[i].after ELSE changes[i].before
      /\ op.write = WithoutGenerated(IF mode = "revert" THEN changes[i].before ELSE changes[i].after)
  BY DEF BuildOne
<1>2. /\ x \in Side /\ y \in Side /\ x # y
      /\ op.kind = "insert" <=> x = None
      /\ op.kind = "delete" <=> y = None
      /\ op.expect = ImageOf(x) /\ op.write = WithoutGenerated(ImageOf(y))
  BY <1>1, ChangeFacts DEF Opposite
<1>3. DOMAIN op.key = KeyCols /\ op.key \in KeysOf(changes[i])
  <2> HIDE DEF op
  <2>1. RowForKey(changes[i]) = IF News[i] # None THEN News[i] ELSE Olds[i]
    BY ChangeFacts
  <2>2. Olds[i] # None \/ News[i] # None
    BY ChangeFacts
  <2>3. Restrict(RowForKey(changes[i]), KeyCols) \in KeysOf(changes[i])
    BY <2>1, <2>2, KeysAre
  <2> QED BY <1>1, <2>3 DEF Restrict
<1>4. /\ x # None => Restrict(x, KeyCols) \in KeysOf(changes[i])
      /\ y # None => Restrict(y, KeyCols) \in KeysOf(changes[i])
  BY KeysAre
<1> HIDE DEF op, x, y
<1>5. KeyCols \subseteq DOMAIN op.write => Restrict(op.write, KeyCols) \in KeysOf(changes[i])
  BY <1>2, <1>4, KeyOfWritten, KeyNotEmpty
<1>6. op.kind # "insert" => Cols \ GenCols \subseteq DOMAIN op.expect
  BY <1>2, ImageFacts
<1>7. op.kind # "delete" => y \in Row /\ \A c \in Cols \ GenCols :
                                           c \in DOMAIN op.write /\ op.write[c] = y[c]
  BY <1>2, ImageFacts DEF Side
<1>8. OwnedBy(op, changes[i])
  BY <1>3, <1>5, <1>6, <1>7 DEF OwnedBy
<1> QED BY <1>8 DEF op

LEMMA InvertedOwned ==
  ASSUME changes \in Seq(RowChange), NEW h, Walked(h), ChooseKey(changes) # 0,
         NEW i \in 1 .. Len(changes), NEW rop, rop = BuildOne(changes[i], "revert", KeyCols),
         KeyCols \subseteq DOMAIN (IF rop.kind = "delete" THEN rop.expect ELSE rop.write)
  PROVE  OwnedBy(Invert(rop), changes[i])
<1> DEFINE op == Invert(rop)
           x == Olds[i]
           y == News[i]
<1>1. /\ rop.kind = Opposite(KindOf(changes[i])) /\ DOMAIN rop.key = KeyCols
      /\ rop.expect = changes[i].after /\ rop.write = WithoutGenerated(changes[i].before)
  BY DEF BuildOne, Restrict
<1>2. /\ op.kind = Opposite(rop.kind) /\ op.expect = rop.write /\ op.write = rop.expect
      /\ op.key = Restrict(IF rop.kind = "delete" THEN rop.expect ELSE rop.write, KeyCols)
  BY <1>1 DEF Invert
<1>3. /\ x \in Side /\ y \in Side /\ x # y
      /\ op.kind = "insert" <=> x = None
      /\ op.kind = "delete" <=> y = None
      /\ rop.kind = "delete" <=> x = None
      /\ op.write = ImageOf(y) /\ op.expect = WithoutGenerated(ImageOf(x))
  BY <1>1, <1>2, ChangeFacts DEF Opposite
<1>4. /\ x # None => Restrict(x, KeyCols) \in KeysOf(changes[i])
      /\ y # None => Restrict(y, KeyCols) \in KeysOf(changes[i])
  BY KeysAre
<1>5. DOMAIN op.key = KeyCols
  BY <1>2 DEF Restrict
<1> HIDE DEF op, x, y
<1>6. op.key \in KeysOf(changes[i])
  <2>1. CASE x = None
    BY <1>2, <1>3, <1>4, <2>1, ImageFacts
  <2>2. CASE x # None
    BY <1>2, <1>3, <1>4, <2>2, KeyOfWritten, KeyNotEmpty
  <2> QED BY <2>1, <2>2
<1>7. KeyCols \subseteq DOMAIN op.write => Restrict(op.write, KeyCols) \in KeysOf(changes[i])
  BY <1>3, <1>4, KeyNotEmpty, RowFacts DEF ImageOf
<1>8. op.kind # "insert" => Cols \ GenCols \subseteq DOMAIN op.expect
  BY <1>3, ImageFacts
<1>9. op.kind # "delete" => y \in Row /\ \A c \in Cols \ GenCols :
                                           c \in DOMAIN op.write /\ op.write[c] = y[c]
  BY <1>3, ImageFacts DEF Side
<1>10. OwnedBy(op, changes[i])
  BY <1>5, <1>6, <1>7, <1>8, <1>9 DEF OwnedBy
<1> QED BY <1>10 DEF op

LEMMA OwnedBuilt ==
  ASSUME changes \in Seq(RowChange), NEW h, Walked(h), ChooseKey(changes) # 0,
         NEW mode \in {"revert", "reapply"}, NEW ops, ops = BuildOperations(changes, mode)
  PROVE  Owned(ops)
<1> DEFINE n == Len(changes)
           m == [i \in 1 .. n |-> IF mode = "revert" THEN n + 1 - i ELSE i]
<1>1. n \in Nat /\ Len(ops) = n
  BY BuildOperationsType
<1>2. /\ m \in [1 .. n -> 1 .. n]
      /\ \A i, j \in 1 .. n : m[i] = m[j] => i = j
  BY <1>1
<1>3. ASSUME NEW i \in 1 .. n PROVE OwnedBy(ops[i], changes[m[i]])
  <2>1. ops[i] = BuildOne(changes[m[i]], mode, KeyCols) /\ m[i] \in 1 .. n
    BY <1>2, BuiltOps
  <2> HIDE DEF m
  <2> QED BY <2>1, BuiltOwned
<1> HIDE DEF m
<1>4. OwnedAs(ops, m)
  BY <1>1, <1>2, <1>3 DEF OwnedAs
<1> QED BY <1>4 DEF Owned

LEMMA OwnedInverted ==
  ASSUME changes \in Seq(RowChange), NEW h, Walked(h), ChooseKey(changes) # 0,
         NEW ops, ops = BuildOperations(changes, "revert"), Invertible(ops)
  PROVE  Owned(InvertedOperations(ops))
<1> DEFINE n == Len(changes)
           m == [i \in 1 .. n |-> i]
<1>1. n \in Nat /\ Len(ops) = n /\ DOMAIN ops = 1 .. n
  BY BuildOperationsType, BuiltOps
<1>2. ASSUME NEW i \in 1 .. n PROVE OwnedBy(InvertedOperations(ops)[i], changes[i])
  <2> DEFINE rop == ops[n + 1 - i]
  <2>1. n + 1 - i \in 1 .. n /\ n + 1 - (n + 1 - i) = i
    BY <1>1
  <2>2. rop = BuildOne(changes[i], "revert", KeyCols)
    BY <2>1, BuiltOps
  <2>3. InvertedOperations(ops)[i] = Invert(rop)
    BY <1>1 DEF InvertedOperations
  <2>4. DOMAIN rop.key = KeyCols
    BY <2>2 DEF BuildOne, Restrict
  <2>5. KeyCols \subseteq DOMAIN (IF rop.kind = "delete" THEN rop.expect ELSE rop.write)
    BY <1>1, <2>1, <2>4 DEF Invertible
  <2> HIDE DEF rop
  <2> QED BY <2>2, <2>3, <2>5, InvertedOwned
<1>3. Len(InvertedOperations(ops)) = n
  BY <1>1 DEF InvertedOperations
<1>4. OwnedAs(InvertedOperations(ops), m)
  BY <1>1, <1>2, <1>3 DEF OwnedAs
<1> QED BY <1>4 DEF Owned

\* An operation that is bound to the row that was seen is still the row change's.
LEMMA OverwrittenOwned ==
  ASSUME NEW rc, NEW op \in Ops, OwnedBy(op, rc), NEW t \in SUBSET Row, NEW row \in Readable(t, op),
         Conflict(op, row) # "none", ~Dropped(op, row), Overwritable(op, row)
  PROVE  OwnedBy(Overwritten(op, row), rc)
<1>1. /\ op = [kind |-> op.kind, key |-> op.key, expect |-> op.expect, write |-> op.write]
      /\ op.kind \in {"insert", "update", "delete"}
  BY DEF Ops
<1>2. CASE row = None
  <2>1. op.kind = "update"
    BY <1>1, <1>2 DEF Conflict, Dropped
  <2>2. Overwritten(op, row) = [kind |-> "insert", key |-> Restrict(op.write, DOMAIN op.key),
                                expect |-> NoImage, write |-> op.write]
    BY <1>1, <1>2 DEF Overwritten
  <2>3. DOMAIN op.key = KeyCols /\ KeyCols \subseteq DOMAIN op.write
    BY <1>2, <2>1 DEF Overwritable, OwnedBy
  <2> QED BY <2>1, <2>2, <2>3 DEF OwnedBy, Restrict
<1>3. CASE row # None
  <2>1. Overwritten(op, row) = [kind |-> IF op.kind = "insert" THEN "update" ELSE op.kind,
                                key |-> op.key, expect |-> ReadBack(row), write |-> op.write]
    BY <1>1, <1>3 DEF Overwritten
  <2>2. DOMAIN ReadBack(row) = Cols
    BY DEF ReadBack
  <2> QED BY <2>1, <2>2 DEF OwnedBy
<1> QED BY <1>2, <1>3

LEMMA OwnedResolved ==
  ASSUME NEW ops \in Seq(Ops), Owned(ops), NEW t \in SUBSET Row, NEW seen, NEW skip,
         \A i \in DOMAIN ops : seen[i] \in Readable(t, ops[i]),
         \A i \in Conflicting(ops, seen) \ skip : Overwritable(ops[i], seen[i])
  PROVE  Owned(ResolvedOperations(ops, seen, skip))
<1>1. PICK f : /\ Resolves(f, ops, seen, skip)
               /\ ResolvedOperations(ops, seen, skip) = f[Len(ops)]
  BY ResolvedResult
<1>2. PICK m : OwnedAs(ops, m)
  BY DEF Owned
<1> DEFINE n == Len(ops)
           Upto(i, k) == /\ f[i] \in Seq(Ops) /\ OwnedAs(f[i], k)
                         /\ \A l \in 1 .. Len(f[i]) : \E j \in 1 .. i : k[l] = m[j]
           S == {i \in 0 .. n : \E k : Upto(i, k)}
<1>3. n \in Nat /\ DOMAIN ops = 1 .. n
  OBVIOUS
<1>4. 0 \in S
  <2>1. f[0] = <<>> /\ Len(<<>>) = 0 /\ <<>> \in Seq(Ops)
    BY <1>1 DEF Resolves
  <2>2. PICK k : k = [l \in 1 .. 0 |-> 1]
    OBVIOUS
  <2>3. 1 .. 0 = {}
    OBVIOUS
  <2>4. OwnedAs(f[0], k)
    BY <2>1, <2>2, <2>3 DEF OwnedAs
  <2>5. Upto(0, k)
    BY <2>1, <2>4
  <2> HIDE DEF Upto
  <2> QED BY <1>3, <2>5
\* One operation more.
<1>5. ASSUME NEW i \in 1 .. n, NEW k, Upto(i - 1, k), NEW op \in Ops, f[i] = Append(f[i - 1], op),
             OwnedBy(op, changes[m[i]])
      PROVE  \E e : Upto(i, e)
  <2> DEFINE s == f[i - 1]
             p == Len(s)
  <2>1. s \in Seq(Ops) /\ p \in Nat /\ OwnedAs(s, k)
        /\ \A l \in 1 .. p : \E j \in 1 .. i - 1 : k[l] = m[j]
    BY <1>5
  <2>2. PICK e : e = [l \in 1 .. p + 1 |-> IF l = p + 1 THEN m[i] ELSE k[l]]
    OBVIOUS
  <2>3. /\ f[i] \in Seq(Ops) /\ Len(f[i]) = p + 1 /\ f[i][p + 1] = op
        /\ \A l \in 1 .. p : f[i][l] = s[l]
    BY <1>5, <2>1
  <2> HIDE DEF s, p
  <2>4. /\ m \in [1 .. n -> 1 .. Len(changes)] /\ m[i] \in 1 .. Len(changes)
        /\ \A j, l \in 1 .. n : m[j] = m[l] => j = l
    BY <1>2 DEF OwnedAs
  <2>5. /\ k \in [1 .. p -> 1 .. Len(changes)]
        /\ \A j, l \in 1 .. p : k[j] = k[l] => j = l
        /\ \A j \in 1 .. p : OwnedBy(s[j], changes[k[j]])
    BY <2>1 DEF OwnedAs, p
  <2>6. /\ e[p + 1] = m[i] /\ \A l \in 1 .. p : e[l] = k[l]
        /\ \A l \in 1 .. p + 1 : l = p + 1 \/ l \in 1 .. p
    BY <2>1, <2>2
  <2>7. ASSUME NEW l \in 1 .. p PROVE k[l] # m[i]
    <3>1. PICK j \in 1 .. i - 1 : k[l] = m[j]
      BY <2>1
    <3>2. j \in 1 .. n /\ j # i
      BY <1>1
    <3> QED BY <2>4, <3>1, <3>2
  <2>8. e \in [1 .. p + 1 -> 1 .. Len(changes)]
    <3>1. \A l \in 1 .. p + 1 : e[l] \in 1 .. Len(changes)
      BY <2>4, <2>5, <2>6
    <3>2. e = [l \in 1 .. p + 1 |-> e[l]]
      BY <2>2
    <3> QED BY <3>1, <3>2
  <2>9. ASSUME NEW j \in 1 .. p + 1, NEW l \in 1 .. p + 1, e[j] = e[l] PROVE j = l
    <3>1. CASE j \in 1 .. p /\ l \in 1 .. p
      BY <2>5, <2>6, <2>9, <3>1
    <3>2. CASE j = p + 1 /\ l \in 1 .. p
      BY <2>6, <2>7, <2>9, <3>2
    <3>3. CASE j \in 1 .. p /\ l = p + 1
      BY <2>6, <2>7, <2>9, <3>3
    <3> QED BY <2>6, <3>1, <3>2, <3>3
  <2>10. ASSUME NEW j \in 1 .. p + 1 PROVE OwnedBy(f[i][j], changes[e[j]])
    <3>1. CASE j = p + 1
      BY <1>5, <2>3, <2>6, <3>1
    <3>2. CASE j \in 1 .. p
      BY <2>3, <2>5, <2>6, <3>2
    <3> QED BY <2>6, <3>1, <3>2
  <2>11. OwnedAs(f[i], e)
    BY <2>3, <2>8, <2>9, <2>10 DEF OwnedAs
  <2>12. \A l \in 1 .. Len(f[i]) : \E j \in 1 .. i : e[l] = m[j]
    BY <2>1, <2>3, <2>6
  <2> QED BY <2>3, <2>11, <2>12
<1>6. ASSUME NEW i \in 1 .. n, i - 1 \in S PROVE i \in S
  <2> SUFFICES \E e : Upto(i, e)
    OBVIOUS
  <2>1. PICK k : Upto(i - 1, k)
    BY <1>6
  <2>2. ops[i] \in Ops /\ OwnedBy(ops[i], changes[m[i]])
    BY <1>2, <1>3 DEF OwnedAs
  <2> HIDE DEF Upto
  <2>3. CASE i \notin Conflicting(ops, seen)
    <3>1. f[i] = Append(f[i - 1], ops[i])
      BY <1>1, <2>3 DEF Resolves
    <3> QED BY <1>5, <2>1, <2>2, <3>1
  <2>4. CASE i \in Conflicting(ops, seen) /\ (i \in skip \/ Dropped(ops[i], seen[i]))
    <3>1. f[i] = f[i - 1]
      BY <1>1, <2>4 DEF Resolves
    <3>2. Upto(i, k)
      BY <2>1, <3>1 DEF Upto
    <3> QED BY <3>2
  <2>5. CASE i \in Conflicting(ops, seen) \ skip /\ ~Dropped(ops[i], seen[i])
    <3>1. f[i] = Append(f[i - 1], Overwritten(ops[i], seen[i]))
      BY <1>1, <2>5 DEF Resolves
    <3>2. Conflict(ops[i], seen[i]) # "none" /\ seen[i] \in Readable(t, ops[i])
      BY <1>3, <2>5 DEF Conflicting
    <3>3. /\ Overwritten(ops[i], seen[i]) \in Ops
          /\ OwnedBy(Overwritten(ops[i], seen[i]), changes[m[i]])
      BY <2>2, <2>5, <3>2, OverwrittenType, OverwrittenOwned
    <3> QED BY <1>5, <2>1, <3>1, <3>3
  <2> QED BY <2>3, <2>4, <2>5
<1> HIDE DEF S
<1>7. \A i \in 0 .. n : i \in S
  BY <1>3, <1>4, <1>6, InductionTo
<1>8. n \in S
  BY <1>3, <1>7
<1> QED BY <1>1, <1>8 DEF S, Owned

-----------------------------------------------------------------------------
LEMMA OwnedKept ==
  ASSUME UNCHANGED changes
  PROVE  \A ops : Owned(ops) => Owned(ops)'
<1>1. KeyCols' = KeyCols /\ \A rc : KeysOf(rc)' = KeysOf(rc)
  BY DEF KeyCols, KeysOf
<1>2. \A op, rc : OwnedBy(op, rc)' = OwnedBy(op, rc)
  BY <1>1 DEF OwnedBy
<1> QED BY <1>2 DEF Owned, OwnedAs

LEMMA TrackedKept ==
  ASSUME Tracked, root # None, UNCHANGED <<changes, root, plan, reviewed>>
  PROVE  Tracked'
<1>1. \A ops : Owned(ops) => Owned(ops)'
  BY OwnedKept
<1>2. Owned(root.ops)' /\ Owned(plan.ops)'
  BY <1>1 DEF Tracked
<1>3. Reviewed => Reviewed'
  BY <1>1 DEF Reviewed, Resolvable
<1> QED BY <1>2, <1>3 DEF Tracked

LEMMA TrackedNext ==
  ASSUME Inv, Tracked, [Next]_vars
  PROVE  Tracked'
<1>1. ASSUME NEW old, NEW new, SourceChange(old, new) PROVE Tracked'
  BY <1>1 DEF SourceChange, Tracked
<1>2. ASSUME NEW old, NEW new, ForeignChange(old, new) PROVE Tracked'
  BY <1>2, TrackedKept DEF ForeignChange
<1>3. ASSUME NEW mode \in {"revert", "reapply"}, Create(mode) PROVE Tracked'
  <2> DEFINE ops == BuildOperations(changes, mode)
  <2>1. /\ ChooseKey(changes) # 0 /\ changes \in Seq(RowChange)
        /\ root' = Plan(mode, "safe", 0, ops) /\ plan' = root' /\ changes' = changes
    BY <1>3 DEF Inv, Create
  <2>2. PICK h : Walked(h)
    BY DEF Inv
  <2>3. Owned(ops)
    BY <2>1, <2>2, OwnedBuilt
  <2> HIDE DEF ops
  <2>4. root'.ops = ops /\ plan'.ops = ops /\ plan'.class = "safe"
    BY <2>1 DEF Plan
  <2>5. \A o : Owned(o) => Owned(o)'
    BY <2>1, OwnedKept
  <2>6. Owned(root.ops)' /\ Owned(plan.ops)'
    BY <2>3, <2>4, <2>5
  <2> QED BY <2>4, <2>6 DEF Tracked
<1>4. ASSUME plan # None, ~applied, NEW seen, NEW skip, Resolve(seen, skip) PROVE Tracked'
  <2> DEFINE ops == plan.ops
             new == ResolvedOperations(ops, seen, skip)
  <2>1. /\ root # None /\ plan \in Plans /\ table \in SUBSET Row /\ Legal(table)
        /\ \A i \in DOMAIN ops : seen[i] \in Readable(table, ops[i])
        /\ skip \subseteq Conflicting(ops, seen)
        /\ \A i \in Conflicting(ops, seen) \ skip : Overwritable(ops[i], seen[i])
        /\ plan' = Plan(plan.mode, "unsafe_resolved", plan.depth, new)
        /\ reviewed' = [rows |-> table, ops |-> ops, seen |-> seen, skip |-> skip]
        /\ UNCHANGED <<changes, root>>
    BY <1>4 DEF Inv, TypeOK, Resolve
  <2>2. ops \in Seq(Ops) /\ Owned(ops) /\ Owned(root.ops)
    BY <2>1 DEF Plans, Tracked
  <2>3. Owned(new)
    BY <2>1, <2>2, OwnedResolved
  <2> HIDE DEF new
  <2>4. plan'.ops = new
    BY <2>1 DEF Plan
  <2>5. \A s : Owned(s) => Owned(s)'
    BY <2>1 DEF Owned, OwnedAs, OwnedBy, KeysOf, KeyCols
  <2>6. Owned(root.ops)' /\ Owned(plan.ops)'
    BY <2>1, <2>2, <2>3, <2>4, <2>5
  <2> HIDE DEF ops
  <2>7. /\ reviewed'.rows = table /\ reviewed'.ops = ops
        /\ reviewed'.seen = seen /\ reviewed'.skip = skip
    BY <2>1
  <2>8. Owned(reviewed.ops)'
    BY <2>2, <2>5, <2>7
  <2>9. Reviewed'
    BY <2>1, <2>2, <2>4, <2>7, <2>8 DEF Reviewed, Resolvable, new
  <2> QED BY <2>6, <2>9 DEF Tracked
<1>5. CASE Apply
  BY <1>5, TrackedKept DEF Apply, Inv
<1>6. CASE Continue
  <2> DEFINE mode == IF plan.mode = "revert" THEN "reapply" ELSE "revert"
             ops == IF mode = "reapply" THEN InvertedOperations(root.ops) ELSE root.ops
  <2>1. /\ root.mode = "revert" /\ applied
        /\ mode = "reapply" => Invertible(root.ops)
        /\ plan' = Plan(mode, "safe", plan.depth + 1, ops)
        /\ UNCHANGED <<changes, root>>
    BY <1>6 DEF Continue
  <2>2. /\ root # None /\ changes \in Seq(RowChange) /\ ChooseKey(changes) # 0 /\ Rooted
    BY <2>1 DEF Inv
  <2>3. PICK h : Walked(h)
    BY DEF Inv
  <2>4. root.ops = BuildOperations(changes, "revert")
    BY <2>1, <2>2 DEF Rooted, Plan
  <2>5. Owned(root.ops)
    BY <2>2 DEF Tracked
  <2>6. Owned(ops)
    BY <2>1, <2>2, <2>3, <2>4, <2>5, OwnedInverted
  <2> HIDE DEF mode, ops
  <2>7. plan'.ops = ops /\ plan'.class = "safe"
    BY <2>1 DEF Plan
  <2>8. \A s : Owned(s) => Owned(s)'
    BY <2>1 DEF Owned, OwnedAs, OwnedBy, KeysOf, KeyCols
  <2>9. Owned(root.ops)' /\ Owned(plan.ops)'
    BY <2>1, <2>5, <2>6, <2>7, <2>8
  <2> QED BY <2>7, <2>9 DEF Tracked
<1>7. CASE UNCHANGED vars
  BY <1>7, TrackedKept DEF Tracked, vars
<1> QED BY <1>1, <1>2, <1>3, <1>4, <1>5, <1>6, <1>7 DEF Next

LEMMA TrackedAlways == Spec => [](Inv /\ Tracked)
<1>1. Init => Tracked
  BY DEF Init, Tracked
<1>2. Inv /\ Tracked /\ [Next]_vars => Tracked'
  BY TrackedNext
<1> QED BY <1>1, <1>2, InitInv, Inductive, PTL DEF Spec

-----------------------------------------------------------------------------
(* What is left of a resolved plan.                                         *)

\* Whether something is left of operation i, and what.
Stays(ops, seen, skip, i) ==
  i \notin Conflicting(ops, seen) \/ (i \notin skip /\ ~Dropped(ops[i], seen[i]))
Left(ops, seen, i) == IF i \notin Conflicting(ops, seen) THEN ops[i] ELSE Overwritten(ops[i], seen[i])

\* Without NULLs a row is read as it is.
LEMMA ReadAsItIs ==
  ASSUME Nullable = {}, NEW r \in Row
  PROVE  ReadBack(r) = r /\ CanBeRead(r)
<1>1. /\ r \in [Cols -> Value] /\ \A c \in Cols : r[c] # Null /\ r[c] # Unreadable
  BY RowFacts
<1>2. ReadBack(r) = r
  BY <1>1 DEF ReadBack
<1> QED BY <1>1, <1>2 DEF CanBeRead, Range

\* Without NULLs a key selects one row at most.
LEMMA OneIsSelected ==
  ASSUME Nullable = {}, ChooseKey(changes) # 0, NEW t \in SUBSET Row, Legal(t),
         NEW key, DOMAIN key = KeyCols, NEW r \in Selected(t, key)
  PROVE  Selected(t, key) = {r}
<1>1. r \in t /\ r \in Row /\ Matches(r, key) /\ KeyCols \in ToSet(UniqueKeys) /\ KeyCols \in SUBSET Cols
  BY ChosenKey DEF Selected
<1>2. \A c \in KeyCols : key[c] = r[c] /\ key[c] # Null
  BY <1>1, RowFacts DEF Matches
<1>3. ASSUME NEW s \in Selected(t, key) PROVE s = r
  BY <1>1, <1>2, KeyIsFree DEF Selected
<1> QED BY <1>3

\* What is left of an operation is bound to the row that was seen.
LEMMA LeftIs ==
  ASSUME Nullable = {}, NEW ops, NEW t, NEW seen, NEW skip, Resolvable(ops, t, seen, skip),
         NEW i \in DOMAIN ops, Stays(ops, seen, skip, i)
  PROVE  LET op == ops[i]
             left == Left(ops, seen, i)
             row == seen[i]
         IN  /\ row # None => row \in t /\ row \in Row /\ Matches(row, op.key)
             /\ row = None => Selected(t, op.key) = {}
             /\ DOMAIN op.key = KeyCols /\ DOMAIN left.key = KeyCols /\ left.write = op.write
             /\ left.kind = "insert" <=> row = None
             /\ left.kind = "delete" <=> op.kind = "delete"
             /\ row # None => /\ left.key = op.key /\ Matches(row, left.expect)
                              /\ Cols \ GenCols \subseteq DOMAIN left.expect
             /\ row = None => IF op.kind = "update"
                              THEN left.key = Restrict(op.write, KeyCols) /\ KeyCols \subseteq DOMAIN op.write
                              ELSE left.key = op.key
<1> DEFINE op == ops[i]
           left == Left(ops, seen, i)
           row == seen[i]
<1>1. PICK m : OwnedAs(ops, m)
  BY DEF Resolvable, Owned
<1>2. /\ op \in Ops /\ OwnedBy(op, changes[m[i]]) /\ row \in Readable(t, op) /\ t \in SUBSET Row
      /\ i \in Conflicting(ops, seen) <=> Conflict(op, row) # "none"
      /\ i \in Conflicting(ops, seen) => ~Dropped(op, row) /\ Overwritable(op, row)
  BY <1>1 DEF Resolvable, OwnedAs, Stays, Conflicting
<1>3. left = IF Conflict(op, row) = "none" THEN op ELSE Overwritten(op, row)
  BY <1>2 DEF Left
<1> HIDE DEF op, left, row
<1>4. /\ row # None => row \in t /\ row \in Row /\ Matches(row, op.key)
      /\ row = None => Selected(t, op.key) = {}
  BY <1>2, RowFacts DEF Readable, Selected
<1>5. /\ op = [kind |-> op.kind, key |-> op.key, expect |-> op.expect, write |-> op.write]
      /\ op.kind \in {"insert", "update", "delete"}
  BY <1>2 DEF Ops
<1>6. /\ DOMAIN op.key = KeyCols
      /\ op.kind # "insert" => Cols \ GenCols \subseteq DOMAIN op.expect
  BY <1>2 DEF OwnedBy
<1>7. CASE row = None /\ Conflict(op, row) = "none"
  <2>1. op.kind = "insert" /\ left = op
    BY <1>3, <1>7 DEF Conflict
  <2> QED BY <1>4, <1>6, <1>7, <2>1 DEF op, left, row
<1>8. CASE row = None /\ Conflict(op, row) # "none"
  <2>1. op.kind = "update" /\ KeyCols \subseteq DOMAIN op.write
    BY <1>2, <1>5, <1>6, <1>8 DEF Conflict, Dropped, Overwritable
  <2>2. left = [kind |-> "insert", key |-> Restrict(op.write, DOMAIN op.key),
                expect |-> NoImage, write |-> op.write]
    BY <1>3, <1>5, <1>8 DEF Overwritten
  <2>3. left.key = Restrict(op.write, KeyCols) /\ DOMAIN left.key = KeyCols
    BY <1>6, <2>2 DEF Restrict
  <2> QED BY <1>4, <1>6, <1>8, <2>1, <2>2, <2>3 DEF op, left, row
<1>9. CASE row # None /\ Conflict(op, row) = "none"
  <2>1. ReadBack(row) = row /\ CanBeRead(row)
    BY <1>4, <1>9, ReadAsItIs
  <2>2. op.kind # "insert" /\ Matches(row, op.expect) /\ left = op
    BY <1>3, <1>9, <2>1 DEF Conflict
  <2> QED BY <1>4, <1>6, <1>9, <2>2 DEF op, left, row
<1>10. CASE row # None /\ Conflict(op, row) # "none"
  <2>1. ReadBack(row) = row /\ DOMAIN row = Cols
    BY <1>4, <1>10, ReadAsItIs, RowFacts
  <2>2. left = [kind |-> IF op.kind = "insert" THEN "update" ELSE op.kind,
                key |-> op.key, expect |-> row, write |-> op.write]
    BY <1>3, <1>5, <1>10, <2>1 DEF Overwritten
  <2>3. Matches(row, left.expect) /\ Cols \ GenCols \subseteq DOMAIN left.expect
    BY <2>1, <2>2 DEF Matches
  <2> QED BY <1>4, <1>6, <1>10, <2>2, <2>3 DEF op, left, row
<1> QED BY <1>7, <1>8, <1>9, <1>10

LEMMA ResolvesType ==
  ASSUME NEW ops, NEW t, NEW seen, NEW skip, Resolvable(ops, t, seen, skip),
         NEW f, Resolves(f, ops, seen, skip)
  PROVE  \A i \in 0 .. Len(ops) : f[i] \in Seq(Ops)
BY GatheredType DEF Resolvable

LEMMA ResolvesStep ==
  ASSUME NEW ops, NEW seen, NEW skip, NEW f, Resolves(f, ops, seen, skip), NEW i \in 1 .. Len(ops)
  PROVE  f[i] = IF Stays(ops, seen, skip, i) THEN Append(f[i - 1], Left(ops, seen, i)) ELSE f[i - 1]
BY DEF Resolves, Stays, Left

\* What has been gathered stays at its place.
LEMMA ResolvesKeeps ==
  ASSUME NEW ops, NEW t, NEW seen, NEW skip, Resolvable(ops, t, seen, skip),
         NEW f, Resolves(f, ops, seen, skip), NEW i \in 0 .. Len(ops)
  PROVE  /\ Len(f[i]) <= Len(f[Len(ops)])
         /\ \A k \in 1 .. Len(f[i]) : f[Len(ops)][k] = f[i][k]
<1> DEFINE n == Len(ops)
           Keeps(j) == Len(f[i]) <= Len(f[j]) /\ \A k \in 1 .. Len(f[i]) : f[j][k] = f[i][k]
           S == {j \in 0 .. n : j >= i => Keeps(j)}
<1>1. n \in Nat
  BY DEF Resolvable
<1>2. \A j \in 0 .. n : f[j] \in Seq(Ops)
  BY ResolvesType
<1>3. Len(f[i]) \in Nat /\ Keeps(i)
  BY <1>2
<1>4. 0 \in S
  BY <1>1, <1>3
<1>5. ASSUME NEW j \in 1 .. n, j - 1 \in S PROVE j \in S
  <2> SUFFICES ASSUME j > i PROVE Keeps(j)
    BY <1>1, <1>3
  <2>1. Keeps(j - 1) /\ f[j - 1] \in Seq(Ops) /\ f[j] \in Seq(Ops)
    BY <1>1, <1>2, <1>5
  <2>2. CASE f[j] = f[j - 1]
    BY <2>1, <2>2
  <2>3. CASE f[j] = Append(f[j - 1], Left(ops, seen, j))
    <3>1. Len(f[j]) = Len(f[j - 1]) + 1 /\ Len(f[j - 1]) \in Nat
          /\ \A k \in 1 .. Len(f[j - 1]) : f[j][k] = f[j - 1][k]
      BY <2>1, <2>3
    <3> QED BY <1>3, <2>1, <3>1
  <2>4. f[j] = IF Stays(ops, seen, skip, j) THEN Append(f[j - 1], Left(ops, seen, j)) ELSE f[j - 1]
    BY ResolvesStep
  <2> QED BY <2>2, <2>3, <2>4
<1> HIDE DEF S
<1>6. \A j \in 0 .. n : j \in S
  BY <1>1, <1>4, <1>5, InductionTo
<1>7. n \in S
  BY <1>1, <1>6
<1> QED BY <1>1, <1>7 DEF S

\* What is left of an operation is an operation of the resolved plan.
LEMMA LeftIsThere ==
  ASSUME NEW ops, NEW t, NEW seen, NEW skip, Resolvable(ops, t, seen, skip),
         NEW i \in DOMAIN ops, Stays(ops, seen, skip, i)
  PROVE  \E k \in DOMAIN ResolvedOperations(ops, seen, skip) :
           ResolvedOperations(ops, seen, skip)[k] = Left(ops, seen, i)
<1> DEFINE n == Len(ops)
<1>1. n \in Nat /\ i \in 1 .. n /\ i \in 0 .. n /\ i - 1 \in 0 .. n /\ n \in 0 .. n
  BY DEF Resolvable
<1>2. PICK f : Resolves(f, ops, seen, skip) /\ ResolvedOperations(ops, seen, skip) = f[n]
  BY <1>1, ResolvedResult
<1>3. f[i - 1] \in Seq(Ops) /\ f[i] \in Seq(Ops) /\ f[n] \in Seq(Ops)
  BY <1>1, <1>2, ResolvesType
<1>4. f[i] = Append(f[i - 1], Left(ops, seen, i))
  BY <1>1, <1>2, ResolvesStep
<1>5. /\ Len(f[i]) \in 1 .. Len(f[i]) /\ f[i][Len(f[i])] = Left(ops, seen, i)
      /\ Len(f[i]) \in Nat
  BY <1>3, <1>4
<1>6. Len(f[i]) <= Len(f[n]) /\ \A k \in 1 .. Len(f[i]) : f[n][k] = f[i][k]
  BY <1>1, <1>2, ResolvesKeeps
<1>7. Len(f[i]) \in DOMAIN f[n]
  BY <1>3, <1>5, <1>6
<1> QED BY <1>2, <1>5, <1>6, <1>7

-----------------------------------------------------------------------------
\* When a resolved plan is applied, the rows of its operations are those that were reviewed.
LEMMA BoundAreUnmoved ==
  ASSUME Nullable = {}, Inv, Tracked, Apply, plan.class = "unsafe_resolved",
         NEW i \in DOMAIN reviewed.ops, Bound(i)
  PROVE  Unmoved(i)
<1> DEFINE ops == reviewed.ops
           t == reviewed.rows
           seen == reviewed.seen
           skip == reviewed.skip
           op == ops[i]
           left == Left(ops, seen, i)
           row == seen[i]
<1>1. /\ plan # None /\ Ready(table, plan.ops) /\ root # None /\ ChooseKey(changes) # 0
      /\ table \in SUBSET Row /\ Legal(table) /\ Reviewed
  BY DEF Apply, Inv, TypeOK, Tracked
<1>2. /\ Resolvable(ops, t, seen, skip) /\ plan.ops = ResolvedOperations(ops, seen, skip)
      /\ t \in SUBSET Row /\ Legal(t)
  BY <1>1 DEF Reviewed, Resolvable
<1>3. /\ i \notin skip /\ ~Dropped(op, row)
      /\ op.kind = "update" /\ row = None => \A c \in DOMAIN op.key \cap DOMAIN op.write : op.write[c] = op.key[c]
  BY DEF Bound
<1>4. Stays(ops, seen, skip, i)
  BY <1>3 DEF Stays
<1>5. PICK k \in DOMAIN plan.ops : plan.ops[k] = left
  BY <1>2, <1>4, LeftIsThere
<1>6. PICK now \in Readable(table, left) : Conflict(left, now) = "none"
  BY <1>1, <1>5 DEF Ready
<1>7. /\ row # None => row \in t /\ row \in Row /\ Matches(row, op.key)
      /\ row = None => Selected(t, op.key) = {}
      /\ DOMAIN op.key = KeyCols /\ DOMAIN left.key = KeyCols
      /\ left.kind = "insert" <=> row = None
      /\ row # None => /\ left.key = op.key /\ Matches(row, left.expect)
                       /\ Cols \ GenCols \subseteq DOMAIN left.expect
      /\ row = None => IF op.kind = "update"
                       THEN left.key = Restrict(op.write, KeyCols) /\ KeyCols \subseteq DOMAIN op.write
                       ELSE left.key = op.key
  BY <1>2, <1>4, LeftIs
<1>8. op.key \in Images
  <2>1. op \in Ops
    BY <1>2 DEF Resolvable
  <2> HIDE DEF op
  <2> QED BY <2>1 DEF Ops
<1> HIDE DEF left, row
<1>9. CASE row = None
  <2>1. left.key = op.key
    <3>1. CASE op.kind = "update"
      <4>1. \A c \in KeyCols : op.write[c] = op.key[c]
        BY <1>3, <1>7, <1>9, <3>1
      <4>2. op.key = [c \in KeyCols |-> op.key[c]]
        BY <1>7, <1>8 DEF Images
      <4>3. left.key = [c \in KeyCols |-> op.write[c]]
        BY <1>7, <1>9, <3>1 DEF Restrict
      <4> HIDE DEF op
      <4> QED BY <4>1, <4>2, <4>3
    <3> QED BY <1>7, <1>9, <3>1
  <2>2. now = None
    <3> SUFFICES ASSUME now # None PROVE FALSE
      OBVIOUS
    <3>1. now \in Row
      BY <1>1, <1>6 DEF Readable, Selected
    <3> QED BY <1>6, <1>7, <1>9, <3>1, ReadAsItIs DEF Conflict
  <2>3. Selected(table, op.key) = {}
    BY <1>1, <1>6, <2>1, <2>2, RowFacts DEF Readable, Selected
  <2> QED BY <1>7, <1>9, <2>3 DEF Unmoved
<1>10. CASE row # None
  <2>1. now # None /\ now \in Row /\ now \in Selected(table, op.key)
    BY <1>1, <1>6, <1>7, <1>10, RowFacts DEF Conflict, Readable, Selected
  <2>2. Matches(now, left.expect)
    BY <1>6, <1>7, <1>10, <2>1, ReadAsItIs DEF Conflict
  <2>3. now = row
    BY <1>7, <1>10, <2>1, <2>2, WholeRow
  <2>4. row \in Selected(t, op.key)
    BY <1>7, <1>10 DEF Selected
  <2>5. Selected(t, op.key) = {row} /\ Selected(table, op.key) = {row}
    BY <1>1, <1>2, <1>7, <2>1, <2>3, <2>4, OneIsSelected
  <2> QED BY <2>5 DEF Unmoved
<1> QED BY <1>9, <1>10

\* What an operation makes of the row that was seen.
Target(op, row) == IF op.kind = "delete" THEN None
                   ELSE Assigned(IF row = None THEN [c \in Cols |-> Null] ELSE row, op.write)

\* An operation that is bound to all of a row makes of it what it should.
LEMMA BoundOpMoves ==
  ASSUME NEW t \in SUBSET Row, NEW op, NEW row \in Side, op.kind = "insert" <=> row = None,
         row # None => /\ Matches(row, op.key) /\ Matches(row, op.expect)
                       /\ Cols \ GenCols \subseteq DOMAIN op.expect,
         op.kind # "delete" => \E y \in Row : \A c \in Cols \ GenCols :
                                 c \in DOMAIN op.write /\ op.write[c] = y[c],
         ApplyOp(Table(t), op).ok
  PROVE  /\ op.kind # "delete" => Target(op, row) \in Row
         /\ Moves(t, row, Target(op, row), ApplyOp(Table(t), op).rows)
<1> DEFINE hit == Selected(t, Predicate(op))
           old == IF op.kind = "insert" THEN None ELSE CHOOSE r \in hit : TRUE
           new == IF op.kind = "delete" THEN None
                  ELSE Assigned(IF old = None THEN [c \in Cols |-> Null] ELSE old, op.write)
<1>1. /\ Change(t, old, new) /\ DOMAIN op.write \cap GenCols = {}
      /\ op.kind # "insert" => \E r \in hit : hit = {r}
      /\ ApplyOp(Table(t), op) = [ok |-> TRUE, rows |-> Changed(t, old, new)]
  BY DEF ApplyOp, Table, Failed
<1>2. old = row
  <2>1. CASE op.kind = "insert"
    BY <2>1
  <2>2. CASE op.kind # "insert"
    <3>1. PICK r \in hit : hit = {r}
      BY <1>1, <2>2
    <3>2. /\ r \in Row /\ Matches(r, Predicate(op)) /\ row \in Row /\ Matches(row, Predicate(op))
          /\ Cols \ GenCols \subseteq DOMAIN Predicate(op)
      BY <2>2, PredicateIs DEF Selected, Side
    <3>3. r = row
      BY <3>2, WholeRow
    <3> QED BY <2>2, <3>1, <3>3
  <2> QED BY <2>1, <2>2
<1>3. new = Target(op, row)
  <2> HIDE DEF old
  <2> QED BY <1>2, Zenon DEF Target
<1>4. op.kind # "delete" => Target(op, row) \in Row
  <2> SUFFICES ASSUME op.kind # "delete" PROVE Target(op, row) \in Row
    OBVIOUS
  <2>1. PICK y \in Row : \A c \in Cols \ GenCols : c \in DOMAIN op.write /\ op.write[c] = y[c]
    OBVIOUS
  <2>2. Target(op, row) = y
    BY <1>1, <2>1, AssignedIs DEF Target
  <2> QED BY <2>2
<1> HIDE DEF old, new
<1>5. None \notin t
  BY RowFacts
<1> QED BY <1>1, <1>2, <1>3, <1>4, <1>5 DEF Change, Moves, Side

\* The rows that the steps 1 .. i have, those of `out` left out, in x.
RowsOf(x, out, i) == {x[j] : j \in (1 .. i) \ out}

\* The step i of u takes a row x[i] of the first table away and brings y[i], no two the same row; the
\* steps of `out` do nothing, and some leave the row they would take as it is.
StepByStep(n, u, x, y, out) ==
  /\ u[0] \in SUBSET Row
  /\ \A i \in 1 .. n : x[i] = None \/ x[i] \in u[0]
  /\ \A i, j \in 1 .. n : x[i] = x[j] /\ x[i] # None => i = j
  /\ \A i \in 1 .. n : \/ i \in out /\ u[i] = u[i - 1]
                       \/ i \notin out /\ x[i] = y[i] /\ u[i] = u[i - 1]
                       \/ i \notin out /\ Moves(u[i - 1], x[i], y[i], u[i])

\* Such steps make together what each of them makes alone.
LEMMA Composed ==
  ASSUME NEW n \in Nat, NEW u, NEW x, NEW y, NEW out, StepByStep(n, u, x, y, out)
  PROVE  u[n] = (u[0] \ RowsOf(x, out, n)) \cup (RowsOf(y, out, n) \ {None})
<1> DEFINE t == u[0]
           P(i) == /\ u[i] = (t \ RowsOf(x, out, i)) \cup (RowsOf(y, out, i) \ {None})
                   /\ RowsOf(y, out, i) \cap t \subseteq RowsOf(x, out, i)
           S == {i \in 0 .. n : P(i)}
<1> USE DEF StepByStep
<1>1. 0 \in S
  <2>1. RowsOf(x, out, 0) = {} /\ RowsOf(y, out, 0) = {}
    BY DEF RowsOf
  <2> QED BY <2>1
<1>2. None \notin t
  BY RowFacts
<1>3. ASSUME NEW i \in 1 .. n, i - 1 \in S PROVE i \in S
  <2> DEFINE X == RowsOf(x, out, i - 1)
             Y == RowsOf(y, out, i - 1)
  <2>1. u[i - 1] = (t \ X) \cup (Y \ {None}) /\ Y \cap t \subseteq X
    BY <1>3
  <2>2. (1 .. i) \ out = IF i \in out THEN (1 .. i - 1) \ out ELSE ((1 .. i - 1) \ out) \cup {i}
    OBVIOUS
  <2>3. /\ RowsOf(x, out, i) = IF i \in out THEN X ELSE X \cup {x[i]}
        /\ RowsOf(y, out, i) = IF i \in out THEN Y ELSE Y \cup {y[i]}
    BY <2>2 DEF RowsOf
  <2>4. x[i] # None => x[i] \notin X /\ x[i] \in t
    <3> SUFFICES ASSUME x[i] # None, x[i] \in X PROVE FALSE
      OBVIOUS
    <3>1. PICK j \in (1 .. i - 1) \ out : x[i] = x[j]
      BY DEF RowsOf
    <3> QED BY <3>1
  <2> HIDE DEF X, Y
  <2> SUFFICES P(i)
    OBVIOUS
  <2>5. CASE i \in out /\ u[i] = u[i - 1]
    BY <2>1, <2>3, <2>5
  <2>6. CASE i \notin out /\ x[i] = y[i] /\ u[i] = u[i - 1]
    BY <1>2, <2>1, <2>3, <2>4, <2>6
  <2>7. CASE i \notin out /\ Moves(u[i - 1], x[i], y[i], u[i])
    <3>1. /\ u[i] = (u[i - 1] \ {x[i]}) \cup ({y[i]} \ {None}) /\ y[i] \notin u[i - 1]
      BY <2>7 DEF Moves, Changed
    <3> QED BY <1>2, <2>1, <2>3, <2>4, <2>7, <3>1
  <2> QED BY <2>5, <2>6, <2>7
<1> HIDE DEF S
<1>4. \A i \in 0 .. n : i \in S
  BY <1>1, <1>3, InductionTo
<1>5. n \in S
  BY <1>4
<1> QED BY <1>5 DEF S

\* Operations of different row changes see different rows, if no row was touched twice.
LEMMA SeenApart ==
  ASSUME TouchedOnce, changes \in Seq(RowChange), NEW ops, NEW t, NEW seen, NEW skip, Resolvable(ops, t, seen, skip),
         NEW i \in DOMAIN ops, NEW j \in DOMAIN ops, seen[i] = seen[j], seen[i] # None
  PROVE  i = j
<1>1. PICK m : OwnedAs(ops, m)
  BY DEF Resolvable, Owned
<1>2. /\ m[i] \in DOMAIN changes /\ m[j] \in DOMAIN changes
      /\ OwnedBy(ops[i], changes[m[i]]) /\ OwnedBy(ops[j], changes[m[j]])
  BY <1>1 DEF OwnedAs, Resolvable
<1>3. ASSUME NEW k \in {i, j} PROVE ops[k].key = Restrict(seen[k], KeyCols)
  <2>1. seen[k] \in Readable(t, ops[k]) /\ ops[k] \in Ops /\ DOMAIN ops[k].key = KeyCols
    BY <1>2 DEF Resolvable, OwnedBy
  <2>2. Matches(seen[k], ops[k].key)
    BY <2>1 DEF Readable, Selected
  <2>3. ops[k].key \in Images
    BY <2>1 DEF Ops
  <2>4. ops[k].key = [c \in KeyCols |-> ops[k].key[c]]
    BY <2>1, <2>3 DEF Images
  <2> QED BY <2>1, <2>2, <2>4 DEF Matches, Restrict
<1>4. ops[i].key = ops[j].key
  BY <1>3
<1>5. ops[i].key \in KeysOf(changes[m[i]]) \cap KeysOf(changes[m[j]])
  BY <1>2, <1>4 DEF OwnedBy
<1>6. m[i] = m[j]
  <2>1. \A k, l \in DOMAIN changes : k # l => KeysOf(changes[k]) \cap KeysOf(changes[l]) = {}
    BY DEF TouchedOnce
  <2> QED BY <1>2, <1>5, <2>1
<1>7. i \in 1 .. Len(ops) /\ j \in 1 .. Len(ops)
  BY DEF Resolvable
<1> QED BY <1>1, <1>6, <1>7 DEF OwnedAs

\* Nothing is left of an operation when its row is as it should be.
LEMMA DroppedIsReached ==
  ASSUME Nullable = {}, NEW ops, NEW t, NEW seen, NEW skip, Resolvable(ops, t, seen, skip),
         NEW i \in DOMAIN ops, Dropped(ops[i], seen[i])
  PROVE  seen[i] = Target(ops[i], seen[i])
<1> DEFINE op == ops[i]
           row == seen[i]
<1>1. row \in Readable(t, op) /\ t \in SUBSET Row /\ Dropped(op, row)
  BY DEF Resolvable
<1> HIDE DEF op, row
<1>2. CASE op.kind = "delete" /\ row = None
  BY <1>2 DEF Target, op, row
<1>3. CASE op.kind # "delete" /\ row # None /\ Reached(row, op)
  <2>1. row \in Row
    BY <1>1, <1>3 DEF Readable, Selected
  <2>2. \A c \in DOMAIN op.write : row[c] = op.write[c]
    BY <1>3, <2>1, ReadAsItIs DEF Reached, Matches
  <2> DEFINE g == [c \in Cols |-> IF c \in DOMAIN op.write THEN op.write[c] ELSE row[c]]
  <2>3. row = [c \in Cols |-> row[c]]
    BY <2>1, RowFacts
  <2>4. \A c \in Cols : g[c] = row[c]
    BY <2>2
  <2>5. g = [c \in Cols |-> g[c]]
    OBVIOUS
  <2>6. Assigned(row, op.write) = Regenerated(g)
    BY DEF Assigned
  <2> HIDE DEF g
  <2>7. g = row
    BY <2>3, <2>4, <2>5
  <2>8. \A c \in Cols : Regenerated(row)[c] = row[c]
    BY <2>1, RowFacts DEF Regenerated
  <2>9. Regenerated(row) = [c \in Cols |-> Regenerated(row)[c]]
    BY DEF Regenerated
  <2>10. Regenerated(row) = row
    BY <2>3, <2>8, <2>9
  <2>11. Target(op, row) = row
    BY <1>3, <2>6, <2>7, <2>10 DEF Target
  <2> QED BY <2>11 DEF op, row
<1>4. \/ op.kind = "delete" /\ row = None
      \/ op.kind # "delete" /\ row # None /\ Reached(row, op)
  BY <1>1 DEF Dropped
<1> QED BY <1>2, <1>3, <1>4

\* What is left of an operation makes of the row that was seen what the operation should.
LEMMA LeftMoves ==
  ASSUME Nullable = {}, NEW ops, NEW t, NEW seen, NEW skip, Resolvable(ops, t, seen, skip),
         NEW i \in DOMAIN ops, Stays(ops, seen, skip, i), NEW b \in SUBSET Row,
         ApplyOp(Table(b), Left(ops, seen, i)).ok
  PROVE  /\ ops[i].kind # "delete" => Target(ops[i], seen[i]) \in Row
         /\ Moves(b, seen[i], Target(ops[i], seen[i]), ApplyOp(Table(b), Left(ops, seen, i)).rows)
<1> DEFINE op == ops[i]
           left == Left(ops, seen, i)
           row == seen[i]
<1>1. /\ row # None => row \in Row /\ Matches(row, op.key)
      /\ left.write = op.write
      /\ left.kind = "insert" <=> row = None
      /\ left.kind = "delete" <=> op.kind = "delete"
      /\ row # None => /\ left.key = op.key /\ Matches(row, left.expect)
                       /\ Cols \ GenCols \subseteq DOMAIN left.expect
  BY LeftIs
<1>2. PICK m : OwnedAs(ops, m)
  BY DEF Resolvable, Owned
<1>3. op.kind # "delete" => \E y \in Row : \A c \in Cols \ GenCols :
                              c \in DOMAIN op.write /\ op.write[c] = y[c]
  BY <1>2 DEF OwnedAs, OwnedBy, Resolvable
<1>4. Target(op, row) = Target(left, row)
  <2> HIDE DEF op, left, row
  <2> QED BY <1>1 DEF Target
<1>5. ApplyOp(Table(b), left).ok
  OBVIOUS
<1> HIDE DEF op, left, row
<1>6. row \in Side
  BY <1>1 DEF Side
<1>7. /\ left.kind # "delete" => Target(left, row) \in Row
      /\ Moves(b, row, Target(left, row), ApplyOp(Table(b), left).rows)
  BY <1>1, <1>3, <1>5, <1>6, BoundOpMoves
<1> QED BY <1>1, <1>4, <1>7 DEF op, left, row

LEMMA ResolvedIsExact ==
  ASSUME Nullable = {}, Inv, Tracked, Apply, plan.class = "unsafe_resolved",
         table = reviewed.rows, TouchedOnce
  PROVE  LET todo == DOMAIN reviewed.ops \ reviewed.skip
         IN  table' = (table \ {reviewed.seen[i] : i \in todo})
                        \cup UNION {Intended(reviewed.ops[i], reviewed.seen[i]) : i \in todo}
<1> DEFINE ops == reviewed.ops
           seen == reviewed.seen
           skip == reviewed.skip
           n == Len(ops)
           made == plan.ops
<1>1. /\ plan # None /\ root # None /\ Execute(table, made).ok /\ table' = Execute(table, made).rows
      /\ table \in SUBSET Row /\ Legal(table) /\ Reviewed /\ Len(made) \in Nat
      /\ changes \in Seq(RowChange)
  BY DEF Apply, Inv, TypeOK, Tracked, Plans
<1>2. /\ Resolvable(ops, table, seen, skip) /\ made = ResolvedOperations(ops, seen, skip)
  BY <1>1 DEF Reviewed
<1> HIDE DEF ops, seen, skip, made
<1>3. n \in Nat /\ DOMAIN ops = 1 .. n
  BY <1>2 DEF Resolvable
<1>4. PICK f : Resolves(f, ops, seen, skip) /\ made = f[n]
  BY <1>2, <1>3, ResolvedResult
<1>5. PICK a : Results(table, made, a) /\ Execute(table, made) = a[Len(made)]
  BY <1>1, ExecuteResult
<1>6. \A k \in 0 .. Len(made) : a[k].ok /\ a[k].rows \subseteq Row /\ a[k] = Table(a[k].rows)
  BY <1>1, <1>5, ResultsAreTables
<1>7. PICK u : u = [i \in 0 .. n |-> a[Len(f[i])].rows]
  OBVIOUS
<1>8. \A i \in 0 .. n : f[i] \in Seq(Ops)
  BY <1>2, <1>4, ResolvesType
<1>9. u[0] = table /\ u[n] = table'
  <2>1. f[0] = <<>> /\ Len(<<>>) = 0 /\ 0 \in 0 .. n /\ n \in 0 .. n
    BY <1>3, <1>4 DEF Resolves
  <2>2. u[0] = a[0].rows /\ u[n] = a[Len(made)].rows
    BY <1>4, <1>7, <2>1
  <2> QED BY <1>1, <1>5, <2>2 DEF Results, Table
<1> DEFINE y == [i \in 1 .. n |-> Target(ops[i], seen[i])]
           x == [i \in 1 .. n |-> seen[i]]
<1>10. ASSUME NEW i \in 1 .. n
       PROVE  /\ x[i] = None \/ x[i] \in table
              /\ i \notin skip => Intended(ops[i], seen[i]) = {y[i]} \ {None}
              /\ \/ i \in skip /\ u[i] = u[i - 1]
                 \/ i \notin skip /\ x[i] = y[i] /\ u[i] = u[i - 1]
                 \/ i \notin skip /\ Moves(u[i - 1], x[i], y[i], u[i])
  <2>1. /\ i \in DOMAIN ops /\ seen[i] \in Readable(table, ops[i])
        /\ i \in skip => i \in Conflicting(ops, seen)
        /\ i \in 0 .. n /\ i - 1 \in 0 .. n
    BY <1>2, <1>3 DEF Resolvable
  <2>2. seen[i] = None \/ seen[i] \in table
    BY <2>1 DEF Readable, Selected
  <2>3. f[i] = IF Stays(ops, seen, skip, i) THEN Append(f[i - 1], Left(ops, seen, i)) ELSE f[i - 1]
    BY <1>4, ResolvesStep
  <2>4. None \notin Row
    BY RowFacts
  <2>5. u[i] = a[Len(f[i])].rows /\ u[i - 1] = a[Len(f[i - 1])].rows
    BY <1>7, <2>1
  <2>6. CASE ~Stays(ops, seen, skip, i) /\ i \in skip
    BY <2>2, <2>3, <2>5, <2>6
  <2>7. CASE ~Stays(ops, seen, skip, i) /\ i \notin skip
    <3>1. Dropped(ops[i], seen[i])
      BY <2>7 DEF Stays
    <3>2. seen[i] = Target(ops[i], seen[i])
      BY <1>2, <2>1, <3>1, DroppedIsReached
    <3>3. Intended(ops[i], seen[i]) = {Target(ops[i], seen[i])} \ {None}
      <4>1. CASE ops[i].kind = "delete"
        BY <4>1 DEF Intended, Target
      <4>2. CASE ops[i].kind # "delete"
        <5>1. Target(ops[i], seen[i]) # None
          BY <3>1, <3>2, <4>2 DEF Dropped
        <5> QED BY <4>2, <5>1 DEF Intended, Target
      <4> QED BY <4>1, <4>2
    <3> QED BY <2>2, <2>3, <2>5, <2>7, <3>2, <3>3
  <2>8. CASE Stays(ops, seen, skip, i)
    <3>1. i \notin skip
      BY <2>1, <2>8 DEF Stays
    <3>2. f[i] = Append(f[i - 1], Left(ops, seen, i)) /\ f[i] \in Seq(Ops) /\ f[i - 1] \in Seq(Ops)
      BY <1>8, <2>1, <2>3, <2>8
    <3>3. PICK p \in Nat : p = Len(f[i - 1])
      BY <3>2
    <3>4. Len(f[i]) = p + 1 /\ f[i][p + 1] = Left(ops, seen, i)
      BY <3>2, <3>3
    <3>5. Len(f[i]) <= Len(f[n]) /\ \A k \in 1 .. Len(f[i]) : f[n][k] = f[i][k]
      BY <1>2, <1>4, <2>1, ResolvesKeeps
    <3>6. p + 1 \in 1 .. Len(made) /\ made[p + 1] = Left(ops, seen, i)
          /\ p \in 0 .. Len(made) /\ p + 1 \in 0 .. Len(made)
      <4>1. Len(f[i]) <= Len(made) /\ \A k \in 1 .. Len(f[i]) : made[k] = f[i][k]
        BY <1>4, <3>5
      <4>2. p + 1 \in 1 .. Len(f[i])
        BY <3>3, <3>4
      <4>3. made[p + 1] = Left(ops, seen, i)
        BY <3>4, <4>1, <4>2
      <4>4. p \in Nat /\ Len(made) \in Nat /\ p + 1 <= Len(made)
        BY <1>1, <3>3, <3>4, <4>1
      <4> HIDE DEF n
      <4> QED BY <4>3, <4>4
    <3>7. a[p + 1] = ApplyOp(a[p], Left(ops, seen, i))
      <4>1. a[p + 1] = ApplyOp(a[(p + 1) - 1], made[p + 1])
        BY <1>5, <3>6 DEF Results
      <4>2. (p + 1) - 1 = p
        BY <3>3
      <4> QED BY <3>6, <4>1, <4>2
    <3>8. /\ a[p].rows \in SUBSET Row /\ a[p] = Table(a[p].rows)
          /\ a[p + 1].ok
      BY <1>6, <3>6
    <3>9. ApplyOp(Table(a[p].rows), Left(ops, seen, i)) = a[p + 1]
      BY <3>7, <3>8
    <3>10. /\ ops[i].kind # "delete" => Target(ops[i], seen[i]) \in Row
           /\ Moves(a[p].rows, seen[i], Target(ops[i], seen[i]),
                    ApplyOp(Table(a[p].rows), Left(ops, seen, i)).rows)
      BY <1>2, <2>1, <2>8, <3>8, <3>9, LeftMoves
    <3>11. Intended(ops[i], seen[i]) = {Target(ops[i], seen[i])} \ {None}
      BY <2>4, <3>10 DEF Intended, Target
    <3>12. u[i - 1] = a[p].rows /\ u[i] = a[p + 1].rows
      BY <2>5, <3>3, <3>4
    <3> QED BY <2>2, <3>1, <3>9, <3>10, <3>11, <3>12
  <2> QED BY <2>6, <2>7, <2>8
<1>11. \A i, j \in 1 .. n : x[i] = x[j] /\ x[i] # None => i = j
  BY <1>1, <1>2, <1>3, SeenApart
<1>12. RowsOf(x, skip, n) = {seen[i] : i \in (1 .. n) \ skip}
  BY DEF RowsOf
<1> HIDE DEF x, y
<1>13. StepByStep(n, u, x, y, skip)
  <2>1. u[0] \in SUBSET Row
    BY <1>1, <1>9
  <2>2. \A i \in 1 .. n : x[i] = None \/ x[i] \in u[0]
    BY <1>9, <1>10
  <2>3. \A i \in 1 .. n : \/ i \in skip /\ u[i] = u[i - 1]
                          \/ i \notin skip /\ x[i] = y[i] /\ u[i] = u[i - 1]
                          \/ i \notin skip /\ Moves(u[i - 1], x[i], y[i], u[i])
    BY <1>10
  <2> QED BY <1>11, <2>1, <2>2, <2>3 DEF StepByStep
<1>14. u[n] = (u[0] \ RowsOf(x, skip, n)) \cup (RowsOf(y, skip, n) \ {None})
  BY <1>3, <1>13, Composed
<1>15. RowsOf(y, skip, n) \ {None} = UNION {Intended(ops[i], seen[i]) : i \in (1 .. n) \ skip}
  <2>1. ASSUME NEW r PROVE r \in RowsOf(y, skip, n) \ {None}
                           <=> \E i \in (1 .. n) \ skip : r \in {y[i]} \ {None}
    BY DEF RowsOf
  <2>2. \A i \in (1 .. n) \ skip : Intended(ops[i], seen[i]) = {y[i]} \ {None}
    BY <1>10
  <2>3. ASSUME NEW r PROVE r \in UNION {Intended(ops[i], seen[i]) : i \in (1 .. n) \ skip}
                           <=> \E i \in (1 .. n) \ skip : r \in {y[i]} \ {None}
    BY <2>2
  <2> QED BY <2>1, <2>3
<1> QED BY <1>3, <1>9, <1>12, <1>14, <1>15 DEF ops, seen, skip

-----------------------------------------------------------------------------
(* The theorems.                                                            *)

\* Tables keep their unique keys, and plans are bounded lists of operations, whatever is resolved,
\* applied and continued.
THEOREM TypeCorrect == Spec => []TypeOK
<1>1. Inv => TypeOK
  BY DEF Inv
<1> QED BY <1>1, InitInv, Inductive, PTL DEF Spec

\* A safe plan applies only where every row that the source transaction left is as it left it, and
\* then makes exactly the transaction's net change: a revert whatever its keys are, and a reapply
\* from the source transaction if no key holds a NULL; along the whole chain.
THEOREM PlansAreExact == Spec => ExactEffect
<1>1. Inv /\ [Next]_vars =>
        [Applying /\ plan.class = "safe" /\ (root.mode = "revert" \/ KeysNotNull) => NetEffect]_vars
  <2> SUFFICES ASSUME Inv, Next, Applying, plan.class = "safe",
                      root.mode = "revert" \/ KeysNotNull
               PROVE  NetEffect
    OBVIOUS
  <2>1. Apply
    BY DEF Next, Applying, SourceChange, ForeignChange, Create, Resolve, Continue
  <2> QED BY <2>1, ApplyIsExact
<1> QED BY <1>1, InitInv, Inductive, PTL DEF Spec, ExactEffect

\* On rows nobody has changed since, a safe plan that Check calls READY can be applied, if no key
\* holds a NULL and the plan writes no generated column.
THEOREM ReadyMeansApplicable == Spec => [](WritesNoGenerated => ReadyApplies)
<1>1. Inv => (WritesNoGenerated => ReadyApplies)
  BY ReadyPlanApplies
<1> QED BY <1>1, InitInv, Inductive, PTL DEF Spec

\* A table without generated columns: whatever Check calls READY can be applied, if no key holds a
\* NULL.
COROLLARY ReadyAppliesWithoutGenerated ==
  ASSUME GenCols = {}
  PROVE  Spec => []ReadyApplies
<1>1. WritesNoGenerated
  BY DEF WritesNoGenerated
<1>2. Inv => ReadyApplies
  BY <1>1, ReadyPlanApplies
<1> QED BY <1>2, InitInv, Inductive, PTL DEF Spec

\* On rows nobody has changed since, Check finds no conflict, if the source transaction changed no
\* row twice and no NULL is in the way.
THEOREM ConflictsHaveReasons == Spec => []NoFalseConflict
<1> QED BY NoConflictWithoutReason, InitInv, Inductive, PTL DEF Spec

\* A table without nullable columns: applied to the rows the operator reviewed, a resolved plan
\* brings every operation that was not skipped to its target, and leaves everything else alone, if
\* the source transaction touched no row twice.
THEOREM ResolvedPlansAreExact ==
  ASSUME Nullable = {}
  PROVE  Spec => ResolvedEffect
<1> DEFINE Exact ==
      Applying /\ plan.class = "unsafe_resolved" /\ table = reviewed.rows /\ TouchedOnce =>
        LET todo == DOMAIN reviewed.ops \ reviewed.skip
        IN  table' = (table \ {reviewed.seen[i] : i \in todo})
                       \cup UNION {Intended(reviewed.ops[i], reviewed.seen[i]) : i \in todo}
<1>1. Inv /\ Tracked /\ [Next]_vars => [Exact]_vars
  <2> SUFFICES ASSUME Inv, Tracked, Next, Applying, plan.class = "unsafe_resolved",
                      table = reviewed.rows, TouchedOnce
               PROVE  Exact
    OBVIOUS
  <2>1. Apply
    BY DEF Next, Applying, SourceChange, ForeignChange, Create, Resolve, Continue
  <2> QED BY <2>1, ResolvedIsExact
<1> QED BY <1>1, TrackedAlways, PTL DEF Spec, ResolvedEffect

\* A table without nullable columns: an operation of a resolved plan that is still bound to the row
\* that was reviewed is applied only if that row has not changed since.
THEOREM ResolvedPlansStayBound ==
  ASSUME Nullable = {}
  PROVE  Spec => BoundRowsUnmoved
<1> DEFINE Unchanged ==
      Applying /\ plan.class = "unsafe_resolved" /\ TouchedOnce =>
        \A i \in DOMAIN reviewed.ops : Bound(i) => Unmoved(i)
<1>1. Inv /\ Tracked /\ [Next]_vars => [Unchanged]_vars
  <2> SUFFICES ASSUME Inv, Tracked, Next, Applying, plan.class = "unsafe_resolved"
               PROVE  \A i \in DOMAIN reviewed.ops : Bound(i) => Unmoved(i)
    OBVIOUS
  <2>1. Apply
    BY DEF Next, Applying, SourceChange, ForeignChange, Create, Resolve, Continue
  <2> QED BY <2>1, BoundAreUnmoved
<1> QED BY <1>1, TrackedAlways, PTL DEF Spec, BoundRowsUnmoved
=============================================================================
